--------------------------- MODULE MeshCommandProofs ---------------------------
(***************************************************************************)
(* Mesh commands, proved for every number of nodes, callers, slots and     *)
(* retries: the types of the variables, and that a node takes no command   *)
(* twice. For the latter a behaviour has at most as many commands as a     *)
(* node remembers, so that a number stands for one command, the manager    *)
(* restarts for long enough to be forgotten, and no slot is reused under a *)
(* command that is being sent. Then wherever a number of this life is      *)
(* written down it is that of its command, and a node that has taken the   *)
(* command knows the number. That switches of one caller arrive in their   *)
(* order follows last: each is sent once, and every queue keeps its order. *)
(***************************************************************************)
EXTENDS MeshCommand, FiniteSetTheorems, TLAPS

\* What is on its way to be sent is a command.
Named ==
  /\ \A s \in 1..Slots : pending[s].used => pending[s].id \in Ids
  /\ \A c \in Callers : call[c].on =>
       call[c].id \in Ids /\ pending[call[c].slot].id \in Ids
  /\ retry.on => retry.id \in Ids

TInv == TypeOK /\ Named

Entries == [used : BOOLEAN, seq : 0..255, id : 0..MaxCmds, left : 0..Retries,
            acks : Nat, expected : Nat \ {0}, quiet : SUBSET Nodes]
Answers == [seq : 0..255, n : Nodes]

USE NodesAssumption

-----------------------------------------------------------------------------
(* Types.                                                                  *)

LEMMA Sizes ==
  /\ Slots \in Nat \ {0} /\ AckRing \in Nat \ {0} /\ CmdRing \in Nat \ {0}
  /\ DeafAt \in Nat \ {0} /\ MaxCmds \in Nat \ {0} /\ Burst \in Nat \ {0}
  /\ Retries \in Nat /\ MaxLoss \in Nat
BY SizeAssumption

USE Sizes

\* TypeOK in parts, one for what a step changes together.
TCounts  == issued \in 0..MaxCmds /\ seqCounter \in 0..255
TPending == pending \in [1..Slots -> Entries]
TCalls   == call \in [Callers -> Calls] /\ retry \in Calls
TMisses  == misses \in [Nodes -> 0..DeafAt]
TAnswers == dedupe \in SUBSET Answers /\ acks \in SUBSET Answers
TQueues  == inq \in [Nodes -> Seq(Packets)]
TRecent  == recent \in [Nodes -> SUBSET (0..255)]
TLosses  == losses \in 0..MaxLoss
THeard   == heard \in [Nodes -> Seq(0..MaxCmds)]
THistory == /\ after \in [Ids -> SUBSET Ids]
            /\ sent \in SUBSET Ids /\ due \in SUBSET Ids /\ gone \in SUBSET Ids
Parts == /\ TCounts /\ TPending /\ TCalls /\ TMisses /\ TAnswers /\ TQueues
         /\ TRecent /\ TLosses /\ THeard /\ THistory

LEMMA TypeParts == TypeOK <=> Parts
BY DEF TypeOK, Parts, TCounts, TPending, TCalls, TMisses, TAnswers, TQueues, TRecent,
       TLosses, THeard, THistory, Entries, Answers

LEMMA TypePartsNext == TypeOK' <=> Parts'
BY TypeParts, PTL

LEMMA ExpectedType ==
  ASSUME NEW live \in SUBSET Nodes
  PROVE  Expected(live) \in Nat \ {0}
<1> DEFINE R == {n \in live : ~Deaf(n)}
<1>1. IsFiniteSet(R)
  BY FS_Subset
<1>2. Cardinality(R) \in Nat
  BY <1>1, FS_CardinalityType
<1> QED BY <1>2 DEF Expected

LEMMA EntryType ==
  ASSUME TypeOK, NEW live \in SUBSET Nodes, issued' \in Ids, seqCounter' \in 0..255
  PROVE  Entry(live) \in Entries /\ Entry(live).id = issued'
<1>1. RetriesOf(issued') \in 0..Retries
  BY DEF RetriesOf
<1>2. Expected(live) \in Nat \ {0}
  BY ExpectedType
<1> QED BY <1>1, <1>2 DEF Entry, Entries, Ids

LEMMA FreedType ==
  ASSUME NEW p \in Entries
  PROVE  Freed(p) \in Entries /\ Freed(p).id = p.id /\ ~Freed(p).used
<1>1. p.id \in 0..MaxCmds
  BY DEF Entries
<1> QED BY <1>1 DEF Freed, Unfilled, Entries

\* What a ring holds is of the type of what is put in.
LEMMA PushedType ==
  ASSUME NEW T, NEW ring \in SUBSET T, NEW x \in T, NEW size, NEW r \in Pushed(ring, x, size)
  PROVE  r \in SUBSET T
BY DEF Pushed

LEMMA BroadcastType ==
  ASSUME TypeOK, NEW m \in Packets, Broadcast(m)
  PROVE  inq' \in [Nodes -> Seq(Packets)] /\ losses' \in 0..MaxLoss
<1>1. PICK missed \in SUBSET Nodes :
        /\ losses + Cardinality(missed) <= MaxLoss
        /\ losses' = losses + Cardinality(missed)
        /\ inq' = [n \in Nodes |-> IF n \in missed THEN inq[n] ELSE Append(inq[n], m)]
  BY DEF Broadcast
<1>2. Cardinality(missed) \in Nat
  BY FS_Subset, FS_CardinalityType
<1>3. losses' \in 0..MaxLoss
  BY SMTT(30), <1>1, <1>2 DEF TypeOK
<1>4. \A n \in Nodes : inq[n] \in Seq(Packets) /\ Append(inq[n], m) \in Seq(Packets)
  BY DEF TypeOK
<1> QED BY <1>1, <1>3, <1>4

LEMMA InitType == Init => TInv
<1> SUFFICES ASSUME Init PROVE TInv
  OBVIOUS
<1>1. Free \in Entries /\ ~Free.used /\ None \in Calls /\ ~None.on
  BY DEF Free, Unfilled, Entries, None, Calls
<1>2. TypeOK
  BY <1>1 DEF Init, TypeOK, Entries
<1>3. Named
  BY <1>1 DEF Init, Named
<1> QED BY <1>2, <1>3 DEF TInv

LEMMA IssueKeeps ==
  ASSUME TInv, NEW c \in Callers, NEW live \in SUBSET Nodes,
         IssueFree(c, live) \/ IssueFlush(c, live)
  PROVE  TInv'
<1> USE DEF TInv
<1>1. PICK slot \in 1..Slots :
        /\ Issue(c, slot, live)
        /\ \/ pending' = [pending EXCEPT ![slot] = Entry(live)] /\ UNCHANGED gone
           \/ /\ slot = 1 /\ Unused = {}
              /\ pending' = [s \in 1..Slots |-> IF s = 1 THEN Entry(live)
                                                ELSE Freed(pending[s])]
              /\ gone' = gone \cup {pending[s].id : s \in 1..Slots}
  <2>1. 1 \in 1..Slots
    OBVIOUS
  <2> QED BY <2>1 DEF IssueFree, IssueFlush, Unused
<1>2. /\ issued' = issued + 1 /\ issued' \in Ids /\ issued' \in 0..MaxCmds
      /\ seqCounter' \in 0..255
  BY <1>1 DEF Issue, TypeOK, Ids
<1>3. Entry(live) \in Entries /\ Entry(live).id = issued'
  BY <1>2, EntryType
<1>4. \A s \in 1..Slots : /\ pending[s] \in Entries /\ Freed(pending[s]) \in Entries
                          /\ Freed(pending[s]).id = pending[s].id
                          /\ ~Freed(pending[s]).used
  BY FreedType DEF TypeOK, Entries
<1>5. /\ pending' \in [1..Slots -> Entries] /\ pending'[slot] = Entry(live)
      /\ \A s \in 1..Slots \ {slot} :
           pending'[s].id = pending[s].id /\ (pending'[s].used => pending[s].used)
  <2>1. pending \in [1..Slots -> Entries]
    BY DEF TypeOK, Entries
  <2>2. CASE pending' = [pending EXCEPT ![slot] = Entry(live)]
    BY <1>3, <2>1, <2>2
  <2>3. CASE /\ slot = 1
             /\ pending' = [s \in 1..Slots |-> IF s = 1 THEN Entry(live)
                                               ELSE Freed(pending[s])]
    BY <1>3, <1>4, <2>1, <2>3
  <2> QED BY <1>1, <2>2, <2>3
<1>6. /\ call' = [call EXCEPT ![c] = [on |-> TRUE, slot |-> slot, seq |-> seqCounter',
                                      id |-> issued']]
      /\ call' \in [Callers -> Calls]
  BY <1>1, <1>2 DEF Issue, TypeOK, Calls, Ids
<1>7. /\ after' \in [Ids -> SUBSET Ids] /\ due' \in SUBSET Ids /\ sent' \in SUBSET Ids
  BY <1>1, <1>2, TypeParts DEF Issue, Parts, THistory
<1>8. gone' \in SUBSET Ids
  <2>1. Unused = {} => \A s \in 1..Slots : pending[s].id \in Ids
    BY DEF Unused, Named
  <2> QED BY <1>1, <2>1, TypeParts DEF Parts, THistory
<1>9. TypeOK'
  <2>1. UNCHANGED <<retry, misses, dedupe, acks, inq, recent, losses, heard>>
    BY <1>1 DEF Issue
  <2>2. pending' \in [1..Slots -> Entries] /\ call' \in [Callers -> Calls]
    BY <1>5, <1>6
  <2>3. /\ retry' \in Calls /\ misses' \in [Nodes -> 0..DeafAt]
        /\ {dedupe', acks'} \subseteq SUBSET Answers
        /\ inq' \in [Nodes -> Seq(Packets)] /\ recent' \in [Nodes -> SUBSET (0..255)]
        /\ losses' \in 0..MaxLoss /\ heard' \in [Nodes -> Seq(0..MaxCmds)]
    BY <2>1 DEF TypeOK, Answers
  <2>4. /\ issued' \in 0..MaxCmds /\ seqCounter' \in 0..255
        /\ after' \in [Ids -> SUBSET Ids] /\ {sent', due', gone'} \subseteq SUBSET Ids
    BY <1>2, <1>7, <1>8
  <2> QED BY <2>2, <2>3, <2>4 DEF TypeOK, Entries, Answers
<1>10. Named'
  <2>1. \A d \in Callers : call'[d].on =>
          call'[d].id \in Ids /\ pending'[call'[d].slot].id \in Ids
    <3> SUFFICES ASSUME NEW d \in Callers, call'[d].on
                 PROVE  call'[d].id \in Ids /\ pending'[call'[d].slot].id \in Ids
      OBVIOUS
    <3>1. CASE d = c
      <4>1. call'[c].id = issued' /\ call'[c].slot = slot
        BY <1>6, TypeParts DEF Parts, TCalls
      <4> QED BY <3>1, <4>1, <1>2, <1>3, <1>5
    <3>2. CASE d # c
      <4>1. call'[d] = call[d] /\ call[d].slot \in 1..Slots
        BY <3>2, <1>6 DEF TypeOK, Calls
      <4> QED BY <4>1, <1>2, <1>3, <1>5 DEF Named
    <3> QED BY <3>1, <3>2
  <2>2. \A s \in 1..Slots : pending'[s].used => pending'[s].id \in Ids
    BY <1>2, <1>3, <1>5 DEF Named
  <2>3. retry' = retry
    BY <1>1 DEF Issue
  <2> QED BY <2>1, <2>2, <2>3 DEF Named
<1> QED BY <1>9, <1>10

LEMMA SendKeeps ==
  ASSUME TInv, NEW c \in Callers, Send(c)
  PROVE  TInv'
<1>1. Parts /\ Named
  BY TypeParts DEF TInv
<1>2. Packet(call[c].seq, pending[call[c].slot].id) \in Packets /\ call[c].id \in Ids
  BY <1>1 DEF Send, Packet, Packets, Named, Parts, TCalls, Calls
<1>3. TQueues' /\ TLosses'
  BY <1>2, BroadcastType DEF Send, TQueues, TLosses, TInv
<1>4. None \in Calls /\ ~None.on
  BY DEF None, Calls
<1>5. call' = [call EXCEPT ![c] = None] /\ call \in [Callers -> Calls] /\ retry' = retry
  BY <1>1 DEF Send, Parts, TCalls
<1>6. TCalls'
  BY <1>1, <1>4, <1>5 DEF Parts, TCalls
<1>7. UNCHANGED <<issued, seqCounter, pending, retry, misses, dedupe, acks, recent, heard,
                  after, due, gone>>
  BY DEF Send
<1>8. THistory'
  BY <1>1, <1>2, <1>7 DEF Send, Parts, THistory
<1>9. Parts'
  BY <1>1, <1>3, <1>6, <1>7, <1>8
  DEF Parts, TCounts, TPending, TMisses, TAnswers, TRecent, THeard
<1>10. Named'
  BY <1>1, <1>4, <1>5, <1>7 DEF Named
<1> QED BY <1>9, <1>10, TypePartsNext DEF TInv

LEMMA RetryTakeKeeps ==
  ASSUME TInv, NEW s \in 1..Slots, RetryTake(s)
  PROVE  TInv'
<1>1. Parts /\ Named /\ pending \in [1..Slots -> Entries] /\ pending[s] \in Entries
  BY TypeParts DEF TInv, Parts, TPending
<1>2. pending[s].left - 1 \in 0..Retries
  BY SMTT(30), <1>1 DEF RetryTake, RetryLeft, Entries
<1>3. /\ pending' = [pending EXCEPT ![s].left = @ - 1]
      /\ retry' = [on |-> TRUE, slot |-> s, seq |-> pending[s].seq, id |-> pending[s].id]
      /\ pending[s].used
      /\ UNCHANGED <<issued, seqCounter, call, misses, dedupe, acks, inq, recent, losses,
                     heard, history>>
  BY DEF RetryTake
<1>4. /\ pending' \in [1..Slots -> Entries]
      /\ \A t \in 1..Slots : pending'[t].id = pending[t].id /\ pending'[t].used = pending[t].used
  BY ZenonT(40), <1>1, <1>2, <1>3 DEF Entries
<1>5. retry' \in Calls /\ retry'.id \in Ids
  BY <1>1, <1>3 DEF Entries, Calls, Named
<1>6. Parts'
  BY <1>1, <1>3, <1>4, <1>5
  DEF Parts, TCounts, TPending, TCalls, TMisses, TAnswers, TQueues, TRecent, TLosses, THeard,
      THistory, history
<1>7. \A c \in Callers : call[c].slot \in 1..Slots
  BY <1>1 DEF Parts, TCalls, Calls
<1>8. Named'
  BY <1>1, <1>3, <1>4, <1>5, <1>7 DEF Named
<1> QED BY <1>6, <1>8, TypePartsNext DEF TInv

LEMMA RetrySendKeeps ==
  ASSUME TInv, RetrySend
  PROVE  TInv'
<1>1. Parts /\ Named
  BY TypeParts DEF TInv
<1>2. Packet(retry.seq, retry.id) \in Packets
  BY <1>1 DEF RetrySend, Packet, Packets, Named, Parts, TCalls, Calls
<1>3. TQueues' /\ TLosses'
  BY <1>2, BroadcastType DEF RetrySend, TQueues, TLosses, TInv
<1>4. retry' = None /\ None \in Calls /\ ~None.on
  BY DEF RetrySend, None, Calls
<1>5. UNCHANGED <<issued, seqCounter, pending, call, misses, dedupe, acks, recent, heard,
                  history>>
  BY DEF RetrySend
<1>6. Parts'
  BY <1>1, <1>3, <1>4, <1>5
  DEF Parts, TCounts, TPending, TCalls, TMisses, TAnswers, TRecent, THeard, THistory, history
<1>7. Named'
  BY <1>1, <1>4, <1>5 DEF Named
<1> QED BY <1>6, <1>7, TypePartsNext DEF TInv

LEMMA GiveUpKeeps ==
  ASSUME TInv, NEW s \in 1..Slots, NEW live \in SUBSET Nodes, GiveUp(s, live)
  PROVE  TInv'
<1>1. Parts /\ Named /\ pending \in [1..Slots -> Entries] /\ pending[s] \in Entries
  BY TypeParts DEF TInv, Parts, TPending
<1>2. /\ pending' = [pending EXCEPT ![s] = Freed(pending[s])]
      /\ misses' = [n \in Nodes |-> IF n \in live \cap pending[s].quiet /\ ~Deaf(n)
                                    THEN misses[n] + 1 ELSE misses[n]]
      /\ UNCHANGED <<issued, seqCounter, call, retry, dedupe, acks, inq, recent, losses,
                     heard, history>>
  BY DEF GiveUp
<1>3. Freed(pending[s]) \in Entries /\ Freed(pending[s]).id = pending[s].id
      /\ ~Freed(pending[s]).used
  BY <1>1, FreedType
<1>4. /\ pending' \in [1..Slots -> Entries]
      /\ \A t \in 1..Slots : /\ pending'[t].id = pending[t].id
                             /\ pending'[t].used => pending[t].used
  BY <1>1, <1>2, <1>3
<1>5. TMisses'
  <2>1. \A n \in Nodes : misses[n] \in 0..DeafAt
    BY <1>1 DEF Parts, TMisses
  <2>2. \A n \in Nodes : (IF n \in live \cap pending[s].quiet /\ ~Deaf(n)
                          THEN misses[n] + 1 ELSE misses[n]) \in 0..DeafAt
    BY <2>1 DEF Deaf
  <2> QED BY <1>2, <2>2 DEF TMisses
<1>6. Parts'
  BY <1>1, <1>2, <1>4, <1>5
  DEF Parts, TCounts, TPending, TCalls, TAnswers, TQueues, TRecent, TLosses, THeard,
      THistory, history
<1>7. \A c \in Callers : call[c].slot \in 1..Slots
  BY <1>1 DEF Parts, TCalls, Calls
<1>8. Named'
  BY <1>1, <1>2, <1>4, <1>7 DEF Named
<1> QED BY <1>6, <1>8, TypePartsNext DEF TInv

\* A step of a node's receive task in plain terms.
LEMMA Receives ==
  ASSUME TInv, NEW n \in Nodes, NodeReceive(n)
  PROVE  \E m \in Packets :
           /\ m \in Elements(inq[n])
           /\ inq' = inq \/ inq' = [inq EXCEPT ![n] = Tail(@)]
           /\ \/ m.seq \in recent[n] /\ UNCHANGED <<recent, heard>>
              \/ /\ m.seq \notin recent[n]
                 /\ heard' = [heard EXCEPT ![n] = Append(@, m.id)]
                 /\ \E ring \in Pushed(recent[n], m.seq, CmdRing) :
                      recent' = [recent EXCEPT ![n] = ring]
           /\ \/ acks' = acks \cup {[seq |-> m.seq, n |-> n]} /\ losses' = losses
              \/ acks' = acks /\ losses < MaxLoss /\ losses' = losses + 1
           /\ UNCHANGED <<manager, history>>
<1> DEFINE m == Head(inq[n])
<1>1. inq[n] \in Seq(Packets) /\ inq[n] # <<>>
  BY TypeParts DEF NodeReceive, TInv, Parts, TQueues
<1>2. m \in Packets /\ m = inq[n][1] /\ 1 \in DOMAIN inq[n]
  BY <1>1
<1>3. m \in Elements(inq[n])
  BY <1>2 DEF Elements
<1>4. /\ \/ /\ m.seq \in recent[n] /\ UNCHANGED <<recent, heard>>
            /\ inq' = [inq EXCEPT ![n] = Tail(@)]
         \/ /\ m.seq \notin recent[n]
            /\ inq' \in {inq, [inq EXCEPT ![n] = Tail(@)]}
            /\ heard' = [heard EXCEPT ![n] = Append(@, m.id)]
            /\ \E ring \in Pushed(recent[n], m.seq, CmdRing) :
                 recent' = [recent EXCEPT ![n] = ring]
      /\ Ack(n, m.seq)
      /\ UNCHANGED <<manager, history>>
  BY DEF NodeReceive, Seen
<1>5. \/ acks' = acks \cup {[seq |-> m.seq, n |-> n]} /\ losses' = losses
      \/ acks' = acks /\ losses < MaxLoss /\ losses' = losses + 1
  BY <1>4 DEF Ack
<1> HIDE DEF m
<1>6. inq' = inq \/ inq' = [inq EXCEPT ![n] = Tail(@)]
  BY <1>4
<1> QED BY <1>2, <1>3, <1>4, <1>5, <1>6

LEMMA NodeReceiveKeeps ==
  ASSUME TInv, NEW n \in Nodes, NodeReceive(n)
  PROVE  TInv'
<1>1. Parts /\ Named
  BY TypeParts DEF TInv
<1>2. PICK m \in Packets :
        /\ m \in Elements(inq[n])
        /\ inq' = inq \/ inq' = [inq EXCEPT ![n] = Tail(@)]
        /\ \/ m.seq \in recent[n] /\ UNCHANGED <<recent, heard>>
           \/ /\ m.seq \notin recent[n]
              /\ heard' = [heard EXCEPT ![n] = Append(@, m.id)]
              /\ \E ring \in Pushed(recent[n], m.seq, CmdRing) :
                   recent' = [recent EXCEPT ![n] = ring]
        /\ \/ acks' = acks \cup {[seq |-> m.seq, n |-> n]} /\ losses' = losses
           \/ acks' = acks /\ losses < MaxLoss /\ losses' = losses + 1
        /\ UNCHANGED <<manager, history>>
  BY Receives
<1>3. m.seq \in 0..255 /\ m.id \in 0..MaxCmds
  BY DEF Packets, Ids
<1>4. TQueues'
  <2>1. inq[n] \in Seq(Packets) /\ inq[n] # <<>>
    BY <1>1 DEF NodeReceive, Parts, TQueues
  <2>2. Tail(inq[n]) \in Seq(Packets)
    BY <2>1
  <2> QED BY <1>1, <1>2, <2>2 DEF Parts, TQueues
<1>5. THeard'
  <2>1. Append(heard[n], m.id) \in Seq(0..MaxCmds)
    BY <1>1, <1>3 DEF Parts, THeard
  <2> QED BY <1>1, <1>2, <2>1 DEF Parts, THeard
<1>6. TRecent'
  <2> DEFINE Byte == 0..255
  <2>1. recent \in [Nodes -> SUBSET Byte] /\ m.seq \in Byte
    BY <1>1, <1>3 DEF Parts, TRecent
  <2> HIDE DEF Byte
  <2>2. \A r \in Pushed(recent[n], m.seq, CmdRing) : r \in SUBSET Byte
    BY <2>1, PushedType
  <2>3. recent' \in [Nodes -> SUBSET Byte]
    BY <1>2, <2>1, <2>2
  <2> QED BY <2>3 DEF TRecent, Byte
<1>7. TAnswers'
  <2>1. [seq |-> m.seq, n |-> n] \in Answers
    BY <1>3 DEF Answers
  <2> QED BY <1>1, <1>2, <2>1 DEF Parts, TAnswers, manager
<1>8. TLosses'
  BY <1>1, <1>2 DEF Parts, TLosses
<1>9. Parts'
  BY <1>1, <1>2, <1>4, <1>5, <1>6, <1>7, <1>8
  DEF Parts, TCounts, TPending, TCalls, TMisses, THistory, manager, history
<1>10. Named'
  BY <1>1, <1>2 DEF Named, manager
<1> QED BY <1>9, <1>10, TypePartsNext DEF TInv

LEMMA CountedType ==
  ASSUME TInv, NEW a \in Answers
  PROVE  /\ Counted(a) \in [1..Slots -> Entries]
         /\ \A s \in 1..Slots : /\ Counted(a)[s].id = pending[s].id
                                /\ Counted(a)[s].used => pending[s].used
                                /\ Counted(a)[s].used => Counted(a)[s].seq = pending[s].seq
<1> SUFFICES ASSUME NEW s \in 1..Slots
             PROVE  /\ Counted(a)[s] \in Entries /\ Counted(a)[s].id = pending[s].id
                    /\ Counted(a)[s].used => pending[s].used
                    /\ Counted(a)[s].used => Counted(a)[s].seq = pending[s].seq
  BY DEF Counted
<1> DEFINE p == pending[s]
<1>1. p \in Entries
  BY TypeParts DEF TInv, Parts, TPending
<1>2. Freed(p) \in Entries /\ Freed(p).id = p.id /\ ~Freed(p).used
  BY <1>1, FreedType
<1>3. CASE ~p.used
  BY <1>1, <1>3 DEF Counted
<1>4. CASE p.used /\ p.seq = a.seq /\ p.acks + 1 >= p.expected
  BY <1>2, <1>4 DEF Counted
<1>5. CASE p.used /\ ~(p.seq = a.seq /\ p.acks + 1 >= p.expected)
  <2> DEFINE quiet == p.quiet \ {a.n}
             count == IF p.seq = a.seq THEN p.acks + 1 ELSE p.acks
             q == [p EXCEPT !.quiet = quiet, !.acks = count]
  <2>1. quiet \in SUBSET Nodes /\ count \in Nat
    BY <1>1 DEF Entries
  <2>2. Counted(a)[s] = q
    BY <1>1, <1>5 DEF Counted, Entries
  <2> HIDE DEF quiet, count, p
  <2>3. q \in Entries /\ q.id = p.id /\ q.seq = p.seq
    BY <1>1, <2>1 DEF Entries
  <2> HIDE DEF q
  <2> QED BY <2>2, <2>3, <1>5 DEF p
<1> QED BY <1>3, <1>4, <1>5

LEMMA AckReceiveKeeps ==
  ASSUME TInv, NEW a \in acks, AckReceive(a)
  PROVE  TInv'
<1>1. Parts /\ Named
  BY TypeParts DEF TInv
<1>2. a \in Answers /\ dedupe \in SUBSET Answers /\ acks \in SUBSET Answers
  BY <1>1 DEF Parts, TAnswers
<1>3. /\ acks' = acks \ {a}
      /\ \/ UNCHANGED <<dedupe, misses, pending>>
         \/ /\ dedupe' \in Pushed(dedupe, a, AckRing)
            /\ misses' = [misses EXCEPT ![a.n] = 0]
            /\ pending' = Counted(a)
      /\ UNCHANGED <<issued, seqCounter, call, retry, inq, recent, losses, heard, history>>
  BY DEF AckReceive
<1>4. TAnswers'
  <2>1. \A r \in Pushed(dedupe, a, AckRing) : r \in SUBSET Answers
    BY <1>2, PushedType
  <2> QED BY <1>2, <1>3, <2>1 DEF TAnswers
<1>5. TMisses'
  BY <1>1, <1>3 DEF Parts, TMisses
<1>6. /\ TPending'
      /\ \A s \in 1..Slots : /\ pending'[s].id = pending[s].id
                             /\ pending'[s].used => pending[s].used
  BY <1>1, <1>2, <1>3, CountedType DEF Parts, TPending
<1>7. Parts'
  BY <1>1, <1>3, <1>4, <1>5, <1>6
  DEF Parts, TCounts, TCalls, TQueues, TRecent, TLosses, THeard, THistory, history
<1>8. \A c \in Callers : call[c].slot \in 1..Slots
  BY <1>1 DEF Parts, TCalls, Calls
<1>9. Named'
  BY <1>1, <1>3, <1>6, <1>8 DEF Named
<1> QED BY <1>7, <1>9, TypePartsNext DEF TInv

LEMMA RestartsKeep ==
  ASSUME TInv, MgrRestart \/ \E n \in Nodes : NodeRestart(n)
  PROVE  TInv'
<1>1. Parts /\ Named
  BY TypeParts DEF TInv
<1>2. CASE MgrRestart
  <2>1. /\ issued \in 1 .. MaxCmds - 1
        /\ recent' = [n \in Nodes |-> {}] \/ UNCHANGED recent
        /\ seqCounter' = 0 /\ pending' = [s \in 1..Slots |-> Free]
        /\ call' = [c \in Callers |-> None] /\ retry' = None
        /\ misses' = [n \in Nodes |-> 0] /\ dedupe' = {}
        /\ gone' = 1..issued
        /\ UNCHANGED <<issued, acks, inq, losses, heard, after, sent, due>>
    BY <1>2 DEF MgrRestart
  <2>2. Free \in Entries /\ ~Free.used /\ None \in Calls /\ ~None.on
    BY DEF Free, Unfilled, Entries, None, Calls
  <2>3. TRecent'
    BY ZenonT(40), <1>1, <2>1 DEF Parts, TRecent
  <2>4. THistory'
    BY <1>1, <2>1 DEF Parts, THistory, Ids
  <2>5. TCounts' /\ TPending' /\ TCalls'
    BY <1>1, <2>1, <2>2 DEF Parts, TCounts, TPending, TCalls
  <2>6. TMisses' /\ TAnswers'
    BY <1>1, <2>1 DEF Parts, TMisses, TAnswers
  <2>7. Parts'
    BY <1>1, <2>1, <2>3, <2>4, <2>5, <2>6 DEF Parts, TQueues, TLosses, THeard
  <2>8. Named'
    BY <2>1, <2>2 DEF Named
  <2> QED BY <2>7, <2>8, TypePartsNext DEF TInv
<1>3. ASSUME NEW n \in Nodes, NodeRestart(n) PROVE TInv'
  <2>1. /\ losses < MaxLoss /\ losses' = losses + 1
        /\ inq' = [inq EXCEPT ![n] = <<>>] /\ recent' = [recent EXCEPT ![n] = {}]
        /\ heard' = [heard EXCEPT ![n] = Append(@, Mark)]
        /\ UNCHANGED <<manager, acks, history>>
    BY <1>3 DEF NodeRestart
  <2>2. Append(heard[n], Mark) \in Seq(0..MaxCmds)
    BY <1>1 DEF Parts, THeard, Mark
  <2>3. TQueues' /\ TRecent' /\ THeard' /\ TLosses'
    <3>1. <<>> \in Seq(Packets)
      OBVIOUS
    <3>2. TQueues'
      BY <1>1, <2>1, <3>1 DEF Parts, TQueues
    <3>3. TRecent'
      BY <1>1, <2>1 DEF Parts, TRecent
    <3>4. THeard'
      BY <1>1, <2>1, <2>2 DEF Parts, THeard
    <3>5. TLosses'
      BY <1>1, <2>1 DEF Parts, TLosses
    <3> QED BY <3>2, <3>3, <3>4, <3>5
  <2>4. Parts'
    BY <1>1, <2>1, <2>3
    DEF Parts, TCounts, TPending, TCalls, TMisses, TAnswers, THistory, manager, history
  <2>5. Named'
    BY <1>1, <2>1 DEF Named, manager
  <2> QED BY <2>4, <2>5, TypePartsNext DEF TInv
<1> QED BY <1>2, <1>3 

LEMMA StepType == TInv /\ [Next]_vars => TInv'
<1> SUFFICES ASSUME TInv, [Next]_vars PROVE TInv'
  OBVIOUS
<1>1. ASSUME NEW c \in Callers, Send(c) PROVE TInv'
  BY <1>1, SendKeeps
<1>2. ASSUME NEW c \in Callers, NEW live \in SUBSET Nodes,
             IssueFree(c, live) \/ IssueFlush(c, live)
      PROVE  TInv'
  BY <1>2, IssueKeeps
<1>3. CASE RetryTask
  BY <1>3, RetrySendKeeps, RetryTakeKeeps, GiveUpKeeps DEF RetryTask
<1>4. ASSUME NEW a \in acks, AckReceive(a) PROVE TInv'
  BY <1>4, AckReceiveKeeps
<1>5. ASSUME NEW n \in Nodes, NodeReceive(n) PROVE TInv'
  BY <1>5, NodeReceiveKeeps
<1>6. CASE MgrRestart \/ \E n \in Nodes : NodeRestart(n)
  BY <1>6, RestartsKeep
<1>7. CASE UNCHANGED vars
  <2>1. TypeOK'
    BY <1>7 DEF TInv, TypeOK, vars, manager, history
  <2>2. Named'
    BY <1>7 DEF TInv, Named, vars, manager
  <2> QED BY <2>1, <2>2 DEF TInv
<1> QED BY <1>1, <1>2, <1>3, <1>4, <1>5, <1>6, <1>7 DEF Next

\* The variables of the manager and of the nodes keep their types: retries do
\* not go below zero (RetryLeft), the misses of a node stop at the threshold
\* (cmdHealthMiss), and only commands that were issued are ever on the air.
THEOREM TypeCorrect == Spec => []TypeOK
<1>1. Spec => []TInv
  BY InitType, StepType, PTL DEF Spec
<1>2. TInv => TypeOK
  BY DEF TInv
<1> QED BY <1>1, <1>2, PTL

-----------------------------------------------------------------------------
(* No command is taken twice.                                              *)

\* The instances for which it is proved; the instance CommandOverrun shows what
\* happens without the first conjunct.
Calm ==
  /\ Faults \cap {"quick", "overrun", "slow"} = {}
  /\ MaxCmds <= CmdRing /\ MaxCmds <= 255

\* The number of a command of this life of the manager: the first is 1.
Numbers(seq, id) == seq \in 1..seqCounter /\ id + seqCounter = issued + seq

\* Wherever a number is written down it is that of its command.
Numbered ==
  /\ seqCounter <= issued
  /\ \A s \in 1..Slots : pending[s].used => Numbers(pending[s].seq, pending[s].id)
  /\ retry.on => Numbers(retry.seq, retry.id)
  /\ \A n \in Nodes : \A m \in Elements(inq[n]) : Numbers(m.seq, m.id)
  /\ \A a \in acks : a.seq \in 1..seqCounter
  /\ \A n \in Nodes : recent[n] \subseteq 1..seqCounter

\* The slot of a command that is about to be sent is still its own ...
SlotKept ==
  \A c \in Callers : call[c].on =>
    LET p == pending[call[c].slot] IN p.used /\ p.seq = call[c].seq

\* ... because nothing of that number has been on the air.
Unsent ==
  \A c \in Callers : call[c].on =>
    /\ retry.on => retry.seq # call[c].seq
    /\ \A n \in Nodes : \A m \in Elements(inq[n]) : m.seq # call[c].seq
    /\ \A a \in acks : a.seq # call[c].seq
    /\ \A d \in Callers \ {c} : call[d].on => call[d].seq # call[c].seq

\* What a node has taken since it started is of an earlier life of the manager
\* or its number is among those the node knows.
Remembered ==
  \A n \in Nodes : \A k \in DOMAIN heard[n] :
    /\ heard[n][k] <= issued
    /\ (\A r \in k..Len(heard[n]) : heard[n][r] # Mark) =>
         \/ heard[n][k] + seqCounter <= issued
         \/ \E q \in recent[n] : heard[n][k] + seqCounter = issued + q

TakenInv == Numbered /\ SlotKept /\ Unsent /\ Remembered /\ TakenOnce

LEMMA ElementsAfter ==
  ASSUME NEW T, NEW s \in Seq(T), NEW x \in T
  PROVE  /\ \A y \in Elements(Append(s, x)) : y \in Elements(s) \/ y = x
         /\ s # <<>> => Elements(Tail(s)) \subseteq Elements(s)
<1>1. \A k \in DOMAIN Append(s, x) : Append(s, x)[k] = x
                                     \/ (k \in DOMAIN s /\ Append(s, x)[k] = s[k])
  OBVIOUS
<1>2. s # <<>> => \A k \in DOMAIN Tail(s) : k + 1 \in DOMAIN s /\ Tail(s)[k] = s[k + 1]
  OBVIOUS
<1> QED BY <1>1, <1>2 DEF Elements

\* What waits at a node after a broadcast waited there before or was broadcast.
LEMMA BroadcastAir ==
  ASSUME TInv, NEW m \in Packets, Broadcast(m)
  PROVE  \A n \in Nodes : \A x \in Elements(inq'[n]) : x \in Elements(inq[n]) \/ x = m
<1>1. PICK missed \in SUBSET Nodes :
        inq' = [n \in Nodes |-> IF n \in missed THEN inq[n] ELSE Append(inq[n], m)]
  BY DEF Broadcast
<1> SUFFICES ASSUME NEW n \in Nodes, NEW x \in Elements(inq'[n])
             PROVE  x \in Elements(inq[n]) \/ x = m
  OBVIOUS
<1>2. inq[n] \in Seq(Packets)
  BY TypeParts DEF TInv, Parts, TQueues
<1>3. inq'[n] = inq[n] \/ inq'[n] = Append(inq[n], m)
  BY <1>1
<1>4. \A y \in Elements(Append(inq[n], m)) : y \in Elements(inq[n]) \/ y = m
  BY <1>2, ElementsAfter
<1> QED BY <1>3, <1>4

LEMMA Counts ==
  ASSUME TInv
  PROVE  /\ issued \in 0..MaxCmds /\ seqCounter \in 0..255
         /\ \A s \in 1..Slots : pending[s].seq \in 0..255 /\ pending[s].id \in 0..MaxCmds
         /\ \A c \in Callers : /\ call[c].slot \in 1..Slots /\ call[c].seq \in 0..255
                               /\ call[c].id \in 0..MaxCmds
         /\ \A n \in Nodes : /\ heard[n] \in Seq(0..MaxCmds) /\ recent[n] \subseteq 0..255
                             /\ inq[n] \in Seq(Packets)
<1>1. Parts
  BY TypeParts DEF TInv
<1>2. issued \in 0..MaxCmds /\ seqCounter \in 0..255
  BY <1>1 DEF Parts, TCounts
<1>3. ASSUME NEW s \in 1..Slots PROVE pending[s].seq \in 0..255 /\ pending[s].id \in 0..MaxCmds
  <2>1. pending[s] \in Entries
    BY <1>1 DEF Parts, TPending
  <2> QED BY <2>1 DEF Entries
<1>4. ASSUME NEW c \in Callers
      PROVE  call[c].slot \in 1..Slots /\ call[c].seq \in 0..255 /\ call[c].id \in 0..MaxCmds
  <2>1. call[c] \in Calls
    BY <1>1 DEF Parts, TCalls
  <2> QED BY <2>1 DEF Calls
<1>5. ASSUME NEW n \in Nodes
      PROVE  /\ heard[n] \in Seq(0..MaxCmds) /\ recent[n] \subseteq 0..255
             /\ inq[n] \in Seq(Packets)
  BY <1>1 DEF Parts, THeard, TRecent, TQueues
<1> QED BY <1>2, <1>3, <1>4, <1>5

\* Nothing but heard, recent and the counts matters to what nodes have taken.
LEMMA TakenAsBefore ==
  ASSUME Remembered, TakenOnce, UNCHANGED <<heard, recent, issued, seqCounter>>
  PROVE  Remembered' /\ TakenOnce'
BY DEF Remembered, TakenOnce

LEMMA InitTaken == Init => TakenInv
<1> SUFFICES ASSUME Init PROVE TakenInv
  OBVIOUS
<1>1. \A n \in Nodes : Elements(inq[n]) = {} /\ DOMAIN heard[n] = {}
  BY DEF Init, Elements
<1>2. Numbered
  BY <1>1 DEF Init, Numbered, Free, Unfilled, None
<1>3. SlotKept /\ Unsent
  BY DEF Init, SlotKept, Unsent, None
<1>4. Remembered /\ TakenOnce
  BY <1>1 DEF Remembered, TakenOnce
<1> QED BY <1>2, <1>3, <1>4 DEF TakenInv

LEMMA IssueTaken ==
  ASSUME TInv, TakenInv, Calm, NEW c \in Callers, NEW live \in SUBSET Nodes,
         IssueFree(c, live) \/ IssueFlush(c, live)
  PROVE  TakenInv'
<1> USE DEF TakenInv
<1>1. PICK slot \in 1..Slots :
        /\ Issue(c, slot, live)
        /\ \/ /\ ~pending[slot].used
              /\ pending' = [pending EXCEPT ![slot] = Entry(live)]
           \/ /\ slot = 1 /\ \A d \in Callers : ~call[d].on
              /\ pending' = [s \in 1..Slots |-> IF s = 1 THEN Entry(live)
                                                ELSE Freed(pending[s])]
  <2>1. 1 \in 1..Slots
    OBVIOUS
  <2> QED BY <2>1 DEF IssueFree, IssueFlush, Unused, Calm
<1>2. issued \in 0..MaxCmds /\ seqCounter \in 0..255 /\ issued < MaxCmds /\ seqCounter <= issued
  BY <1>1, Counts DEF Issue, Numbered
<1>3. issued' = issued + 1 /\ seqCounter' = seqCounter + 1
  BY <1>1, <1>2 DEF Issue, Calm
<1>4. /\ ~call[c].on
      /\ call' = [call EXCEPT ![c] = [on |-> TRUE, slot |-> slot, seq |-> seqCounter',
                                      id |-> issued']]
      /\ UNCHANGED <<retry, acks, inq, recent, heard>>
  BY <1>1 DEF Issue
<1>5. /\ pending'[slot].used /\ pending'[slot].seq = seqCounter'
      /\ pending'[slot].id = issued'
      /\ \A s \in 1..Slots \ {slot} :
           pending'[s].used => pending[s].used /\ pending'[s] = pending[s]
  <2>1. pending \in [1..Slots -> Entries]
    BY TypeParts DEF TInv, Parts, TPending
  <2>2. /\ Entry(live).used /\ Entry(live).seq = seqCounter' /\ Entry(live).id = issued'
    BY DEF Entry
  <2>3. \A s \in 1..Slots : ~Freed(pending[s]).used
    BY DEF Freed, Unfilled
  <2>4. CASE pending' = [pending EXCEPT ![slot] = Entry(live)]
    BY <2>1, <2>2, <2>4
  <2>5. CASE slot = 1 /\ pending' = [s \in 1..Slots |-> IF s = 1 THEN Entry(live)
                                                ELSE Freed(pending[s])]
    BY <2>1, <2>2, <2>3, <2>5
  <2> QED BY <1>1, <2>4, <2>5
<1>6. \A seq : \A id \in 0..MaxCmds :
        Numbers(seq, id) => seq \in 1..seqCounter' /\ id + seqCounter' = issued' + seq
  BY <1>2, <1>3 DEF Numbers
<1>7. \A q \in 1..seqCounter : q \in 1..seqCounter'
  BY <1>2, <1>3
<1>8. Numbered'
  <2>1. \A s \in 1..Slots : pending'[s].used => Numbers(pending[s].seq, pending[s].id)'
    <3> SUFFICES ASSUME NEW s \in 1..Slots, pending'[s].used
                 PROVE  Numbers(pending[s].seq, pending[s].id)'
      OBVIOUS
    <3>1. CASE s = slot
      BY <3>1, <1>2, <1>3, <1>5 DEF Numbers
    <3>2. CASE s # slot
      <4>1. pending[s].used /\ pending'[s] = pending[s]
        BY <3>2, <1>5
      <4>2. Numbers(pending[s].seq, pending[s].id) /\ pending[s].id \in 0..MaxCmds
        BY <4>1, Counts DEF Numbered
      <4> QED BY <4>1, <4>2, <1>2, <1>3 DEF Numbers
    <3> QED BY <3>1, <3>2
  <2>2. retry'.on => Numbers(retry.seq, retry.id)'
    <3>1. retry.id \in 0..MaxCmds
      BY TypeParts DEF TInv, Parts, TCalls, Calls
    <3> QED BY <3>1, <1>4, <1>6 DEF Numbered, Numbers
  <2>3. \A n \in Nodes : \A m \in Elements(inq'[n]) : Numbers(m.seq, m.id)'
    <3> SUFFICES ASSUME NEW n \in Nodes, NEW m \in Elements(inq[n])
                 PROVE  m.seq \in 1..seqCounter' /\ m.id + seqCounter' = issued' + m.seq
      BY <1>4 DEF Numbers
    <3>1. m \in Packets
      BY Counts DEF Elements
    <3>2. m.id \in 0..MaxCmds
      BY <3>1 DEF Packets, Ids
    <3> QED BY <3>2, <1>6 DEF Numbered
  <2>4. \A a \in acks' : a.seq \in 1..seqCounter'
    BY <1>2, <1>3, <1>4 DEF Numbered
  <2>5. \A n \in Nodes : recent'[n] \subseteq 1..seqCounter'
    BY <1>2, <1>3, <1>4 DEF Numbered
  <2> QED BY <2>1, <2>2, <2>3, <2>4, <2>5, <1>2, <1>3 DEF Numbered
<1>9. SlotKept'
  <2> SUFFICES ASSUME NEW d \in Callers, call'[d].on
               PROVE  /\ pending'[call'[d].slot].used
                      /\ pending'[call'[d].slot].seq = call'[d].seq
    BY DEF SlotKept
  <2>1. CASE d = c
    <3>1. call'[c].slot = slot /\ call'[c].seq = seqCounter'
      BY <1>4, TypeParts DEF TInv, Parts, TCalls
    <3> QED BY <2>1, <3>1, <1>5
  <2>2. CASE d # c
    <3>1. call'[d] = call[d] /\ call[d].on
      BY <2>2, <1>4
    <3>2. pending[call[d].slot].used /\ pending[call[d].slot].seq = call[d].seq
      BY <3>1 DEF SlotKept
    <3>3. ~pending[slot].used /\ pending' = [pending EXCEPT ![slot] = Entry(live)]
      BY <1>1, <3>1
    <3>4. call[d].slot # slot
      BY <3>2, <3>3
    <3> QED BY <3>1, <3>2, <3>3, <3>4
  <2> QED BY <2>1, <2>2
<1>10. Unsent'
  <2> SUFFICES ASSUME NEW d \in Callers, call'[d].on
               PROVE  /\ retry'.on => retry'.seq # call'[d].seq
                      /\ \A n \in Nodes : \A m \in Elements(inq'[n]) : m.seq # call'[d].seq
                      /\ \A a \in acks' : a.seq # call'[d].seq
                      /\ \A e \in Callers \ {d} : call'[e].on => call'[e].seq # call'[d].seq
    BY DEF Unsent
  <2>1. call'[c].seq = seqCounter' /\ \A e \in Callers \ {c} : call'[e] = call[e]
    BY <1>4, TypeParts DEF TInv, Parts, TCalls
  <2>2. \A e \in Callers : call[e].on => call[e].seq \in 1..seqCounter
    BY Counts DEF SlotKept, Numbered, Numbers
  <2>3. CASE d = c
    <3>1. \A q \in 0..seqCounter : q # call'[d].seq
      BY <1>2, <1>3, <2>1, <2>3
    <3>2. /\ retry.on => retry.seq \in 0..seqCounter
          /\ \A n \in Nodes : \A m \in Elements(inq[n]) : m.seq \in 0..seqCounter
          /\ \A a \in acks : a.seq \in 0..seqCounter
      BY <1>2 DEF Numbered, Numbers
    <3>3. \A e \in Callers \ {d} : call'[e].on => call'[e].seq # call'[d].seq
      <4>1. \A e \in Callers \ {d} : call'[e].on => call[e].seq \in 0..seqCounter
        BY <2>1, <2>2, <2>3, <1>2
      <4> QED BY <4>1, <3>1, <2>1, <2>3
    <3> QED BY <3>1, <3>2, <3>3, <1>4
  <2>4. CASE d # c
    <3>1. call'[d] = call[d] /\ call[d].on
      BY <2>1, <2>4
    <3>2. call'[c].seq # call[d].seq
      BY <1>2, <1>3, <2>1, <2>2, <3>1
    <3> QED BY <3>1, <3>2, <2>1, <1>4 DEF Unsent
  <2> QED BY <2>3, <2>4
<1>11. Remembered'
  <2> SUFFICES ASSUME NEW n \in Nodes, NEW k \in DOMAIN heard[n]
               PROVE  /\ heard[n][k] <= issued'
                      /\ (\A r \in k..Len(heard[n]) : heard[n][r] # Mark) =>
                           \/ heard[n][k] + seqCounter' <= issued'
                           \/ \E q \in recent[n] : heard[n][k] + seqCounter' = issued' + q
    BY <1>4 DEF Remembered, Mark
  <2> DEFINE h == heard[n][k]
  <2>1. heard[n] \in Seq(0..MaxCmds) /\ recent[n] \subseteq 0..255
    BY Counts
  <2>2. h \in 0..MaxCmds
    BY <2>1
  <2>3. /\ h <= issued
        /\ (\A r \in k..Len(heard[n]) : heard[n][r] # Mark) =>
             \/ h + seqCounter <= issued
             \/ \E q \in recent[n] : h + seqCounter = issued + q
    BY DEF Remembered
  <2> HIDE DEF h
  <2>4. h <= issued' /\ (h + seqCounter <= issued => h + seqCounter' <= issued')
    <3>1. h \in Nat /\ issued \in Nat /\ seqCounter \in Nat
      BY <2>2, <1>2
    <3>2. /\ h <= issued + 1
          /\ h + seqCounter <= issued => h + (seqCounter + 1) <= issued + 1
      BY <2>3, <3>1
    <3> QED BY <3>2, <1>3
  <2>5. \A q \in recent[n] : h + seqCounter = issued + q => h + seqCounter' = issued' + q
    <3> SUFFICES ASSUME NEW q \in recent[n], h + seqCounter = issued + q
                 PROVE  h + (seqCounter + 1) = (issued + 1) + q
      BY <1>3
    <3>1. h \in Nat /\ issued \in Nat /\ seqCounter \in Nat
      BY <2>2, <1>2
    <3>2. q \in 0..255
      BY <2>1
    <3> QED BY <3>1, <3>2
  <2>6. (\A r \in k..Len(heard[n]) : heard[n][r] # Mark) =>
          h + seqCounter' <= issued' \/ \E q \in recent[n] : h + seqCounter' = issued' + q
    BY <2>3, <2>4, <2>5
  <2> QED BY <2>4, <2>6 DEF h
<1>12. TakenOnce'
  BY <1>4 DEF TakenOnce, Mark
<1> QED BY <1>8, <1>9, <1>10, <1>11, <1>12

LEMMA SendTaken ==
  ASSUME TInv, TakenInv, NEW c \in Callers, Send(c)
  PROVE  TakenInv'
<1> USE DEF TakenInv
<1> DEFINE m == Packet(call[c].seq, pending[call[c].slot].id)
<1>1. /\ call[c].on /\ Broadcast(m)
      /\ call' = [call EXCEPT ![c] = None]
      /\ UNCHANGED <<issued, seqCounter, pending, retry, acks, recent, heard>>
  BY DEF Send
<1>2. /\ pending[call[c].slot].used /\ pending[call[c].slot].seq = call[c].seq
      /\ call[c].slot \in 1..Slots
  BY <1>1, Counts DEF SlotKept
<1>3. m.seq = call[c].seq /\ Numbers(m.seq, m.id)
  BY <1>2 DEF Numbered, Packet
<1>4. m \in Packets
  BY <1>1, Counts DEF Packet, Packets, TInv, Named
<1> HIDE DEF m
<1>5. \A n \in Nodes : \A x \in Elements(inq'[n]) : x \in Elements(inq[n]) \/ x = m
  BY <1>1, <1>4, BroadcastAir
<1>6. \A d \in Callers : call'[d].on => d # c /\ call'[d] = call[d]
  BY <1>1, TypeParts DEF TInv, Parts, TCalls, None
<1>7. Numbered'
  BY <1>1, <1>3, <1>5 DEF Numbered, Numbers
<1>8. SlotKept'
  BY <1>1, <1>6 DEF SlotKept
<1>9. Unsent'
  <2> SUFFICES ASSUME NEW d \in Callers, call'[d].on
               PROVE  /\ retry.on => retry.seq # call[d].seq
                      /\ \A n \in Nodes : \A x \in Elements(inq'[n]) : x.seq # call[d].seq
                      /\ \A a \in acks : a.seq # call[d].seq
                      /\ \A e \in Callers \ {d} : call'[e].on => call[e].seq # call[d].seq
    BY <1>1, <1>6 DEF Unsent
  <2>1. d # c /\ call[d].on
    BY <1>6
  <2>2. m.seq # call[d].seq
    BY <1>1, <1>3, <2>1 DEF Unsent
  <2> QED BY <1>5, <1>6, <2>1, <2>2 DEF Unsent
<1> QED BY <1>1, <1>7, <1>8, <1>9, TakenAsBefore

LEMMA RetryTakeTaken ==
  ASSUME TInv, TakenInv, Calm, NEW s \in 1..Slots, RetryTake(s)
  PROVE  TakenInv'
<1> USE DEF TakenInv
<1>1. /\ pending[s].used /\ Waited(s)
      /\ pending' = [pending EXCEPT ![s].left = @ - 1]
      /\ retry' = [on |-> TRUE, slot |-> s, seq |-> pending[s].seq, id |-> pending[s].id]
      /\ UNCHANGED <<issued, seqCounter, call, acks, inq, recent, heard>>
  BY DEF RetryTake, history
<1>2. \A t \in 1..Slots : /\ pending'[t].id = pending[t].id /\ pending'[t].seq = pending[t].seq
                          /\ pending'[t].used = pending[t].used
  <2>1. pending \in [1..Slots -> Entries]
    BY TypeParts DEF TInv, Parts, TPending
  <2>2. pending' = [pending EXCEPT ![s] = [pending[s] EXCEPT !.left = @ - 1]]
    BY <1>1
  <2>3. pending[s] \in Entries
    BY <2>1
  <2> QED BY <2>1, <2>2, <2>3 DEF Entries
<1>3. \A c \in Callers : call[c].on => call[c].seq # pending[s].seq
  BY <1>1 DEF Waited, Calm
<1>4. Numbered'
  BY <1>1, <1>2 DEF Numbered, Numbers
<1>5. SlotKept'
  <2>1. \A c \in Callers : call[c].slot \in 1..Slots
    BY Counts
  <2> QED BY <1>1, <1>2, <2>1 DEF SlotKept
<1>6. Unsent'
  BY <1>1, <1>3 DEF Unsent
<1> QED BY <1>1, <1>4, <1>5, <1>6, TakenAsBefore

LEMMA RetrySendTaken ==
  ASSUME TInv, TakenInv, RetrySend
  PROVE  TakenInv'
<1> USE DEF TakenInv
<1> DEFINE m == Packet(retry.seq, retry.id)
<1>1. /\ retry.on /\ Broadcast(m) /\ retry' = None
      /\ UNCHANGED <<issued, seqCounter, pending, call, acks, recent, heard>>
  BY DEF RetrySend, history
<1>2. m.seq = retry.seq /\ Numbers(m.seq, m.id)
  BY <1>1 DEF Numbered, Packet
<1>3. m \in Packets
  BY <1>1, TypeParts DEF Packet, Packets, TInv, Named, Parts, TCalls, Calls
<1> HIDE DEF m
<1>4. \A n \in Nodes : \A x \in Elements(inq'[n]) : x \in Elements(inq[n]) \/ x = m
  BY <1>1, <1>3, BroadcastAir
<1>5. Numbered'
  BY <1>1, <1>2, <1>4 DEF Numbered, Numbers, None
<1>6. SlotKept'
  BY <1>1 DEF SlotKept
<1>7. Unsent'
  BY <1>1, <1>2, <1>4 DEF Unsent, None
<1> QED BY <1>1, <1>5, <1>6, <1>7, TakenAsBefore

LEMMA GiveUpTaken ==
  ASSUME TInv, TakenInv, Calm, NEW s \in 1..Slots, NEW live \in SUBSET Nodes, GiveUp(s, live)
  PROVE  TakenInv'
<1> USE DEF TakenInv
<1>1. /\ Waited(s) /\ pending' = [pending EXCEPT ![s] = Freed(pending[s])]
      /\ UNCHANGED <<issued, seqCounter, call, retry, acks, inq, recent, heard>>
  BY DEF GiveUp, history
<1>2. ~pending'[s].used /\ \A t \in 1..Slots \ {s} : pending'[t] = pending[t]
  BY <1>1, TypeParts DEF TInv, Parts, TPending, Freed, Unfilled
<1>3. \A c \in Callers : call[c].on => call[c].seq # pending[s].seq
  BY <1>1 DEF Waited, Calm
<1>4. Numbered'
  <2>1. \A t \in 1..Slots : pending'[t].used => pending[t].used /\ pending'[t] = pending[t]
    BY <1>2
  <2> QED BY <1>1, <2>1 DEF Numbered, Numbers
<1>5. SlotKept'
  <2>1. \A c \in Callers : call[c].on => call[c].slot \in (1..Slots) \ {s}
    BY <1>3, Counts DEF SlotKept
  <2> QED BY <1>1, <1>2, <2>1 DEF SlotKept
<1>6. Unsent'
  BY <1>1 DEF Unsent
<1> QED BY <1>1, <1>4, <1>5, <1>6, TakenAsBefore

LEMMA AckReceiveTaken ==
  ASSUME TInv, TakenInv, NEW a \in acks, AckReceive(a)
  PROVE  TakenInv'
<1> USE DEF TakenInv
<1>1. /\ acks' = acks \ {a}
      /\ pending' = pending \/ pending' = Counted(a)
      /\ UNCHANGED <<issued, seqCounter, call, retry, inq, recent, heard>>
  BY DEF AckReceive, history
<1>2. a \in Answers
  BY TypeParts DEF TInv, Parts, TAnswers
<1>3. \A s \in 1..Slots : /\ pending'[s].used => pending[s].used
                          /\ pending'[s].id = pending[s].id
                          /\ pending'[s].used => pending'[s].seq = pending[s].seq
  BY <1>1, <1>2, CountedType
<1>4. Numbered'
  BY <1>1, <1>3 DEF Numbered, Numbers
<1>5. SlotKept'
  <2> SUFFICES ASSUME NEW c \in Callers, call[c].on
               PROVE  /\ pending'[call[c].slot].used
                      /\ pending'[call[c].slot].seq = call[c].seq
    BY <1>1 DEF SlotKept
  <2> DEFINE s == call[c].slot
  <2>1. s \in 1..Slots /\ pending[s].used /\ pending[s].seq = call[c].seq /\ a.seq # call[c].seq
    BY Counts DEF SlotKept, Unsent
  <2>2. Counted(a)[s].used /\ Counted(a)[s].seq = pending[s].seq
    <3>1. pending[s] \in Entries
      BY <2>1, TypeParts DEF TInv, Parts, TPending
    <3>2. Counted(a)[s] = [pending[s] EXCEPT !.quiet = @ \ {a.n}, !.acks = @]
      BY <2>1 DEF Counted
    <3> QED BY <2>1, <3>1, <3>2 DEF Entries
  <2> QED BY <1>1, <2>1, <2>2
<1>6. Unsent'
  BY <1>1 DEF Unsent
<1> QED BY <1>1, <1>4, <1>5, <1>6, TakenAsBefore

LEMMA MgrRestartTaken ==
  ASSUME TInv, TakenInv, Calm, MgrRestart
  PROVE  TakenInv'
<1> USE DEF TakenInv
<1>1. /\ acks = {} /\ \A n \in Nodes : inq[n] = <<>>
      /\ recent' = [n \in Nodes |-> {}]
      /\ seqCounter' = 0 /\ pending' = [s \in 1..Slots |-> Free]
      /\ call' = [c \in Callers |-> None] /\ retry' = None
      /\ UNCHANGED <<issued, acks, inq, heard>>
  BY DEF MgrRestart, Calm
<1>2. \A n \in Nodes : Elements(inq'[n]) = {}
  BY <1>1 DEF Elements
<1>3. issued \in Nat
  BY Counts
<1>4. Numbered'
  <2>1. /\ \A s \in 1..Slots : ~pending'[s].used
        /\ ~retry'.on
    BY <1>1 DEF Free, Unfilled, None
  <2>2. acks' = {} /\ \A n \in Nodes : recent'[n] = {}
    BY <1>1
  <2>3. seqCounter' <= issued'
    BY <1>1, <1>3
  <2> QED BY <1>2, <2>1, <2>2, <2>3 DEF Numbered
<1>5. SlotKept' /\ Unsent'
  BY <1>1 DEF SlotKept, Unsent, None
<1>6. Remembered'
  <2> SUFFICES ASSUME NEW n \in Nodes, NEW k \in DOMAIN heard[n]
               PROVE  heard[n][k] <= issued /\ heard[n][k] + 0 <= issued
    BY <1>1 DEF Remembered
  <2>1. heard[n][k] \in 0..MaxCmds
    BY Counts
  <2>2. heard[n][k] <= issued
    BY DEF Remembered
  <2> QED BY <1>3, <2>1, <2>2
<1>7. TakenOnce'
  BY <1>1 DEF TakenOnce, Mark
<1> QED BY <1>4, <1>5, <1>6, <1>7

LEMMA NodeRestartTaken ==
  ASSUME TInv, TakenInv, NEW n \in Nodes, NodeRestart(n)
  PROVE  TakenInv'
<1> USE DEF TakenInv
<1>1. /\ inq' = [inq EXCEPT ![n] = <<>>] /\ recent' = [recent EXCEPT ![n] = {}]
      /\ heard' = [heard EXCEPT ![n] = Append(@, Mark)]
      /\ UNCHANGED <<issued, seqCounter, pending, call, retry, acks>>
  BY DEF NodeRestart, manager
<1>2. \A d \in Nodes : d # n =>
        inq'[d] = inq[d] /\ recent'[d] = recent[d] /\ heard'[d] = heard[d]
  BY <1>1, TypeParts DEF TInv, Parts, TQueues, TRecent, THeard
<1>3. inq'[n] = <<>> /\ recent'[n] = {} /\ heard'[n] = Append(heard[n], Mark)
  BY <1>1, TypeParts DEF TInv, Parts, TQueues, TRecent, THeard
<1>4. \A d \in Nodes : Elements(inq'[d]) \subseteq Elements(inq[d])
                       /\ recent'[d] \subseteq recent[d]
  BY <1>2, <1>3 DEF Elements
<1>5. Numbered' /\ SlotKept' /\ Unsent'
  BY <1>1, <1>4 DEF Numbered, Numbers, SlotKept, Unsent
<1>6. /\ heard[n] \in Seq(0..MaxCmds) /\ Mark \in 0..MaxCmds
      /\ DOMAIN heard'[n] = 1..Len(heard[n]) + 1 /\ Len(heard'[n]) = Len(heard[n]) + 1
      /\ heard'[n][Len(heard[n]) + 1] = Mark
      /\ \A k \in DOMAIN heard[n] : heard'[n][k] = heard[n][k]
      /\ DOMAIN heard[n] = 1..Len(heard[n]) /\ Len(heard[n]) \in Nat
  <2>1. heard[n] \in Seq(0..MaxCmds) /\ Mark \in 0..MaxCmds
    BY Counts DEF Mark
  <2> QED BY <1>3, <2>1
<1>7. Remembered'
  <2> SUFFICES ASSUME NEW d \in Nodes, NEW k \in DOMAIN heard'[d]
               PROVE  /\ heard'[d][k] <= issued
                      /\ (\A r \in k..Len(heard'[d]) : heard'[d][r] # Mark) =>
                           \/ heard'[d][k] + seqCounter <= issued
                           \/ \E q \in recent'[d] : heard'[d][k] + seqCounter = issued + q
    BY <1>1 DEF Remembered, Mark
  <2>1. CASE d # n
    BY <2>1, <1>2 DEF Remembered
  <2>2. CASE d = n
    <3>1. heard'[n][k] <= issued
      <4>1. k = Len(heard[n]) + 1 \/ k \in DOMAIN heard[n]
        BY <1>6, <2>2
      <4>2. Mark <= issued
        BY Counts DEF Mark
      <4> QED BY <4>1, <4>2, <1>6 DEF Remembered
    <3>2. Len(heard'[n]) \in k..Len(heard'[n]) /\ heard'[n][Len(heard'[n])] = Mark
      BY <1>6, <2>2
    <3> QED BY <2>2, <3>1, <3>2
  <2> QED BY <2>1, <2>2
<1>8. TakenOnce'
  <2> SUFFICES ASSUME NEW d \in Nodes, NEW j \in DOMAIN heard'[d], NEW k \in DOMAIN heard'[d],
                      j < k, heard'[d][j] = heard'[d][k]
               PROVE  \E r \in j..k : heard'[d][r] = Mark
    BY DEF TakenOnce, Mark
  <2>1. CASE d # n
    BY <2>1, <1>2 DEF TakenOnce
  <2>2. CASE d = n
    <3> DEFINE h == heard[n]
    <3>1. /\ j \in 1..Len(h) + 1 /\ k \in 1..Len(h) + 1
          /\ heard'[n][j] = heard'[n][k]
      BY <1>6, <2>2
    <3>2. CASE k = Len(h) + 1
      <4>1. k \in j..k /\ heard'[n][k] = Mark
        BY <1>6, <3>1, <3>2
      <4> QED BY <2>2, <4>1
    <3>3. CASE k # Len(h) + 1
      <4>1. j \in 1..Len(h) /\ k \in 1..Len(h)
        BY SMTT(30), <1>6, <3>1, <3>3
      <4>2. PICK r \in j..k : h[r] = Mark
        <5>1. j \in DOMAIN h /\ k \in DOMAIN h /\ h[j] = h[k]
          BY <1>6, <3>1, <4>1
        <5> QED BY <5>1 DEF TakenOnce
      <4>3. r \in 1..Len(h)
        BY <4>1, <4>2
      <4> QED BY <1>6, <2>2, <4>2, <4>3
    <3> QED BY <3>2, <3>3
  <2> QED BY <2>1, <2>2
<1> QED BY <1>5, <1>7, <1>8

\* A node's memory is longer than the numbers of a life: a new one drops none.
LEMMA RingHolds ==
  ASSUME TInv, Numbered, Calm, NEW n \in Nodes, NEW seq \in 1..seqCounter, seq \notin recent[n]
  PROVE  Pushed(recent[n], seq, CmdRing) = {recent[n] \cup {seq}}
<1>1. issued \in 0..MaxCmds /\ seqCounter \in Nat /\ seqCounter <= issued
  <2>1. issued \in 0..MaxCmds /\ seqCounter \in 0..255
    BY Counts
  <2>2. seqCounter <= issued
    BY DEF Numbered
  <2> QED BY <2>1, <2>2
<1>2. IsFiniteSet(1..seqCounter) /\ Cardinality(1..seqCounter) = seqCounter
  BY <1>1, FS_Interval
<1>3. /\ IsFiniteSet((1..seqCounter) \ {seq})
      /\ Cardinality((1..seqCounter) \ {seq}) = seqCounter - 1
  <2> DEFINE S == 1..seqCounter
  <2>1. seq \in S /\ IsFiniteSet(S) /\ Cardinality(S) = seqCounter
    BY <1>2
  <2> HIDE DEF S
  <2>2. IsFiniteSet(S \ {seq}) /\ Cardinality(S \ {seq}) = seqCounter - 1
    BY <2>1, FS_RemoveElement
  <2> QED BY <2>2 DEF S
<1>4. recent[n] \subseteq (1..seqCounter) \ {seq}
  BY DEF Numbered
<1>5. IsFiniteSet(recent[n]) /\ Cardinality(recent[n]) <= seqCounter - 1
  BY <1>3, <1>4, FS_Subset
<1>6. Cardinality(recent[n]) \in Nat
  BY <1>5, FS_CardinalityType
<1>7. Cardinality(recent[n]) < CmdRing
  BY <1>1, <1>5, <1>6 DEF Calm
<1> QED BY <1>7 DEF Pushed

LEMMA NodeReceiveTaken ==
  ASSUME TInv, TakenInv, Calm, NEW n \in Nodes, NodeReceive(n)
  PROVE  TakenInv'
<1> USE DEF TakenInv
<1>1. PICK m \in Packets :
        /\ m \in Elements(inq[n])
        /\ inq' = inq \/ inq' = [inq EXCEPT ![n] = Tail(@)]
        /\ \/ m.seq \in recent[n] /\ UNCHANGED <<recent, heard>>
           \/ /\ m.seq \notin recent[n]
              /\ heard' = [heard EXCEPT ![n] = Append(@, m.id)]
              /\ \E ring \in Pushed(recent[n], m.seq, CmdRing) :
                   recent' = [recent EXCEPT ![n] = ring]
        /\ \/ acks' = acks \cup {[seq |-> m.seq, n |-> n]} /\ losses' = losses
           \/ acks' = acks /\ losses < MaxLoss /\ losses' = losses + 1
        /\ UNCHANGED <<manager, history>>
  BY Receives
<1>2. /\ m.seq \in 1..seqCounter /\ m.id + seqCounter = issued + m.seq
      /\ m.id \in 0..MaxCmds
  BY <1>1 DEF Numbered, Numbers, Packets, Ids
<1>3. UNCHANGED <<issued, seqCounter, pending, call, retry>>
  BY <1>1 DEF manager
<1>4. \A d \in Nodes : Elements(inq'[d]) \subseteq Elements(inq[d])
  <2>1. inq \in [Nodes -> Seq(Packets)] /\ inq[n] # <<>>
    BY TypeParts DEF TInv, Parts, TQueues, NodeReceive
  <2>2. Elements(Tail(inq[n])) \subseteq Elements(inq[n])
    BY <1>1, <2>1, ElementsAfter
  <2> QED BY <1>1, <2>1, <2>2
<1>5. \A a \in acks' : a \in acks \/ a.seq = m.seq
  BY <1>1
<1>6. recent' = recent \/ recent' = [recent EXCEPT ![n] = @ \cup {m.seq}]
  <2>1. CASE m.seq \in recent[n]
    BY <1>1, <2>1
  <2>2. CASE m.seq \notin recent[n]
    BY <1>1, <1>2, <2>2, RingHolds
  <2> QED BY <2>1, <2>2
<1>7. Numbered'
  <2>1. \A d \in Nodes : recent'[d] \subseteq 1..seqCounter
    BY <1>2, <1>6, TypeParts DEF Numbered, TInv, Parts, TRecent
  <2> QED BY <1>2, <1>3, <1>4, <1>5, <2>1 DEF Numbered, Numbers
<1>8. SlotKept'
  BY <1>3 DEF SlotKept
<1>9. Unsent'
  BY <1>1, <1>3, <1>4, <1>5 DEF Unsent
<1>10. Remembered' /\ TakenOnce'
  <2>1. CASE UNCHANGED <<recent, heard>>
    BY <1>3, <2>1, TakenAsBefore
  <2>2. CASE m.seq \notin recent[n]
    <3> DEFINE h == heard[n]  last == Len(heard[n]) + 1
    <3>1. /\ recent'[n] = recent[n] \cup {m.seq} /\ heard'[n] = Append(h, m.id)
          /\ \A d \in Nodes \ {n} : recent'[d] = recent[d] /\ heard'[d] = heard[d]
      BY <1>1, <1>2, <2>2, RingHolds, TypeParts DEF TInv, Parts, TRecent, THeard
    <3>2. h \in Seq(0..MaxCmds)
      BY Counts
    <3>3. /\ DOMAIN heard'[n] = 1..last /\ Len(heard'[n]) = last
          /\ heard'[n][last] = m.id /\ \A k \in DOMAIN h : heard'[n][k] = h[k]
          /\ DOMAIN h = 1..Len(h) /\ Len(h) \in Nat
      BY <1>2, <3>1, <3>2
    <3>4. /\ issued \in Nat /\ seqCounter \in Nat /\ m.id <= issued
          /\ ~(m.id + seqCounter <= issued)
      <4>1. issued \in 0..MaxCmds /\ seqCounter \in 0..255
        BY Counts
      <4>2. issued \in Nat /\ seqCounter \in Nat
        BY <4>1
      <4> QED BY <4>2, <1>2
    <3>5. Remembered'
      <4> SUFFICES ASSUME NEW d \in Nodes, NEW k \in DOMAIN heard'[d]
                   PROVE  /\ heard'[d][k] <= issued
                          /\ (\A r \in k..Len(heard'[d]) : heard'[d][r] # Mark) =>
                             \/ heard'[d][k] + seqCounter <= issued
                             \/ \E q \in recent'[d] : heard'[d][k] + seqCounter = issued + q
        BY <1>3 DEF Remembered, Mark
      <4>1. CASE d # n
        BY <3>1, <4>1 DEF Remembered
      <4>2. CASE d = n /\ k = last
        BY <1>2, <3>1, <3>3, <3>4, <4>2
      <4>3. CASE d = n /\ k \in DOMAIN h
        <5>1. (\A r \in k..last : heard'[n][r] # Mark) => \A r \in k..Len(h) : h[r] # Mark
          BY <3>3, <4>3
        <5>2. /\ h[k] <= issued
              /\ (\A r \in k..Len(h) : h[r] # Mark) =>
                   \/ h[k] + seqCounter <= issued
                   \/ \E q \in recent[n] : h[k] + seqCounter = issued + q
          BY <4>3 DEF Remembered
        <5> QED BY <3>1, <3>3, <4>3, <5>1, <5>2
      <4> QED BY <3>3, <4>1, <4>2, <4>3
    <3>6. TakenOnce'
      <4> SUFFICES ASSUME NEW d \in Nodes, NEW j \in DOMAIN heard'[d],
                          NEW k \in DOMAIN heard'[d],
                          j < k, heard'[d][j] = heard'[d][k]
                   PROVE  \E r \in j..k : heard'[d][r] = Mark
        BY DEF TakenOnce, Mark
      <4>1. CASE d # n
        BY <3>1, <4>1 DEF TakenOnce
      <4>2. CASE d = n /\ k = last
        <5>1. j \in DOMAIN h /\ h[j] = m.id
          BY <3>3, <4>2
        <5>2. ~\E q \in recent[n] : h[j] + seqCounter = issued + q
          <6> SUFFICES ASSUME NEW q \in recent[n], m.id + seqCounter = issued + q
                       PROVE  FALSE
            BY <5>1
          <6>1. q \in 0..255
            BY Counts
          <6>2. q = m.seq
            BY <1>2, <3>4, <6>1
          <6> QED BY <2>2, <6>2
        <5>3. PICK r \in j..Len(h) : h[r] = Mark
          BY <3>4, <5>1, <5>2 DEF Remembered
        <5>4. r \in DOMAIN h /\ r \in j..k
          BY <3>3, <4>2, <5>1, <5>3
        <5> QED BY <3>3, <4>2, <5>3, <5>4
      <4>3. CASE d = n /\ k # last
        <5>1. j \in DOMAIN h /\ k \in DOMAIN h
          BY <3>3, <4>3
        <5>2. PICK r \in j..k : h[r] = Mark
          BY SMTT(30), <3>3, <4>3, <5>1 DEF TakenOnce
        <5>3. r \in DOMAIN h
          BY <3>3, <5>1, <5>2
        <5> QED BY <3>3, <4>3, <5>2, <5>3
      <4> QED BY <4>1, <4>2, <4>3
    <3> QED BY <3>5, <3>6
  <2> QED BY <1>1, <2>1, <2>2
<1> QED BY <1>7, <1>8, <1>9, <1>10

LEMMA StepTaken == Calm /\ TInv /\ TakenInv /\ [Next]_vars => TakenInv'
<1> SUFFICES ASSUME Calm, TInv, TakenInv, [Next]_vars PROVE TakenInv'
  OBVIOUS
<1>1. ASSUME NEW c \in Callers, Send(c) PROVE TakenInv'
  BY <1>1, SendTaken
<1>2. ASSUME NEW c \in Callers, NEW live \in SUBSET Nodes,
             IssueFree(c, live) \/ IssueFlush(c, live)
      PROVE  TakenInv'
  BY <1>2, IssueTaken
<1>3. CASE RetryTask
  BY <1>3, RetrySendTaken, RetryTakeTaken, GiveUpTaken DEF RetryTask
<1>4. ASSUME NEW a \in acks, AckReceive(a) PROVE TakenInv'
  BY <1>4, AckReceiveTaken
<1>5. ASSUME NEW n \in Nodes, NodeReceive(n) PROVE TakenInv'
  BY <1>5, NodeReceiveTaken
<1>6. ASSUME NEW n \in Nodes, NodeRestart(n) PROVE TakenInv'
  BY <1>6, NodeRestartTaken
<1>7. CASE MgrRestart
  BY <1>7, MgrRestartTaken
<1>8. CASE UNCHANGED vars
  <2>1. UNCHANGED <<issued, seqCounter, pending, call, retry, acks, inq, recent, heard>>
    BY <1>8 DEF vars, manager
  <2>2. Numbered' /\ SlotKept' /\ Unsent'
    BY <2>1 DEF TakenInv, Numbered, Numbers, SlotKept, Unsent
  <2> QED BY <2>1, <2>2, TakenAsBefore DEF TakenInv
<1> QED BY <1>1, <1>2, <1>3, <1>4, <1>5, <1>6, <1>7, <1>8 DEF Next

\* In a fleet of any size, with any number of tasks that send commands, of
\* slots and of retries, a node takes a command for new at most once between
\* two restarts (cmdDedupe), while there are no more commands than a node
\* remembers and no slot is taken from under a command that is being sent.
THEOREM NothingTakenTwice == Calm /\ Spec => []TakenOnce
<1>1. Calm /\ Init => TInv /\ TakenInv
  BY InitType, InitTaken
<1>2. Calm /\ TInv /\ TakenInv /\ [Next]_vars => TInv' /\ TakenInv' /\ Calm'
  BY StepType, StepTaken DEF Calm
<1>3. TakenInv => TakenOnce
  BY DEF TakenInv
<1> QED BY <1>1, <1>2, <1>3, PTL DEF Spec

-----------------------------------------------------------------------------
(* Switches run in the order they were asked for.                          *)

\* The command y was not on the air when x was asked for, or it is one that may
\* be repeated.
Apart(x, y) == x # Mark /\ y \in Switches => y \notin after[x]

\* A command is only after earlier ones, and after those that were sent.
AfterEarlier ==
  /\ \A y \in sent : y <= issued
  /\ \A x \in Ids : \A y \in after[x] : y \in sent /\ y < x

\* A command that is about to be sent has not been sent.
CallsNew ==
  \A c \in Callers : call[c].on =>
    call[c].id + seqCounter = issued + call[c].seq /\ call[c].id \notin sent

\* The retry task has no switch.
SwitchOnce ==
  /\ \A s \in 1..Slots : pending[s].used /\ pending[s].id \in Switches => ~RetryLeft(s)
  /\ retry.on => retry.id \notin Switches

QueueOrdered(n) ==
  \A p, q \in DOMAIN inq[n] : p < q => Apart(inq[n][p].id, inq[n][q].id)

TakenOrdered(n) ==
  \A k \in DOMAIN heard[n] :
    /\ \A m \in Elements(inq[n]) : Apart(heard[n][k], m.id)
    /\ \A j \in DOMAIN heard[n] : j < k => Apart(heard[n][j], heard[n][k])

OrderInv ==
  /\ AfterEarlier /\ CallsNew /\ SwitchOnce
  /\ \A n \in Nodes : QueueOrdered(n) /\ TakenOrdered(n)

\* A command and its number determine each other.
LEMMA NumberOfCommand ==
  ASSUME NEW i \in Nat, NEW s \in Nat, NEW a \in Nat, NEW b \in Nat, NEW q \in Nat,
         NEW r \in Nat, a + s = i + q, b + s = i + r
  PROVE  /\ a = b <=> q = r
         /\ q <= s => a <= i
         /\ a + (s + 1) = (i + 1) + q
OBVIOUS

LEMMA OrderBasics ==
  ASSUME TInv, TakenInv
  PROVE  /\ issued \in 0..MaxCmds /\ seqCounter \in 0..255
         /\ \A n \in Nodes : /\ heard[n] \in Seq(0..MaxCmds) /\ inq[n] \in Seq(Packets)
                             /\ \A k \in DOMAIN heard[n] : heard[n][k] \in 0..issued
                             /\ \A m \in Elements(inq[n]) : m.id \in 1..issued
         /\ after \in [Ids -> SUBSET Ids] /\ sent \in SUBSET Ids
<1>1. /\ issued \in 0..MaxCmds /\ seqCounter \in 0..255
      /\ after \in [Ids -> SUBSET Ids] /\ sent \in SUBSET Ids
  BY Counts, TypeParts DEF TInv, Parts, THistory
<1>2. ASSUME NEW n \in Nodes
      PROVE  /\ heard[n] \in Seq(0..MaxCmds) /\ inq[n] \in Seq(Packets)
             /\ \A k \in DOMAIN heard[n] : heard[n][k] \in 0..issued
             /\ \A m \in Elements(inq[n]) : m.id \in 1..issued
  <2>1. heard[n] \in Seq(0..MaxCmds) /\ inq[n] \in Seq(Packets)
    BY Counts
  <2>2. ASSUME NEW k \in DOMAIN heard[n] PROVE heard[n][k] \in 0..issued
    <3>1. heard[n][k] \in 0..MaxCmds
      BY <2>1
    <3>2. heard[n][k] <= issued
      BY DEF TakenInv, Remembered
    <3> QED BY <1>1, <3>1, <3>2
  <2>3. ASSUME NEW m \in Elements(inq[n]) PROVE m.id \in 1..issued
    <3>1. m \in Packets
      BY <2>1 DEF Elements
    <3>2. m.id \in 1..MaxCmds
      BY <3>1 DEF Packets, Ids
    <3>3. m.seq \in 1..seqCounter /\ m.id + seqCounter = issued + m.seq
      BY DEF TakenInv, Numbered, Numbers
    <3> QED BY <1>1, <3>2, <3>3
  <2> QED BY <2>1, <2>2, <2>3
<1> QED BY <1>1, <1>2

\* Nothing but the queues, what is taken and the history of commands matters to
\* the order.
LEMMA OrderAsBefore ==
  ASSUME UNCHANGED <<inq, heard, after>>, \A n \in Nodes : QueueOrdered(n) /\ TakenOrdered(n)
  PROVE  \A n \in Nodes : QueueOrdered(n)' /\ TakenOrdered(n)'
BY DEF QueueOrdered, TakenOrdered, Apart

\* A packet that no command comes after may be broadcast.
LEMMA BroadcastOrder ==
  ASSUME TInv, TakenInv, OrderInv, NEW m \in Packets, Broadcast(m), UNCHANGED <<heard, after>>,
         \A x \in 0..issued : Apart(x, m.id)
  PROVE  \A n \in Nodes : QueueOrdered(n)' /\ TakenOrdered(n)'
<1> SUFFICES ASSUME NEW n \in Nodes PROVE QueueOrdered(n)' /\ TakenOrdered(n)'
  OBVIOUS
<1>1. PICK missed \in SUBSET Nodes :
        inq' = [d \in Nodes |-> IF d \in missed THEN inq[d] ELSE Append(inq[d], m)]
  BY DEF Broadcast
<1>2. /\ inq[n] \in Seq(Packets) /\ QueueOrdered(n) /\ TakenOrdered(n)
      /\ \A k \in DOMAIN heard[n] : heard[n][k] \in 0..issued
      /\ \A x \in Elements(inq[n]) : x.id \in 0..issued
  BY OrderBasics DEF OrderInv
<1>3. \A x, y : Apart(x, y)' <=> Apart(x, y)
  BY DEF Apart
<1>4. CASE inq'[n] = inq[n]
  BY <1>2, <1>4 DEF QueueOrdered, TakenOrdered, Apart
<1>5. CASE inq'[n] = Append(inq[n], m)
  <2> DEFINE last == Len(inq[n]) + 1
  <2>1. /\ DOMAIN inq'[n] = 1..last /\ inq'[n][last] = m
        /\ \A q \in DOMAIN inq[n] : inq'[n][q] = inq[n][q]
        /\ DOMAIN inq[n] = 1..Len(inq[n]) /\ Len(inq[n]) \in Nat
    BY <1>2, <1>5
  <2>2. QueueOrdered(n)'
    <3> SUFFICES ASSUME NEW p \in 1..last, NEW q \in 1..last, p < q
                 PROVE  Apart(inq'[n][p].id, inq'[n][q].id)
      BY <1>3, <2>1 DEF QueueOrdered, Apart
    <3>1. p \in DOMAIN inq[n] /\ inq'[n][p] = inq[n][p] /\ inq[n][p] \in Elements(inq[n])
      BY <2>1 DEF Elements
    <3>2. CASE q = last
      BY <1>2, <2>1, <3>1, <3>2
    <3>3. CASE q # last
      BY <1>2, <2>1, <3>1, <3>3 DEF QueueOrdered
    <3> QED BY <3>2, <3>3
  <2>3. \A x \in Elements(inq'[n]) : x \in Elements(inq[n]) \/ x = m
    BY <1>2, <1>5, ElementsAfter
  <2>4. TakenOrdered(n)'
    BY <1>2, <1>3, <2>3 DEF TakenOrdered, Apart
  <2> QED BY <2>2, <2>4
<1> QED BY <1>1, <1>4, <1>5

LEMMA InitOrder == Init => OrderInv
<1> SUFFICES ASSUME Init PROVE OrderInv
  OBVIOUS
<1>1. \A n \in Nodes : DOMAIN inq[n] = {} /\ DOMAIN heard[n] = {}
  BY DEF Init
<1>2. AfterEarlier /\ CallsNew /\ SwitchOnce
  BY DEF Init, AfterEarlier, CallsNew, SwitchOnce, None, Free, Unfilled
<1> QED BY <1>1, <1>2 DEF OrderInv, QueueOrdered, TakenOrdered

LEMMA IssueOrder ==
  ASSUME TInv, TakenInv, OrderInv, Calm, NEW c \in Callers, NEW live \in SUBSET Nodes,
         IssueFree(c, live) \/ IssueFlush(c, live)
  PROVE  OrderInv'
<1>1. PICK slot \in 1..Slots :
        /\ Issue(c, slot, live)
        /\ \/ pending' = [pending EXCEPT ![slot] = Entry(live)]
           \/ pending' = [s \in 1..Slots |-> IF s = 1 THEN Entry(live)
                                             ELSE Freed(pending[s])] /\ slot = 1
  <2>1. 1 \in 1..Slots
    OBVIOUS
  <2> QED BY <2>1 DEF IssueFree, IssueFlush, Unused
<1>2. /\ issued \in 0..MaxCmds /\ seqCounter \in 0..255 /\ issued < MaxCmds
      /\ seqCounter <= issued
  BY <1>1, OrderBasics DEF Issue, TakenInv, Numbered
<1>3. issued' = issued + 1 /\ seqCounter' = seqCounter + 1 /\ issued' \in Ids
  BY <1>1, <1>2 DEF Issue, Calm, Ids
<1>4. /\ call' = [call EXCEPT ![c] = [on |-> TRUE, slot |-> slot, seq |-> seqCounter',
                                      id |-> issued']]
      /\ after' = [after EXCEPT ![issued'] = sent]
      /\ UNCHANGED <<retry, inq, heard, sent>>
  BY <1>1 DEF Issue
<1>5. AfterEarlier'
  <2>1. \A y \in sent : y \in Nat /\ y <= issued /\ y < issued'
    BY <1>2, <1>3, OrderBasics DEF OrderInv, AfterEarlier, Ids
  <2>2. \A x \in Ids : after'[x] = IF x = issued' THEN sent ELSE after[x]
    BY <1>4, OrderBasics
  <2>3. \A y \in sent : y <= issued'
    BY <1>2, <1>3, <2>1
  <2> QED BY <1>4, <2>1, <2>2, <2>3 DEF OrderInv, AfterEarlier
<1>6. CallsNew'
  <2> SUFFICES ASSUME NEW d \in Callers, call'[d].on
               PROVE  /\ call'[d].id + seqCounter' = issued' + call'[d].seq
                      /\ call'[d].id \notin sent
    BY <1>4 DEF CallsNew
  <2>1. CASE d = c
    <3>1. call'[d].id = issued' /\ call'[d].seq = seqCounter'
      BY <1>4, <2>1, TypeParts DEF TInv, Parts, TCalls
    <3>2. issued' \notin sent
      BY <1>2, <1>3, OrderBasics DEF OrderInv, AfterEarlier, Ids
    <3> QED BY <3>1, <3>2
  <2>2. CASE d # c
    <3>1. call'[d] = call[d] /\ call[d].seq \in 0..255 /\ call[d].id \in 0..MaxCmds
      BY <1>4, <2>2, Counts
    <3>2. call[d].id + seqCounter = issued + call[d].seq /\ call[d].id \notin sent
      BY <3>1 DEF OrderInv, CallsNew
    <3>3. issued \in Nat /\ seqCounter \in Nat /\ call[d].id \in Nat /\ call[d].seq \in Nat
      BY <1>2, <3>1
    <3>4. call[d].id + (seqCounter + 1) = (issued + 1) + call[d].seq
      BY <3>2, <3>3, NumberOfCommand
    <3> QED BY <1>3, <3>1, <3>2, <3>4
  <2> QED BY <2>1, <2>2
<1>7. SwitchOnce'
  <2>1. pending \in [1..Slots -> Entries]
    BY TypeParts DEF TInv, Parts, TPending
  <2>2. /\ Entry(live).id = issued' /\ Entry(live).left = RetriesOf(issued')
        /\ \A s \in 1..Slots : ~Freed(pending[s]).used
    BY DEF Entry, Freed, Unfilled
  <2>3. issued' \in Switches => ~(Entry(live).left > 0)
    BY <2>2 DEF RetriesOf
  <2>4. \A s \in 1..Slots : pending'[s].used =>
          pending'[s] = Entry(live) \/ (pending[s].used /\ pending'[s] = pending[s])
    BY <1>1, <2>1, <2>2
  <2> QED BY <1>4, <2>2, <2>3, <2>4 DEF OrderInv, SwitchOnce, RetryLeft
<1>8. \A x \in 0..issued : \A y : Apart(x, y) => Apart(x, y)'
  <2>1. \A x \in 0..issued : x # Mark => x \in Ids /\ x # issued'
    BY <1>2, <1>3 DEF Mark, Ids
  <2> QED BY <1>4, <2>1, OrderBasics DEF Apart, Mark
<1>9. ASSUME NEW n \in Nodes PROVE QueueOrdered(n)' /\ TakenOrdered(n)'
  <2>1. /\ \A k \in DOMAIN heard[n] : heard[n][k] \in 0..issued
        /\ \A p \in DOMAIN inq[n] : inq[n][p].id \in 0..issued
        /\ QueueOrdered(n) /\ TakenOrdered(n)
    BY OrderBasics DEF Elements, OrderInv
  <2>2. QueueOrdered(n)'
    BY <1>4, <1>8, <2>1 DEF QueueOrdered, Apart
  <2>3. TakenOrdered(n)'
    BY <1>4, <1>8, <2>1 DEF TakenOrdered, Apart
  <2> QED BY <2>2, <2>3
<1> QED BY <1>5, <1>6, <1>7, <1>9 DEF OrderInv

LEMMA SendOrder ==
  ASSUME TInv, TakenInv, OrderInv, NEW c \in Callers, Send(c)
  PROVE  OrderInv'
<1> DEFINE m == Packet(call[c].seq, pending[call[c].slot].id)
<1>1. /\ call[c].on /\ Broadcast(m)
      /\ call' = [call EXCEPT ![c] = None] /\ sent' = sent \cup {call[c].id}
      /\ UNCHANGED <<issued, seqCounter, pending, retry, heard, after>>
  BY DEF Send
<1>2. /\ call[c].slot \in 1..Slots /\ call[c].seq \in 0..255 /\ call[c].id \in 0..MaxCmds
      /\ pending[call[c].slot].used /\ pending[call[c].slot].seq = call[c].seq
      /\ pending[call[c].slot].id \in 0..MaxCmds
      /\ issued \in 0..MaxCmds /\ seqCounter \in 0..255
  BY <1>1, Counts, SMTT(30) DEF TakenInv, SlotKept
<1>3. /\ pending[call[c].slot].id + seqCounter = issued + call[c].seq
      /\ call[c].seq \in 1..seqCounter
  BY <1>2 DEF TakenInv, Numbered, Numbers
<1>4. call[c].id + seqCounter = issued + call[c].seq /\ call[c].id \notin sent
  BY <1>1 DEF OrderInv, CallsNew
<1>5. m.id = call[c].id /\ call[c].id <= issued
  <2>1. /\ issued \in Nat /\ seqCounter \in Nat /\ call[c].id \in Nat /\ call[c].seq \in Nat
        /\ pending[call[c].slot].id \in Nat /\ call[c].seq <= seqCounter
    BY <1>2, <1>3
  <2>2. call[c].id = pending[call[c].slot].id /\ call[c].id <= issued
    BY <1>3, <1>4, <2>1, NumberOfCommand
  <2> QED BY <2>2 DEF Packet
<1>6. m \in Packets
  BY <1>1, <1>2 DEF Packet, Packets, TInv, Named
<1> HIDE DEF m
<1>7. \A x \in 0..issued : Apart(x, m.id)
  <2>1. \A x \in 0..issued : x # Mark => x \in Ids
    BY <1>2 DEF Mark, Ids
  <2> QED BY <1>4, <1>5, <2>1 DEF OrderInv, AfterEarlier, Apart
<1>8. \A n \in Nodes : QueueOrdered(n)' /\ TakenOrdered(n)'
  BY <1>1, <1>6, <1>7, BroadcastOrder
<1>9. \A d \in Callers : call'[d].on => d # c /\ call'[d] = call[d]
  BY <1>1, TypeParts DEF TInv, Parts, TCalls, None
<1>10. CallsNew'
  <2> SUFFICES ASSUME NEW d \in Callers, call'[d].on
               PROVE  /\ call[d].id + seqCounter = issued + call[d].seq
                      /\ call[d].id \notin sent /\ call[d].id # call[c].id
    BY <1>1, <1>9 DEF CallsNew
  <2>1. d # c /\ call[d].on /\ call[d].seq \in 0..255 /\ call[d].id \in 0..MaxCmds
    BY <1>9, Counts
  <2>2. call[d].seq # call[c].seq
    BY <1>1, <2>1 DEF TakenInv, Unsent
  <2>3. call[d].id + seqCounter = issued + call[d].seq /\ call[d].id \notin sent
    BY <2>1 DEF OrderInv, CallsNew
  <2>4. /\ issued \in Nat /\ seqCounter \in Nat /\ call[c].id \in Nat /\ call[c].seq \in Nat
        /\ call[d].id \in Nat /\ call[d].seq \in Nat
    BY <1>2, <2>1, SMTT(30)
  <2>5. call[d].id # call[c].id
    <3> SUFFICES ASSUME call[d].id = call[c].id PROVE FALSE
      OBVIOUS
    <3>1. call[d].seq = call[c].seq
      BY <1>4, <2>3, <2>4
    <3> QED BY <2>2, <3>1
  <2> QED BY <2>3, <2>5
<1>11. AfterEarlier'
  BY <1>1, <1>5 DEF OrderInv, AfterEarlier
<1>12. SwitchOnce'
  BY <1>1 DEF OrderInv, SwitchOnce, RetryLeft
<1> QED BY <1>8, <1>10, <1>11, <1>12 DEF OrderInv

LEMMA RetryTakeOrder ==
  ASSUME TInv, OrderInv, NEW s \in 1..Slots, RetryTake(s)
  PROVE  OrderInv'
<1>1. /\ pending[s].used /\ RetryLeft(s)
      /\ pending' = [pending EXCEPT ![s].left = @ - 1]
      /\ retry' = [on |-> TRUE, slot |-> s, seq |-> pending[s].seq, id |-> pending[s].id]
      /\ UNCHANGED <<issued, seqCounter, call, inq, heard, sent, after>>
  BY DEF RetryTake, history
<1>2. pending[s].id \notin Switches
  BY <1>1 DEF OrderInv, SwitchOnce
<1>3. \A t \in 1..Slots : /\ pending'[t].id = pending[t].id
                          /\ pending'[t].used = pending[t].used
                          /\ t # s => pending'[t] = pending[t]
  <2>1. pending \in [1..Slots -> Entries]
    BY TypeParts DEF TInv, Parts, TPending
  <2>2. pending' = [pending EXCEPT ![s] = [pending[s] EXCEPT !.left = @ - 1]]
    BY <1>1
  <2>3. pending[s] \in Entries
    BY <2>1
  <2> QED BY <2>1, <2>2, <2>3 DEF Entries
<1>4. SwitchOnce'
  <2>1. \A t \in 1..Slots : pending'[t].used /\ pending'[t].id \in Switches =>
          t # s /\ pending[t].used /\ pending[t].id \in Switches
    BY <1>2, <1>3
  <2> QED BY <1>1, <1>2, <1>3, <2>1 DEF OrderInv, SwitchOnce, RetryLeft
<1>5. AfterEarlier' /\ CallsNew'
  BY <1>1 DEF OrderInv, AfterEarlier, CallsNew
<1> QED BY <1>1, <1>4, <1>5, OrderAsBefore DEF OrderInv

LEMMA RetrySendOrder ==
  ASSUME TInv, TakenInv, OrderInv, RetrySend
  PROVE  OrderInv'
<1> DEFINE m == Packet(retry.seq, retry.id)
<1>1. /\ retry.on /\ Broadcast(m) /\ retry' = None
      /\ UNCHANGED <<issued, seqCounter, pending, call, heard, sent, after>>
  BY DEF RetrySend, history
<1>2. m \in Packets
  BY <1>1, TypeParts DEF Packet, Packets, TInv, Named, Parts, TCalls, Calls
<1>3. m.id \notin Switches
  BY <1>1 DEF Packet, OrderInv, SwitchOnce
<1> HIDE DEF m
<1>4. \A n \in Nodes : QueueOrdered(n)' /\ TakenOrdered(n)'
  BY <1>1, <1>2, <1>3, BroadcastOrder DEF Apart
<1>5. AfterEarlier' /\ CallsNew' /\ SwitchOnce'
  BY <1>1 DEF OrderInv, AfterEarlier, CallsNew, SwitchOnce, RetryLeft, None
<1> QED BY <1>4, <1>5 DEF OrderInv

\* A slot that keeps its command and its retries, or is freed, repeats no switch.
LEMMA SlotsOrder ==
  ASSUME OrderInv, UNCHANGED <<issued, seqCounter, call, retry, inq, heard, sent, after>>,
         \A s \in 1..Slots : pending'[s].used =>
           /\ pending[s].used /\ pending'[s].id = pending[s].id
           /\ pending'[s].left = pending[s].left
  PROVE  OrderInv'
<1>1. AfterEarlier' /\ CallsNew' /\ SwitchOnce'
  BY DEF OrderInv, AfterEarlier, CallsNew, SwitchOnce, RetryLeft
<1> QED BY <1>1, OrderAsBefore DEF OrderInv

LEMMA GiveUpOrder ==
  ASSUME TInv, OrderInv, NEW s \in 1..Slots, NEW live \in SUBSET Nodes, GiveUp(s, live)
  PROVE  OrderInv'
<1>1. /\ pending' = [pending EXCEPT ![s] = Freed(pending[s])]
      /\ UNCHANGED <<issued, seqCounter, call, retry, inq, heard, sent, after>>
  BY DEF GiveUp, history
<1>2. ~pending'[s].used /\ \A t \in 1..Slots \ {s} : pending'[t] = pending[t]
  BY <1>1, TypeParts DEF TInv, Parts, TPending, Freed, Unfilled
<1> QED BY <1>1, <1>2, SlotsOrder

LEMMA AckReceiveOrder ==
  ASSUME TInv, OrderInv, NEW a \in acks, AckReceive(a)
  PROVE  OrderInv'
<1>1. /\ pending' = pending \/ pending' = Counted(a)
      /\ UNCHANGED <<issued, seqCounter, call, retry, inq, heard, sent, after>>
  BY DEF AckReceive, history
<1>2. ASSUME NEW s \in 1..Slots, Counted(a)[s].used
      PROVE  /\ pending[s].used /\ Counted(a)[s].id = pending[s].id
             /\ Counted(a)[s].left = pending[s].left
  <2> DEFINE p == pending[s]
  <2>1. p \in Entries
    BY TypeParts DEF TInv, Parts, TPending
  <2>2. ~Freed(p).used
    BY DEF Freed, Unfilled
  <2>3. Counted(a)[s] \in {p, Freed(p), [p EXCEPT !.quiet = @ \ {a.n}, !.acks = @ + 1],
                           [p EXCEPT !.quiet = @ \ {a.n}, !.acks = @]}
    BY DEF Counted
  <2> QED BY <1>2, <2>1, <2>2, <2>3, ZenonT(40) DEF Entries
<1> QED BY <1>1, <1>2, SlotsOrder

LEMMA MgrRestartOrder ==
  ASSUME OrderInv, MgrRestart
  PROVE  OrderInv'
<1>1. /\ pending' = [s \in 1..Slots |-> Free]
      /\ call' = [c \in Callers |-> None] /\ retry' = None
      /\ UNCHANGED <<issued, inq, heard, sent, after>>
  BY DEF MgrRestart
<1>2. AfterEarlier' /\ CallsNew' /\ SwitchOnce'
  BY <1>1 DEF OrderInv, AfterEarlier, CallsNew, SwitchOnce, None, Free, Unfilled
<1> QED BY <1>1, <1>2, OrderAsBefore DEF OrderInv

LEMMA NodeRestartOrder ==
  ASSUME TInv, OrderInv, NEW n \in Nodes, NodeRestart(n)
  PROVE  OrderInv'
<1>1. /\ inq' = [inq EXCEPT ![n] = <<>>] /\ heard' = [heard EXCEPT ![n] = Append(@, Mark)]
      /\ UNCHANGED <<issued, seqCounter, pending, call, retry, sent, after>>
  BY DEF NodeRestart, manager, history
<1>2. AfterEarlier' /\ CallsNew' /\ SwitchOnce'
  BY <1>1 DEF OrderInv, AfterEarlier, CallsNew, SwitchOnce, RetryLeft
<1>3. \A d \in Nodes \ {n} : inq'[d] = inq[d] /\ heard'[d] = heard[d]
  BY <1>1, TypeParts DEF TInv, Parts, TQueues, THeard
<1>4. inq'[n] = <<>> /\ heard'[n] = Append(heard[n], Mark)
  BY <1>1, TypeParts DEF TInv, Parts, TQueues, THeard
<1>5. ASSUME NEW d \in Nodes \ {n} PROVE QueueOrdered(d)' /\ TakenOrdered(d)'
  BY <1>1, <1>3 DEF OrderInv, QueueOrdered, TakenOrdered, Apart
<1>6. QueueOrdered(n)'
  BY <1>4 DEF QueueOrdered
<1>7. TakenOrdered(n)'
  <2> DEFINE h == heard[n]
  <2>1. /\ DOMAIN heard'[n] = 1..Len(h) + 1 /\ heard'[n][Len(h) + 1] = Mark
        /\ \A k \in DOMAIN h : heard'[n][k] = h[k]
        /\ DOMAIN h = 1..Len(h) /\ Len(h) \in Nat
    <3>1. h \in Seq(0..MaxCmds) /\ Mark \in 0..MaxCmds
      BY Counts DEF Mark
    <3> QED BY <1>4, <3>1
  <2>2. Elements(inq'[n]) = {}
    BY <1>4 DEF Elements
  <2> SUFFICES ASSUME NEW k \in DOMAIN heard'[n], NEW j \in DOMAIN heard'[n], j < k
               PROVE  Apart(heard'[n][j], heard'[n][k])
    BY <1>1, <2>2 DEF TakenOrdered, Apart
  <2>3. CASE k = Len(h) + 1
    BY <2>1, <2>3, SwitchesAssumption DEF Apart, Mark
  <2>4. CASE k # Len(h) + 1
    <3>1. k \in DOMAIN h /\ j \in DOMAIN h
      BY <2>1, <2>4
    <3> QED BY <2>1, <3>1 DEF OrderInv, TakenOrdered
  <2> QED BY <2>3, <2>4
<1> QED BY <1>2, <1>5, <1>6, <1>7 DEF OrderInv

\* The head of the queue was not on the air before anything taken was asked for,
\* and what waits behind it was not before it was.
LEMMA NodeReceiveOrder ==
  ASSUME TInv, TakenInv, OrderInv, NEW n \in Nodes, NodeReceive(n)
  PROVE  OrderInv'
<1> DEFINE m == Head(inq[n])
<1>1. /\ inq[n] # <<>>
      /\ inq' = inq \/ inq' = [inq EXCEPT ![n] = Tail(@)]
      /\ heard' = heard \/ heard' = [heard EXCEPT ![n] = Append(@, m.id)]
      /\ UNCHANGED <<issued, seqCounter, pending, call, retry, sent, after>>
  BY DEF NodeReceive, manager, history
<1>2. AfterEarlier' /\ CallsNew' /\ SwitchOnce'
  BY <1>1 DEF OrderInv, AfterEarlier, CallsNew, SwitchOnce, RetryLeft
<1>3. /\ inq[n] \in Seq(Packets) /\ heard[n] \in Seq(0..MaxCmds)
      /\ inq \in [Nodes -> Seq(Packets)] /\ heard \in [Nodes -> Seq(0..MaxCmds)]
      /\ QueueOrdered(n) /\ TakenOrdered(n)
  BY OrderBasics, TypeParts DEF OrderInv, TInv, Parts, TQueues, THeard
<1>4. m = inq[n][1] /\ 1 \in DOMAIN inq[n] /\ m \in Elements(inq[n]) /\ m.id \in 1..issued
  <2>1. m = inq[n][1] /\ 1 \in DOMAIN inq[n]
    BY <1>1, <1>3
  <2>2. m \in Elements(inq[n])
    BY <2>1 DEF Elements
  <2> QED BY <2>1, <2>2, OrderBasics
<1> HIDE DEF m
<1>5. \A x, y : Apart(x, y)' <=> Apart(x, y)
  BY <1>1 DEF Apart
<1>6. ASSUME NEW d \in Nodes \ {n} PROVE QueueOrdered(d)' /\ TakenOrdered(d)'
  <2>1. inq'[d] = inq[d] /\ heard'[d] = heard[d]
    BY <1>1, <1>3
  <2> QED BY <1>1, <2>1 DEF OrderInv, QueueOrdered, TakenOrdered, Apart
<1>7. \A x \in Elements(inq[n]) : Apart(m.id, x.id)
  <2> SUFFICES ASSUME NEW q \in DOMAIN inq[n] PROVE Apart(m.id, inq[n][q].id)
    BY DEF Elements
  <2>1. CASE q = 1
    <3>1. m.id \in Ids /\ m.id \in 1..MaxCmds
      BY <1>4, OrderBasics DEF Ids
    <3>2. m.id \notin after[m.id]
      BY <3>1 DEF OrderInv, AfterEarlier
    <3> QED BY <1>4, <2>1, <3>2 DEF Apart
  <2>2. CASE q # 1
    <3>1. q \in Nat /\ 1 < q
      BY <1>3, <2>2
    <3> QED BY <1>3, <1>4, <3>1 DEF QueueOrdered
  <2> QED BY <2>1, <2>2
<1>8. /\ QueueOrdered(n)' /\ Elements(inq'[n]) \subseteq Elements(inq[n])
  <2>1. CASE inq'[n] = inq[n]
    BY <1>1, <1>3, <2>1 DEF QueueOrdered, Apart
  <2>2. CASE inq'[n] = Tail(inq[n])
    <3>1. \A q \in DOMAIN Tail(inq[n]) : /\ q \in Nat /\ q + 1 \in DOMAIN inq[n]
                                         /\ Tail(inq[n])[q] = inq[n][q + 1]
      BY <1>1, <1>3
    <3>2. \A p, q \in DOMAIN inq'[n] : p < q => Apart(inq'[n][p].id, inq'[n][q].id)
      <4> SUFFICES ASSUME NEW p \in DOMAIN inq'[n], NEW q \in DOMAIN inq'[n], p < q
                   PROVE  Apart(inq'[n][p].id, inq'[n][q].id)
        OBVIOUS
      <4>1. p + 1 < q + 1 /\ p + 1 \in DOMAIN inq[n] /\ q + 1 \in DOMAIN inq[n]
        BY <2>2, <3>1
      <4> QED BY <1>3, <2>2, <3>1, <4>1 DEF QueueOrdered
    <3>3. QueueOrdered(n)'
      BY <1>5, <3>2 DEF QueueOrdered
    <3>4. Elements(Tail(inq[n])) \subseteq Elements(inq[n])
      BY <1>1, <1>3, <1>4, ElementsAfter
    <3> QED BY <2>2, <3>3, <3>4
  <2> QED BY <1>1, <1>3, <2>1, <2>2
<1>9. TakenOrdered(n)'
  <2>1. CASE heard'[n] = heard[n]
    BY <1>3, <1>5, <1>8, <2>1 DEF TakenOrdered, Apart
  <2>2. CASE heard'[n] = Append(heard[n], m.id)
    <3> DEFINE h == heard[n]
    <3>1. /\ DOMAIN heard'[n] = 1..Len(h) + 1 /\ heard'[n][Len(h) + 1] = m.id
          /\ \A k \in DOMAIN h : heard'[n][k] = h[k]
          /\ DOMAIN h = 1..Len(h) /\ Len(h) \in Nat
      <4>1. m.id \in 0..MaxCmds
        BY <1>4, OrderBasics
      <4> QED BY <1>3, <2>2, <4>1
    <3> SUFFICES ASSUME NEW k \in DOMAIN heard'[n]
                 PROVE  /\ \A x \in Elements(inq'[n]) : Apart(heard'[n][k], x.id)
                        /\ \A j \in DOMAIN heard'[n] : j < k => Apart(heard'[n][j], heard'[n][k])
      BY <1>5 DEF TakenOrdered, Apart
    <3>2. CASE k = Len(h) + 1
      <4>1. \A x \in Elements(inq'[n]) : Apart(heard'[n][k], x.id)
        BY <1>7, <1>8, <3>1, <3>2
      <4>2. ASSUME NEW j \in DOMAIN heard'[n], j < k PROVE Apart(heard'[n][j], heard'[n][k])
        <5>1. j \in DOMAIN h
          BY <3>1, <3>2, <4>2
        <5> QED BY <1>3, <1>4, <3>1, <3>2, <5>1 DEF TakenOrdered
      <4> QED BY <4>1, <4>2
    <3>3. CASE k # Len(h) + 1
      <4>1. k \in DOMAIN h /\ \A j \in DOMAIN heard'[n] : j < k => j \in DOMAIN h
        BY <3>1, <3>3
      <4> QED BY <1>3, <1>8, <3>1, <4>1 DEF TakenOrdered
    <3> QED BY <3>2, <3>3
  <2> QED BY <1>1, <1>3, <2>1, <2>2
<1> QED BY <1>2, <1>6, <1>8, <1>9 DEF OrderInv

LEMMA StepOrder == Calm /\ TInv /\ TakenInv /\ OrderInv /\ [Next]_vars => OrderInv'
<1> SUFFICES ASSUME Calm, TInv, TakenInv, OrderInv, [Next]_vars PROVE OrderInv'
  OBVIOUS
<1>1. ASSUME NEW c \in Callers, Send(c) PROVE OrderInv'
  BY <1>1, SendOrder
<1>2. ASSUME NEW c \in Callers, NEW live \in SUBSET Nodes,
             IssueFree(c, live) \/ IssueFlush(c, live)
      PROVE  OrderInv'
  BY <1>2, IssueOrder
<1>3. CASE RetryTask
  BY <1>3, RetrySendOrder, RetryTakeOrder, GiveUpOrder DEF RetryTask
<1>4. ASSUME NEW a \in acks, AckReceive(a) PROVE OrderInv'
  BY <1>4, AckReceiveOrder
<1>5. ASSUME NEW n \in Nodes, NodeReceive(n) PROVE OrderInv'
  BY <1>5, NodeReceiveOrder
<1>6. ASSUME NEW n \in Nodes, NodeRestart(n) PROVE OrderInv'
  BY <1>6, NodeRestartOrder
<1>7. CASE MgrRestart
  BY <1>7, MgrRestartOrder
<1>8. CASE UNCHANGED vars
  BY <1>8, SlotsOrder DEF vars, manager, history
<1> QED BY <1>1, <1>2, <1>3, <1>4, <1>5, <1>6, <1>7, <1>8 DEF Next

\* In the same instances a switch that was on the air before another command was
\* asked for never runs after it: retryTaskFn never repeats a switch
\* (maxRetries = 0), and a node takes packets in the order they were sent.
THEOREM SwitchesKeepOrder == Calm /\ Spec => []SwitchesInOrder
<1>1. Calm /\ Init => TInv /\ TakenInv /\ OrderInv
  BY InitType, InitTaken, InitOrder
<1>2. Calm /\ TInv /\ TakenInv /\ OrderInv /\ [Next]_vars =>
        TInv' /\ TakenInv' /\ OrderInv' /\ Calm'
  BY StepType, StepTaken, StepOrder DEF Calm
<1>3. OrderInv => SwitchesInOrder
  <2> SUFFICES ASSUME OrderInv, NEW n \in Nodes, NEW j \in DOMAIN heard[n],
                      NEW k \in DOMAIN heard[n], j < k,
                      {heard[n][j], heard[n][k]} \subseteq Switches
               PROVE  heard[n][k] \notin after[heard[n][j]]
    BY DEF SwitchesInOrder
  <2>1. Apart(heard[n][j], heard[n][k])
    BY DEF OrderInv, TakenOrdered
  <2> QED BY <2>1, SwitchesAssumption DEF Apart, Mark
<1> QED BY <1>1, <1>2, <1>3, PTL DEF Spec

================================================================================
