--------------------------- MODULE MeshOtaProofs ---------------------------
(***************************************************************************)
(* The firmware relay, proved for every number of nodes and chunks, every  *)
(* queue depth, table size and bound, and every fault. Two arguments:      *)
(*                                                                         *)
(*   - a node's chunk count is the number of its bits, and what a bit      *)
(*     stands for has been written since the last erase; so a full count   *)
(*     means a written partition;                                          *)
(*   - every answer of a node names a chunk at or before the first one it  *)
(*     misses. A BEGIN makes all of them missing again, and answers given  *)
(*     before it would name too late a chunk; there are none, as the       *)
(*     BEGINs of a relay come before its chunks in every queue.            *)
(***************************************************************************)
EXTENDS MeshOta, FiniteSetTheorems, TLAPS

\* A queue holds its BEGINs first, and nothing else until all are sent.
HasBegin(s)   == \E k \in DOMAIN s : s[k].t = "begin"
OnlyBegins(s) == \A k \in DOMAIN s : s[k].t = "begin"
BeginsLead(s) ==
  \A j, k \in DOMAIN s : j <= k /\ s[k].t = "begin" => s[j].t = "begin"
BeginsFirst ==
  \A n \in Nodes : BeginsLead(inq[n]) /\ (pc = "begin" => OnlyBegins(inq[n]))

\* A node may still take a BEGIN of this relay.
ExpectsBegin(n) == pc = "begin" \/ HasBegin(inq[n])

\* An answer of node n is one the manager may rely on.
Reliable(n, a) ==
  /\ ExpectsBegin(n) => a.status # "DONE" /\ a.next = 0
  /\ rx[n].active => a.status # "DONE" /\ \A c \in Seqs \ rx[n].bits : a.next <= c
AnswersReliable ==
  /\ \A k \in DOMAIN ackq : Reliable(ackq[k].n, ackq[k])
  /\ \A n \in Nodes : prog[n].seen => Reliable(n, prog[n])

BitsCounted == \A n \in Nodes : rx[n].count = Cardinality(rx[n].bits)
BitsWritten == \A n \in Nodes : \A c \in rx[n].bits : part[n][c] # 0

\* The relay task waits for answers only after a round that was left to it.
RoundsLeft == pc = "check" => round < Rounds

IInv == TypeOK /\ RoundsLeft /\ BeginsFirst /\ AnswersReliable
        /\ BitsCounted /\ BitsWritten

USE NodesAssumption

-----------------------------------------------------------------------------
(* Numbers and queues.                                                     *)

LEMMA Sizes ==
  /\ Chunks \in Nat \ {0} /\ BeginCopies \in Nat \ {0} /\ Rounds \in Nat \ {0}
  /\ RxDepth \in Nat \ {0} /\ MaxRelays \in Nat \ {0} /\ MaxLoss \in Nat
BY SizeAssumption

USE Sizes

\* A set of numbers has a least one.
LEMMA Least ==
  ASSUME NEW T, T \subseteq Nat, T # {}
  PROVE  \E x \in T : \A y \in T : x <= y
<1> DEFINE R == StrictSubsetOrdering(Nat)
<1> DEFINE Below == {0 .. x - 1 : x \in T}
<1>1. Below \subseteq FiniteSubsetsOf(Nat) /\ Below # {}
  <2>1. \A x \in T : IsFiniteSet(0 .. x - 1) /\ 0 .. x - 1 \subseteq Nat
    BY FS_Interval
  <2> QED BY <2>1 DEF FiniteSubsetsOf
<1>2. IsWellFoundedOn(R, FiniteSubsetsOf(Nat))
  BY FS_StrictSubsetOrderingWellFounded
<1> HIDE DEF R, Below
<1>3. PICK b \in Below : \A c \in Below : ~ (<<c, b>> \in R)
  BY <1>1, <1>2, WFMin
<1>4. PICK x \in T : b = 0 .. x - 1
  BY <1>3 DEF Below
<1>5. ASSUME NEW y \in T, y < x PROVE FALSE
  <2>1. 0 .. y - 1 \in Below
    BY DEF Below
  <2>2. 0 .. y - 1 \subseteq 0 .. x - 1 /\ y \in 0 .. x - 1 /\ y \notin 0 .. y - 1
    BY <1>5
  <2>3. <<0 .. y - 1, b>> \in R
    BY <1>4, <2>2 DEF R, StrictSubsetOrdering
  <2> QED BY <1>3, <2>1, <2>3
<1> QED BY <1>5

\* There is a first missing chunk, or the end.
LEMMA FirstExists ==
  ASSUME NEW bits
  PROVE  \E c \in 0..Chunks : (c = Chunks \/ c \notin bits) /\ 0 .. c - 1 \subseteq bits
<1> DEFINE T == {c \in 0..Chunks : c = Chunks \/ c \notin bits}
<1>1. Chunks \in T /\ T \subseteq Nat
  OBVIOUS
<1>2. PICK x \in T : \A y \in T : x <= y
  BY <1>1, Least
<1>3. 0 .. x - 1 \subseteq bits
  BY <1>2
<1> QED BY <1>2, <1>3

\* otaFirstMissing finds it.
LEMMA FirstMissing ==
  ASSUME NEW n \in Nodes
  PROVE  /\ otaFirstMissing(n) \in 0..Chunks
         /\ \A c \in Seqs \ rx[n].bits : otaFirstMissing(n) <= c
<1>1. /\ otaFirstMissing(n) \in 0..Chunks
      /\ 0 .. otaFirstMissing(n) - 1 \subseteq rx[n].bits
  BY FirstExists DEF otaFirstMissing
<1> QED BY <1>1 DEF Seqs

LEMMA NextFirstMissing ==
  ASSUME NEW n \in Nodes
  PROVE  /\ otaFirstMissing(n)' \in 0..Chunks
         /\ \A c \in Seqs \ rx'[n].bits : otaFirstMissing(n)' <= c
<1>1. /\ otaFirstMissing(n)' \in 0..Chunks
      /\ 0 .. otaFirstMissing(n)' - 1 \subseteq rx'[n].bits
  BY FirstExists DEF otaFirstMissing
<1> QED BY <1>1 DEF Seqs

LEMMA TakeOne ==
  ASSUME NEW s \in Seq(Packets), s # <<>>, BeginsLead(s)
  PROVE  /\ Head(s) \in Packets /\ Tail(s) \in Seq(Packets) /\ BeginsLead(Tail(s))
         /\ HasBegin(Tail(s)) => HasBegin(s)
         /\ OnlyBegins(s) => OnlyBegins(Tail(s)) /\ Head(s).t = "begin"
         /\ Head(s).t = "begin" => HasBegin(s)
         /\ Head(s).t # "begin" => ~HasBegin(s)
<1>1. /\ Head(s) = s[1] /\ 1 \in DOMAIN s /\ s[1] \in Packets
      /\ Tail(s) \in Seq(Packets)
      /\ DOMAIN Tail(s) = 1 .. Len(s) - 1 /\ DOMAIN s = 1 .. Len(s)
      /\ \A k \in 1 .. Len(s) - 1 : Tail(s)[k] = s[k + 1]
      /\ Len(s) \in Nat
  OBVIOUS
<1>2. \A k \in DOMAIN Tail(s) : k + 1 \in DOMAIN s /\ Tail(s)[k] = s[k + 1]
  BY <1>1
<1> QED BY <1>1, <1>2 DEF BeginsLead, HasBegin, OnlyBegins

LEMMA AddOne ==
  ASSUME NEW s \in Seq(Packets), NEW m \in Packets, BeginsLead(s),
         m.t = "begin" => OnlyBegins(s)
  PROVE  /\ Append(s, m) \in Seq(Packets) /\ BeginsLead(Append(s, m))
         /\ m.t # "begin" /\ HasBegin(Append(s, m)) => HasBegin(s)
         /\ m.t = "begin" => OnlyBegins(Append(s, m))
<1>1. /\ Append(s, m) \in Seq(Packets) /\ Len(s) \in Nat
      /\ DOMAIN Append(s, m) = 1 .. Len(s) + 1 /\ DOMAIN s = 1 .. Len(s)
      /\ \A k \in 1 .. Len(s) : Append(s, m)[k] = s[k]
      /\ Append(s, m)[Len(s) + 1] = m
  OBVIOUS
<1> QED BY <1>1 DEF BeginsLead, HasBegin, OnlyBegins

LEMMA EmptyQueue ==
  <<>> \in Seq(Packets) /\ BeginsLead(<<>>) /\ ~HasBegin(<<>>) /\ OnlyBegins(<<>>)
BY DEF BeginsLead, HasBegin, OnlyBegins

-----------------------------------------------------------------------------
(* What the steps have in common.                                          *)

\* A broadcast keeps the queues in order and brings a BEGIN to nobody but in
\* the first phase.
LEMMA BroadcastHolds ==
  ASSUME IInv, NEW m \in Packets, Broadcast(m),
         m.t = "begin" <=> pc = "begin",
         pc' = "begin" => pc = "begin"
  PROVE  /\ inq' \in [Nodes -> Seq(Packets)] /\ losses' \in 0..MaxLoss
         /\ BeginsFirst'
         /\ \A n \in Nodes : ExpectsBegin(n)' => ExpectsBegin(n)
<1> USE DEF IInv, TypeOK
<1>1. PICK missed \in SUBSET Nodes :
        /\ losses' = losses + Cardinality(missed)
        /\ losses' <= MaxLoss
        /\ inq' = [n \in Nodes |-> IF n \in missed \/ Len(inq[n]) >= RxDepth
                                   THEN inq[n] ELSE Append(inq[n], m)]
  BY DEF Broadcast
<1>2. Cardinality(missed) \in Nat
  BY FS_Subset, FS_CardinalityType
<1>3. losses' \in 0..MaxLoss
  BY <1>1, <1>2
<1>4. ASSUME NEW n \in Nodes
      PROVE  /\ inq'[n] \in Seq(Packets) /\ BeginsLead(inq'[n])
             /\ pc' = "begin" => OnlyBegins(inq'[n])
             /\ ExpectsBegin(n)' => ExpectsBegin(n)
  <2>1. /\ inq[n] \in Seq(Packets) /\ BeginsLead(inq[n])
        /\ pc = "begin" => OnlyBegins(inq[n])
    BY DEF BeginsFirst
  <2>2. CASE inq'[n] = inq[n]
    BY <2>1, <2>2 DEF ExpectsBegin
  <2>3. CASE inq'[n] = Append(inq[n], m)
    BY <2>1, <2>3, AddOne DEF ExpectsBegin
  <2> QED BY <1>1, <2>2, <2>3
<1> QED BY <1>1, <1>3, <1>4 DEF BeginsFirst

\* The answers stay reliable while chunks are added, partitions are given up
\* and one more reliable answer is sent.
LEMMA AnswersHold ==
  ASSUME IInv,
         \A n \in Nodes : ExpectsBegin(n)' => ExpectsBegin(n),
         \A n \in Nodes : rx'[n].active =>
           ExpectsBegin(n) \/ (rx[n].active /\ rx[n].bits \subseteq rx'[n].bits),
         \/ ackq' = ackq
         \/ \E a \in Answers : ackq' = Append(ackq, a) /\ Reliable(a.n, a)',
         UNCHANGED prog
  PROVE  AnswersReliable' /\ ackq' \in Seq(Answers)
<1> USE DEF IInv, TypeOK
<1>1. ASSUME NEW n \in Nodes, NEW a, a.next \in 0..Chunks, Reliable(n, a)
      PROVE  Reliable(n, a)'
  <2>1. CASE ExpectsBegin(n)
    BY <1>1, <2>1 DEF Reliable, Seqs
  <2>2. CASE ~ExpectsBegin(n)
    BY <1>1, <2>2 DEF Reliable
  <2> QED BY <2>1, <2>2
<1>2. \A n \in Nodes : prog'[n].seen => Reliable(n, prog[n])'
  BY <1>1 DEF AnswersReliable
<1>3. \A k \in DOMAIN ackq : \A a : a = ackq[k] => a.n \in Nodes /\ Reliable(a.n, a)'
  <2>1. \A k \in DOMAIN ackq : ackq[k].n \in Nodes /\ ackq[k].next \in 0..Chunks
    <3>1. \A k \in DOMAIN ackq : ackq[k] \in Answers
      OBVIOUS
    <3> QED BY <3>1 DEF Answers
  <2>2. \A k \in DOMAIN ackq : \A a : a = ackq[k] => Reliable(a.n, a)
    BY DEF AnswersReliable
  <2> QED BY <1>1, <2>1, <2>2
<1>4. CASE ackq' = ackq
  <2>1. \A k \in DOMAIN ackq' : Reliable(ackq[k].n, ackq[k])'
    BY <1>3, <1>4
  <2> QED BY <1>2, <1>4, <2>1 DEF AnswersReliable
<1>5. ASSUME NEW a \in Answers, ackq' = Append(ackq, a), Reliable(a.n, a)'
      PROVE  AnswersReliable' /\ ackq' \in Seq(Answers)
  <2>1. /\ ackq' \in Seq(Answers)
        /\ \A k \in DOMAIN ackq' : (k \in DOMAIN ackq /\ ackq'[k] = ackq[k])
                                   \/ ackq'[k] = a
    BY <1>5
  <2>2. \A k \in DOMAIN ackq' : \A b : b = ackq'[k] => Reliable(b.n, b)'
    BY <1>3, <1>5, <2>1
  <2>3. \A k \in DOMAIN ackq' : Reliable(ackq[k].n, ackq[k])'
    BY <2>2
  <2> QED BY <1>2, <2>1, <2>3 DEF AnswersReliable
<1> QED BY <1>4, <1>5

\* Sending an answer.
LEMMA AckHolds ==
  ASSUME TypeOK, NEW n \in Nodes, NEW status \in Statuses, NEW c \in 0..Chunks,
         Ack(n, status, c)
  PROVE  /\ losses' \in 0..MaxLoss
         /\ \/ ackq' = ackq
            \/ \E a \in Answers : /\ a.n = n /\ a.status = status /\ a.next = c
                                  /\ ackq' = Append(ackq, a)
<1>1. [n |-> n, status |-> status, next |-> c] \in Answers
  BY DEF Answers
<1> QED BY <1>1 DEF Ack, TypeOK

\* A node takes a packet out of its queue.
LEMMA TakenHolds ==
  ASSUME IInv, NEW n \in Nodes, NEW t, Receive(n, t), Taken(n), UNCHANGED pc
  PROVE  /\ inq' \in [Nodes -> Seq(Packets)] /\ BeginsFirst'
         /\ \A m \in Nodes : ExpectsBegin(m)' => ExpectsBegin(m)
         /\ Head(inq[n]) \in Packets
         /\ t = "begin" <=> ExpectsBegin(n)
<1> USE DEF IInv, TypeOK, Receive, Taken
<1>1. /\ inq[n] \in Seq(Packets) /\ inq[n] # <<>> /\ BeginsLead(inq[n])
      /\ pc = "begin" => OnlyBegins(inq[n])
  BY DEF BeginsFirst
<1>2. inq' = [inq EXCEPT ![n] = Tail(inq[n])]
  OBVIOUS
<1>3. /\ Head(inq[n]) \in Packets /\ Tail(inq[n]) \in Seq(Packets)
      /\ BeginsLead(Tail(inq[n]))
      /\ HasBegin(Tail(inq[n])) => HasBegin(inq[n])
      /\ OnlyBegins(inq[n]) => OnlyBegins(Tail(inq[n])) /\ t = "begin"
      /\ t = "begin" => HasBegin(inq[n])
      /\ t # "begin" => ~HasBegin(inq[n])
  BY <1>1, TakeOne
<1>4. \A m \in Nodes : /\ BeginsLead(inq'[m])
                       /\ pc = "begin" => OnlyBegins(inq'[m])
                       /\ HasBegin(inq'[m]) => HasBegin(inq[m])
  BY <1>1, <1>2, <1>3 DEF BeginsFirst
<1> QED BY <1>1, <1>2, <1>3, <1>4 DEF BeginsFirst, ExpectsBegin

-----------------------------------------------------------------------------
(* The steps.                                                              *)

LEMMA InitHolds == Init => IInv
<1> SUFFICES ASSUME Init PROVE IInv
  OBVIOUS
<1> USE DEF Init
<1>1. TypeOK
  <2>1. <<>> \in Seq(Packets) /\ <<>> \in Seq(Answers)
    OBVIOUS
  <2>2. NotSeen \in [seen : BOOLEAN, status : Statuses, next : 0..Chunks]
    BY DEF NotSeen, Statuses
  <2>3. NoRx \in [active : BOOLEAN, bits : SUBSET Seqs, count : 0..Chunks]
    BY DEF NoRx
  <2>4. Image(0) \in [Seqs -> Vers]
    BY DEF Image, Vers
  <2>5. ver \in Sent /\ round \in 0..Rounds /\ losses \in 0..MaxLoss /\ i \in Nat
    BY DEF Sent
  <2> QED BY <2>1, <2>2, <2>3, <2>4, <2>5 DEF TypeOK
<1>2. BeginsFirst
  BY EmptyQueue DEF BeginsFirst
<1>3. AnswersReliable
  BY DEF AnswersReliable, NotSeen
<1>4. BitsCounted /\ BitsWritten
  BY FS_EmptySet DEF BitsCounted, BitsWritten, NoRx
<1>5. RoundsLeft
  BY DEF RoundsLeft
<1> QED BY <1>1, <1>2, <1>3, <1>4, <1>5 DEF IInv

\* A broadcast of the relay task.
LEMMA SendHolds ==
  ASSUME IInv, NEW m \in Packets, Broadcast(m), m.t = "begin" <=> pc = "begin",
         pc' = "begin" => pc = "begin", pc' \in {"begin", "data", "check", "finished"},
         i' \in Nat, RoundsLeft', UNCHANGED <<round, ver, allDone, prog, nodes, ackq>>
  PROVE  IInv'
<1>1. /\ inq' \in [Nodes -> Seq(Packets)] /\ losses' \in 0..MaxLoss /\ BeginsFirst'
      /\ \A n \in Nodes : ExpectsBegin(n)' => ExpectsBegin(n)
  BY BroadcastHolds
<1>2. rx' = rx /\ part' = part /\ boot' = boot /\ ackq' = ackq /\ prog' = prog
  BY DEF nodes
<1>3. AnswersReliable'
  BY <1>1, <1>2, AnswersHold
<1>4. TypeOK'
  BY <1>1, <1>2 DEF IInv, TypeOK
<1> QED BY <1>1, <1>2, <1>3, <1>4 DEF IInv, BitsCounted, BitsWritten

LEMMA RelayHolds == IInv /\ Relay => IInv'
<1> SUFFICES ASSUME IInv, Relay PROVE IInv'
  OBVIOUS
<1>0. 0 \in Seqs /\ ver \in Sent
  BY DEF Seqs, IInv, TypeOK
<1>1. CASE SendBegin
  <2>1. Begin \in Packets /\ Begin.t = "begin"
    BY <1>0 DEF Begin, Packets
  <2> QED BY <1>1, <2>1, SendHolds DEF SendBegin, IInv, TypeOK, RoundsLeft
<1>2. CASE SendChunk
  <2>1. i \in Seqs
    BY <1>2 DEF SendChunk, IInv, TypeOK, Seqs
  <2>2. Data(i) \in Packets /\ Data(i).t = "data"
    BY <1>0, <2>1 DEF Data, Packets
  <2> QED BY <1>2, <2>2, SendHolds DEF SendChunk, IInv, TypeOK, RoundsLeft
<1>3. CASE SendEnd /\ pc' = "check"
  <2>1. End \in Packets /\ End.t = "end"
    BY <1>0 DEF End, Packets
  <2>2. Broadcast(End)
    BY <1>3 DEF SendEnd
  <2> QED BY <1>3, <2>1, <2>2, SendHolds DEF SendEnd, IInv, TypeOK, RoundsLeft
<1>4. CASE BeginSent \/ CheckRound \/ (SendEnd /\ pc' # "check")
  <2>1. /\ pc' \in {"data", "finished"} /\ i' \in Nat /\ round' \in 0..Rounds
        /\ allDone' \in BOOLEAN
        /\ UNCHANGED <<ver, prog, nodes, inq, ackq, losses>>
    <3>1. CASE BeginSent
      BY <3>1 DEF BeginSent, IInv, TypeOK
    <3>2. CASE SendEnd /\ pc' # "check"
      BY <3>2 DEF SendEnd, IInv, TypeOK
    <3>3. CASE CheckRound
      <4>1. round < Rounds
        BY <3>3 DEF CheckRound, IInv, RoundsLeft
      <4>2. round' \in 0..Rounds
        BY <3>3, <4>1 DEF CheckRound, IInv, TypeOK
      <4>3. i' \in Nat /\ pc' \in {"data", "finished"} /\ allDone' \in BOOLEAN
        <5>1. \A next \in 0..Chunks : next \in Nat
          OBVIOUS
        <5> QED BY <3>3, <5>1 DEF CheckRound, IInv, TypeOK
      <4>4. UNCHANGED <<ver, prog, nodes, inq, ackq, losses>>
        BY <3>3 DEF CheckRound
      <4> QED BY <4>2, <4>3, <4>4
    <3> QED BY <1>4, <3>1, <3>2, <3>3
  <2>2. rx' = rx /\ part' = part /\ boot' = boot /\ prog' = prog
        /\ ackq' = ackq /\ inq' = inq /\ ver' = ver /\ losses' = losses
    BY <2>1 DEF nodes
  <2>3. BeginsFirst' /\ \A n \in Nodes : ExpectsBegin(n)' => ExpectsBegin(n)
    BY <2>1, <2>2 DEF IInv, BeginsFirst, ExpectsBegin
  <2>4. AnswersReliable'
    BY <2>2, <2>3, AnswersHold
  <2>5. TypeOK'
    BY <2>1, <2>2 DEF IInv, TypeOK
  <2>6. RoundsLeft'
    BY <2>1 DEF RoundsLeft
  <2> QED BY <2>2, <2>3, <2>4, <2>5, <2>6 DEF IInv, BitsCounted, BitsWritten
<1> QED BY <1>1, <1>2, <1>3, <1>4 DEF Relay

\* A new relay starts with empty queues and no answers.
LEMMA NextRelayHolds == IInv /\ NextRelay => IInv'
<1> SUFFICES ASSUME IInv, NextRelay PROVE IInv'
  OBVIOUS
<1>1. /\ rx' = rx /\ part' = part /\ boot' = boot /\ inq' = inq
      /\ losses' = losses /\ ackq' = <<>> /\ \A n \in Nodes : inq[n] = <<>>
      /\ prog' = [n \in Nodes |-> NotSeen]
  BY DEF NextRelay, nodes
<1>2. TypeOK'
  <2>1. NotSeen \in [seen : BOOLEAN, status : Statuses, next : 0..Chunks]
    BY DEF NotSeen, Statuses
  <2>2. ver' \in Sent
    BY DEF NextRelay, IInv, TypeOK, Sent
  <2>3. ackq' \in Seq(Answers)
    BY <1>1
  <2>4. pc' = "begin" /\ i' = 0 /\ round' \in 0..Rounds /\ allDone' = FALSE
    BY DEF NextRelay
  <2> QED BY <1>1, <2>1, <2>2, <2>3, <2>4 DEF IInv, TypeOK
<1>3. BeginsFirst'
  BY <1>1, EmptyQueue DEF BeginsFirst
<1>4. AnswersReliable'
  BY <1>1 DEF AnswersReliable, NotSeen
<1>5. RoundsLeft'
  BY DEF NextRelay, RoundsLeft
<1> QED BY <1>1, <1>2, <1>3, <1>4, <1>5 DEF IInv, BitsCounted, BitsWritten

\* The manager takes an answer over.
LEMMA OnAckHolds == IInv /\ otaInitOnAck => IInv'
<1> SUFFICES ASSUME IInv, otaInitOnAck PROVE IInv'
  OBVIOUS
<1>1. /\ task' = task /\ rx' = rx /\ part' = part /\ boot' = boot
      /\ inq' = inq /\ losses' = losses
  BY DEF otaInitOnAck, nodes
<1> DEFINE a == Head(ackq)
<1>2. /\ ackq # <<>> /\ a \in Answers /\ a = ackq[1] /\ 1 \in DOMAIN ackq
      /\ ackq' = Tail(ackq) /\ ackq' \in Seq(Answers)
      /\ \A k \in DOMAIN ackq' : k + 1 \in DOMAIN ackq /\ ackq'[k] = ackq[k + 1]
  BY DEF otaInitOnAck, IInv, TypeOK
<1>3. \/ prog' = prog
      \/ prog' = [prog EXCEPT ![a.n] = [seen |-> TRUE, status |-> a.status,
                                        next |-> a.next]]
  BY DEF otaInitOnAck
<1>4. Reliable(a.n, a)
  BY <1>2 DEF IInv, AnswersReliable
<1> HIDE DEF a
<1>5. TypeOK'
  <2>1. a.n \in Nodes /\ a.status \in Statuses /\ a.next \in 0..Chunks
    BY <1>2 DEF Answers
  <2>2. [seen |-> TRUE, status |-> a.status, next |-> a.next]
          \in [seen : BOOLEAN, status : Statuses, next : 0..Chunks]
    BY <2>1
  <2>3. prog' \in [Nodes -> [seen : BOOLEAN, status : Statuses, next : 0..Chunks]]
    BY <1>3, <2>1, <2>2 DEF IInv, TypeOK
  <2> QED BY <1>1, <1>2, <2>3 DEF IInv, TypeOK, task
<1>6. \A n \in Nodes : ExpectsBegin(n)' <=> ExpectsBegin(n)
  BY <1>1 DEF ExpectsBegin, task
<1>7. AnswersReliable'
  <2>1. ASSUME NEW k \in DOMAIN ackq' PROVE Reliable(ackq[k].n, ackq[k])'
    <3>1. k + 1 \in DOMAIN ackq /\ ackq'[k] = ackq[k + 1] /\ ackq[k + 1] \in Answers
      BY <1>2 DEF IInv, TypeOK
    <3>2. ackq[k + 1].n \in Nodes
      BY <3>1 DEF Answers
    <3> QED BY <1>1, <1>6, <3>1, <3>2 DEF IInv, AnswersReliable, Reliable
  <2>2. ASSUME NEW n \in Nodes, prog'[n].seen PROVE Reliable(n, prog[n])'
    <3>1. CASE prog'[n] = prog[n]
      BY <1>1, <1>6, <2>2, <3>1 DEF IInv, AnswersReliable, Reliable
    <3>2. CASE n = a.n /\ prog'[n] = [seen |-> TRUE, status |-> a.status, next |-> a.next]
      BY <1>1, <1>4, <1>6, <3>2 DEF Reliable
    <3> QED BY <1>3, <3>1, <3>2 DEF IInv, TypeOK
  <2> QED BY <2>1, <2>2 DEF AnswersReliable
<1>8. BeginsFirst'
  BY <1>1 DEF IInv, BeginsFirst, task
<1>9. RoundsLeft'
  BY <1>1 DEF IInv, RoundsLeft, task
<1> QED BY <1>1, <1>5, <1>7, <1>8, <1>9 DEF IInv, BitsCounted, BitsWritten

\* A step of a node that takes a packet, answers it reliably, and keeps what
\* its bits stand for.
LEMMA NodeStepHolds ==
  ASSUME IInv, NEW n \in Nodes, NEW t, Receive(n, t), Taken(n),
         UNCHANGED <<task, prog>>,
         losses' \in 0..MaxLoss,
         rx' \in [Nodes -> [active : BOOLEAN, bits : SUBSET Seqs, count : 0..Chunks]],
         part' \in [Nodes -> [Seqs -> Vers]], boot' \in [Nodes -> [Seqs -> Vers]],
         BitsCounted', BitsWritten',
         \A m \in Nodes \ {n} : rx'[m] = rx[m],
         t = "begin" \/ (rx'[n].active => rx[n].active /\ rx[n].bits \subseteq rx'[n].bits),
         \/ ackq' = ackq
         \/ \E a \in Answers : /\ a.n = n /\ a.status # "DONE"
                               /\ t = "begin" => a.next = 0
                               /\ \A c \in Seqs \ rx'[n].bits : rx'[n].active => a.next <= c
                               /\ ackq' = Append(ackq, a)
  PROVE  IInv'
<1>1. pc' = pc /\ prog' = prog /\ round' = round /\ ver' = ver /\ i' = i
      /\ allDone' = allDone
  BY DEF task
<1>2. /\ inq' \in [Nodes -> Seq(Packets)] /\ BeginsFirst'
      /\ \A m \in Nodes : ExpectsBegin(m)' => ExpectsBegin(m)
      /\ t = "begin" <=> ExpectsBegin(n)
  BY <1>1, TakenHolds
<1>3. \A m \in Nodes : rx'[m].active =>
        ExpectsBegin(m) \/ (rx[m].active /\ rx[m].bits \subseteq rx'[m].bits)
  BY <1>2
<1>4. \/ ackq' = ackq
      \/ \E a \in Answers : ackq' = Append(ackq, a) /\ Reliable(a.n, a)'
  BY <1>2 DEF Reliable
<1>5. AnswersReliable' /\ ackq' \in Seq(Answers)
  BY <1>1, <1>2, <1>3, <1>4, AnswersHold
<1>6. TypeOK' /\ RoundsLeft'
  BY <1>1, <1>2, <1>5 DEF IInv, TypeOK, RoundsLeft
<1> QED BY <1>2, <1>5, <1>6 DEF IInv

\* A new chunk is counted once.
LEMMA CountHolds ==
  ASSUME IInv, NEW n \in Nodes, NEW c \in Seqs \ rx[n].bits
  PROVE  /\ rx[n].count + 1 = Cardinality(rx[n].bits \cup {c})
         /\ rx[n].count + 1 \in 0..Chunks
<1>1. /\ IsFiniteSet(Seqs) /\ Cardinality(Seqs) = Chunks
      /\ rx[n].bits \in SUBSET Seqs /\ rx[n].bits \cup {c} \in SUBSET Seqs
  <2>1. IsFiniteSet(0 .. Chunks - 1) /\ Cardinality(0 .. Chunks - 1) = Chunks
    BY SMTT(30), FS_Interval
  <2>2. rx[n].bits \in SUBSET Seqs
    BY DEF IInv, TypeOK
  <2> QED BY <2>1, <2>2 DEF Seqs
<1>2. IsFiniteSet(rx[n].bits) /\ Cardinality(rx[n].bits \cup {c}) <= Chunks
  BY <1>1, FS_Subset
<1>3. Cardinality(rx[n].bits \cup {c}) = Cardinality(rx[n].bits) + 1
  BY <1>2, FS_AddElement
<1>4. Cardinality(rx[n].bits) \in Nat
  BY <1>2, FS_CardinalityType
<1> QED BY <1>2, <1>3, <1>4 DEF IInv, BitsCounted

LEMMA BeginHolds ==
  ASSUME IInv, NEW n \in Nodes, otaRxBegin(n)
  PROVE  IInv'
<1> DEFINE t == "begin"
<1>1. /\ Receive(n, t) /\ Taken(n) /\ UNCHANGED <<boot, task, prog>>
  BY DEF otaRxBegin
<1>2. PICK r, status : /\ status \in {"READY", "ERR"} /\ Ack(n, status, 0)
                       /\ r \in {NoRx, [NoRx EXCEPT !.active = TRUE]}
                       /\ rx' = [rx EXCEPT ![n] = r]
                       /\ part' \in {part, [part EXCEPT ![n] = Image(0)]}
  BY DEF otaRxBegin
<1>3. r \in [active : BOOLEAN, bits : SUBSET Seqs, count : 0..Chunks]
      /\ r.bits = {} /\ r.count = 0
  <2>1. CASE r = NoRx
    BY <2>1 DEF NoRx
  <2>2. CASE r = [NoRx EXCEPT !.active = TRUE]
    <3>1. r = [active |-> TRUE, bits |-> {}, count |-> 0]
      BY <2>2 DEF NoRx
    <3> QED BY <3>1
  <2> QED BY <1>2, <2>1, <2>2
<1>4. /\ losses' \in 0..MaxLoss
      /\ \/ ackq' = ackq
         \/ \E a \in Answers : /\ a.n = n /\ a.status = status /\ a.next = 0
                               /\ ackq' = Append(ackq, a)
  BY <1>2, AckHolds DEF IInv, Statuses
<1>5. /\ rx' \in [Nodes -> [active : BOOLEAN, bits : SUBSET Seqs, count : 0..Chunks]]
      /\ rx'[n].bits = {} /\ rx'[n].count = 0
      /\ \A m \in Nodes \ {n} : rx'[m] = rx[m]
  BY <1>2, <1>3 DEF IInv, TypeOK
<1>6. /\ part' \in [Nodes -> [Seqs -> Vers]]
      /\ \A m \in Nodes \ {n} : part'[m] = part[m]
  <2>1. Image(0) \in [Seqs -> Vers]
    BY DEF Image, Vers
  <2> QED BY ZenonT(40), <1>2, <2>1 DEF IInv, TypeOK
<1>7. BitsCounted' /\ BitsWritten'
  <2>1. rx'[n].count = Cardinality(rx'[n].bits)
    BY <1>5, FS_EmptySet
  <2>2. \A m \in Nodes \ {n} : rx'[m].count = Cardinality(rx'[m].bits)
    BY <1>5 DEF IInv, BitsCounted
  <2>3. \A m \in Nodes : \A c \in rx'[m].bits : part'[m][c] # 0
    BY <1>5, <1>6 DEF IInv, BitsWritten
  <2> QED BY <2>1, <2>2, <2>3 DEF BitsCounted, BitsWritten
<1>8. \A c \in Seqs : 0 <= c
  BY DEF Seqs
<1>9. boot' \in [Nodes -> [Seqs -> Vers]]
  BY <1>1 DEF IInv, TypeOK
<1> QED BY <1>1, <1>2, <1>4, <1>5, <1>6, <1>7, <1>8, <1>9, NodeStepHolds

LEMMA DataHolds ==
  ASSUME IInv, NEW n \in Nodes, otaRxData(n)
  PROVE  IInv'
<1> DEFINE m == Head(inq[n])
<1>1. Receive(n, "data") /\ Taken(n) /\ UNCHANGED <<boot, task, prog>>
  BY DEF otaRxData
<1>2. m \in Packets /\ m.seq \in Seqs /\ m.v \in Vers /\ m.v # 0
  <2>1. m \in Packets
    BY <1>1, TakenHolds DEF task
  <2> QED BY <2>1 DEF Packets, Sent, Vers
<1>3. boot' \in [Nodes -> [Seqs -> Vers]]
  BY <1>1 DEF IInv, TypeOK
<1>4. CASE ~New(n) /\ UNCHANGED <<rx, part, ackq, losses>>
  <2>1. BitsCounted' /\ BitsWritten'
    BY <1>4 DEF IInv, BitsCounted, BitsWritten
  <2>2. /\ rx' = rx /\ part' = part /\ ackq' = ackq /\ losses' = losses
        /\ rx \in [Nodes -> [active : BOOLEAN, bits : SUBSET Seqs, count : 0..Chunks]]
        /\ part \in [Nodes -> [Seqs -> Vers]] /\ losses \in 0..MaxLoss
    BY <1>4 DEF IInv, TypeOK
  <2> QED BY <1>1, <1>3, <2>1, <2>2, NodeStepHolds
<1>5. CASE /\ New(n) /\ Ack(n, "ERR", otaFirstMissing(n)) /\ UNCHANGED <<rx, part>>
  <2>1. BitsCounted' /\ BitsWritten'
    BY <1>5 DEF IInv, BitsCounted, BitsWritten
  <2>2. /\ otaFirstMissing(n) \in 0..Chunks
        /\ \A c \in Seqs \ rx[n].bits : otaFirstMissing(n) <= c
    BY FirstMissing DEF IInv
  <2>3. /\ losses' \in 0..MaxLoss
        /\ \/ ackq' = ackq
           \/ \E a \in Answers : /\ a.n = n /\ a.status = "ERR"
                                 /\ a.next = otaFirstMissing(n)
                                 /\ ackq' = Append(ackq, a)
    BY <1>5, <2>2, AckHolds DEF IInv, Statuses
  <2>4. /\ rx' = rx /\ part' = part
        /\ rx \in [Nodes -> [active : BOOLEAN, bits : SUBSET Seqs, count : 0..Chunks]]
        /\ part \in [Nodes -> [Seqs -> Vers]]
    BY <1>5 DEF IInv, TypeOK
  <2> QED BY <1>1, <1>3, <2>1, <2>2, <2>3, <2>4, NodeStepHolds
<1>6. CASE /\ New(n)
           /\ part' = [part EXCEPT ![n][m.seq] = m.v]
           /\ rx' = [rx EXCEPT ![n].bits = @ \cup {m.seq}, ![n].count = @ + 1]
           /\ \/ UNCHANGED <<ackq, losses>>
              \/ Ack(n, "RECEIVING", otaFirstMissing(n)')
  <2>1. m.seq \in Seqs \ rx[n].bits
    BY <1>2, <1>6 DEF New
  <2>2. /\ rx[n].count + 1 = Cardinality(rx[n].bits \cup {m.seq})
        /\ rx[n].count + 1 \in 0..Chunks
    BY <2>1, CountHolds
  <2> DEFINE RxType == [active : BOOLEAN, bits : SUBSET Seqs, count : 0..Chunks]
  <2>3. /\ rx \in [Nodes -> RxType] /\ part \in [Nodes -> [Seqs -> Vers]]
        /\ losses \in 0..MaxLoss
    BY DEF IInv, TypeOK
  <2>4. /\ rx'[n] = [rx[n] EXCEPT !.bits = @ \cup {m.seq}, !.count = @ + 1]
        /\ \A k \in Nodes \ {n} : rx'[k] = rx[k]
    BY <1>6, <2>3
  <2>5. /\ rx'[n].active = rx[n].active /\ rx'[n].bits = rx[n].bits \cup {m.seq}
        /\ rx'[n].count = rx[n].count + 1
    BY <2>3, <2>4
  <2>6. rx' \in [Nodes -> RxType]
    BY <1>2, <1>6, <2>2, <2>3
  <2>7. /\ part' \in [Nodes -> [Seqs -> Vers]]
        /\ part'[n][m.seq] = m.v
        /\ \A c \in Seqs \ {m.seq} : part'[n][c] = part[n][c]
        /\ \A k \in Nodes \ {n} : part'[k] = part[k]
    BY <1>2, <1>6, <2>3
  <2>8. BitsCounted'
    BY <2>2, <2>4, <2>5 DEF IInv, BitsCounted
  <2>9. BitsWritten'
    <3>1. \A c \in rx'[n].bits : part'[n][c] # 0
      BY <1>2, <2>3, <2>5, <2>7 DEF IInv, BitsWritten
    <3>2. \A k \in Nodes \ {n} : \A c \in rx'[k].bits : part'[k][c] # 0
      BY <2>4, <2>7 DEF IInv, BitsWritten
    <3> QED BY <3>1, <3>2 DEF BitsWritten
  <2>10. /\ losses' \in 0..MaxLoss
         /\ \/ ackq' = ackq
            \/ \E a \in Answers :
                 /\ a.n = n /\ a.status = "RECEIVING"
                 /\ \A c \in Seqs \ rx'[n].bits : a.next <= c
                 /\ ackq' = Append(ackq, a)
    <3> DEFINE f == otaFirstMissing(n)'
    <3>1. f \in 0..Chunks /\ \A c \in Seqs \ rx'[n].bits : f <= c
      BY <2>5, <2>6, NextFirstMissing
    <3> HIDE DEF f
    <3>2. CASE UNCHANGED <<ackq, losses>>
      BY <2>3, <3>2
    <3>3. CASE Ack(n, "RECEIVING", f)
      BY <3>1, <3>3, AckHolds DEF IInv, Statuses
    <3> QED BY <1>6, <3>2, <3>3 DEF f
  <2>11. rx'[n].active => rx[n].active /\ rx[n].bits \subseteq rx'[n].bits
    BY <2>5
  <2> HIDE DEF m
  <2> QED BY ZenonT(40), <1>1, <1>3, <2>4, <2>6, <2>7, <2>8, <2>9, <2>10, <2>11, NodeStepHolds
<1> QED BY <1>4, <1>5, <1>6 DEF otaRxData

LEMMA EndHolds ==
  ASSUME IInv, NEW n \in Nodes, EndResume(n) \/ EndFails(n)
  PROVE  IInv'
<1>1. Receive(n, "end") /\ Taken(n) /\ UNCHANGED <<boot, part, task, prog>>
  <2>1. CASE EndResume(n)
    BY <2>1 DEF EndResume, nodes
  <2>2. CASE EndFails(n)
    BY <2>2 DEF EndFails, Complete
  <2> QED BY <2>1, <2>2
<1>2. PICK r : /\ r \in {rx[n], [rx[n] EXCEPT !.active = FALSE]}
               /\ rx' = [rx EXCEPT ![n] = r]
               /\ rx[n].active /\ r # rx[n] => Ack(n, "ERR", 0)
               /\ rx[n].active /\ r = rx[n] =>
                    Ack(n, "RESUME", otaFirstMissing(n)) \/ Ack(n, "ERR", 0)
               /\ ~rx[n].active => UNCHANGED <<ackq, losses>>
  <2>1. CASE EndResume(n)
    <3>1. rx' = [rx EXCEPT ![n] = rx[n]]
      BY <2>1 DEF EndResume, nodes, IInv, TypeOK
    <3> QED BY <2>1, <3>1 DEF EndResume
  <2>2. CASE EndFails(n)
    BY <2>2 DEF EndFails, Complete
  <2> QED BY <2>1, <2>2
<1> DEFINE RxType == [active : BOOLEAN, bits : SUBSET Seqs, count : 0..Chunks]
<1>3. r \in RxType /\ r.bits = rx[n].bits /\ r.count = rx[n].count
      /\ (r.active => rx[n].active)
  <2>1. rx[n] \in RxType
    BY DEF IInv, TypeOK
  <2> QED BY <1>2, <2>1
<1>4. /\ rx' \in [Nodes -> RxType] /\ rx'[n] = r
      /\ \A k \in Nodes \ {n} : rx'[k] = rx[k]
  BY <1>2, <1>3 DEF IInv, TypeOK
<1>5. /\ part' = part /\ boot' = boot
      /\ part \in [Nodes -> [Seqs -> Vers]] /\ boot \in [Nodes -> [Seqs -> Vers]]
  BY <1>1 DEF IInv, TypeOK
<1>6. BitsCounted' /\ BitsWritten'
  BY <1>3, <1>4, <1>5 DEF IInv, BitsCounted, BitsWritten
<1>7. /\ otaFirstMissing(n) \in 0..Chunks
      /\ \A c \in Seqs \ rx[n].bits : otaFirstMissing(n) <= c
  BY FirstMissing
<1>8. /\ losses' \in 0..MaxLoss
      /\ \/ ackq' = ackq
         \/ \E a \in Answers : /\ a.n = n /\ a.status # "DONE"
                               /\ \A c \in Seqs \ rx[n].bits : a.next <= c
                               /\ ackq' = Append(ackq, a)
  <2>1. \A c \in Seqs : 0 <= c
    BY DEF Seqs
  <2>2. CASE Ack(n, "ERR", 0)
    BY <2>1, <2>2, AckHolds DEF IInv, Statuses
  <2>3. CASE Ack(n, "RESUME", otaFirstMissing(n))
    BY <1>7, <2>3, AckHolds DEF IInv, Statuses
  <2>4. CASE UNCHANGED <<ackq, losses>>
    BY <2>4 DEF IInv, TypeOK
  <2> QED BY <1>2, <2>2, <2>3, <2>4
<1> HIDE DEF RxType
<1>9. rx'[n].active => rx[n].active /\ rx[n].bits \subseteq rx'[n].bits
  BY <1>3, <1>4
<1> QED BY <1>1, <1>3, <1>4, <1>5, <1>6, <1>8, <1>9, NodeStepHolds DEF RxType

\* A node that boots the image or restarts has left the relay; only the
\* former is an answer, and no BEGIN is left for the node then.
LEMMA LeaveHolds ==
  ASSUME IInv, NEW n \in Nodes, EndBoots(n) \/ NodeRestart(n)
  PROVE  IInv'
<1>1. /\ rx' = [rx EXCEPT ![n] = NoRx] /\ inq' = [inq EXCEPT ![n] = <<>>]
      /\ UNCHANGED <<part, task, prog>>
      /\ boot' = [boot EXCEPT ![n] = part[n]] \/ boot' = boot
  BY DEF EndBoots, NodeRestart
<1>2. pc' = pc /\ prog' = prog /\ round' = round /\ ver' = ver /\ i' = i
      /\ allDone' = allDone
  BY <1>1 DEF task
<1> DEFINE RxType == [active : BOOLEAN, bits : SUBSET Seqs, count : 0..Chunks]
<1>3. NoRx \in RxType /\ NoRx.bits = {} /\ NoRx.count = 0 /\ NoRx.active = FALSE
  BY DEF NoRx
<1>4. /\ rx' \in [Nodes -> RxType] /\ rx'[n] = NoRx
      /\ \A k \in Nodes \ {n} : rx'[k] = rx[k]
  BY <1>1, <1>3 DEF IInv, TypeOK
<1>5. /\ inq' \in [Nodes -> Seq(Packets)] /\ inq'[n] = <<>>
      /\ \A k \in Nodes \ {n} : inq'[k] = inq[k]
  BY <1>1, EmptyQueue DEF IInv, TypeOK
<1>6. BeginsFirst' /\ \A m \in Nodes : ExpectsBegin(m)' => ExpectsBegin(m)
  BY <1>2, <1>5, EmptyQueue DEF IInv, BeginsFirst, ExpectsBegin
<1>7. BitsCounted' /\ BitsWritten'
  <2>1. rx'[n].count = Cardinality(rx'[n].bits) /\ rx'[n].bits = {}
    BY <1>3, <1>4, FS_EmptySet
  <2> QED BY <1>1, <1>4, <2>1 DEF IInv, BitsCounted, BitsWritten
<1>8. /\ losses' \in 0..MaxLoss
      /\ \/ ackq' = ackq
         \/ \E a \in Answers : ackq' = Append(ackq, a) /\ Reliable(a.n, a)'
  <2>1. CASE EndBoots(n)
    <3>1. Receive(n, "end") /\ Ack(n, "DONE", 0)
      BY <2>1 DEF EndBoots, Complete
    <3>2. ~ExpectsBegin(n)
      <4>1. inq[n] \in Seq(Packets) /\ inq[n] # <<>> /\ BeginsLead(inq[n])
            /\ (pc = "begin" => OnlyBegins(inq[n])) /\ Head(inq[n]).t = "end"
        BY <3>1 DEF Receive, IInv, BeginsFirst, TypeOK
      <4> QED BY <4>1, TakeOne DEF ExpectsBegin
    <3>3. ~ExpectsBegin(n)' /\ ~rx'[n].active
      BY <1>3, <1>4, <1>6, <3>2
    <3>4. /\ losses' \in 0..MaxLoss
          /\ \/ ackq' = ackq
             \/ \E a \in Answers : a.n = n /\ ackq' = Append(ackq, a)
      BY <3>1, AckHolds DEF IInv, Statuses
    <3> QED BY <3>3, <3>4 DEF Reliable
  <2>2. CASE NodeRestart(n)
    BY <2>2 DEF NodeRestart, IInv, TypeOK
  <2> QED BY <2>1, <2>2
<1>9. \A m \in Nodes : rx'[m].active =>
        ExpectsBegin(m) \/ (rx[m].active /\ rx[m].bits \subseteq rx'[m].bits)
  BY <1>3, <1>4
<1>10. AnswersReliable' /\ ackq' \in Seq(Answers)
  BY <1>2, <1>6, <1>8, <1>9, AnswersHold
<1>11. TypeOK' /\ RoundsLeft'
  <2>1. boot' \in [Nodes -> [Seqs -> Vers]]
    BY <1>1 DEF IInv, TypeOK
  <2> QED BY <1>1, <1>2, <1>4, <1>5, <1>8, <1>10, <2>1 DEF IInv, TypeOK, RoundsLeft
<1> QED BY <1>6, <1>7, <1>10, <1>11 DEF IInv

\* The relay's inductive invariant.
LEMMA StepHolds == IInv /\ [Next]_vars => IInv'
<1> SUFFICES ASSUME IInv, [Next]_vars PROVE IInv'
  OBVIOUS
<1>1. CASE UNCHANGED vars
  <2>1. /\ pc' = pc /\ i' = i /\ round' = round /\ ver' = ver /\ allDone' = allDone
        /\ prog' = prog /\ rx' = rx /\ part' = part /\ boot' = boot
        /\ inq' = inq /\ ackq' = ackq /\ losses' = losses
    BY <1>1 DEF vars, task, nodes
  <2> QED BY <2>1 DEF IInv, TypeOK, RoundsLeft, BeginsFirst, AnswersReliable,
                      Reliable, ExpectsBegin, BitsCounted, BitsWritten
<1>2. ASSUME NEW n \in Nodes, NodeStep(n) \/ NodeRestart(n) PROVE IInv'
  BY <1>2, BeginHolds, DataHolds, EndHolds, LeaveHolds DEF NodeStep, otaRxEnd
<1> QED BY <1>1, <1>2, RelayHolds, NextRelayHolds, OnAckHolds DEF Next

LEMMA Holds == Spec => []IInv
BY InitHolds, StepHolds, PTL DEF Spec

-----------------------------------------------------------------------------
(* The results.                                                            *)

\* Type correctness of the manager, the nodes and the packets between them.
THEOREM TypeCorrect == Spec => []TypeOK
<1>1. IInv => TypeOK
  BY DEF IInv
<1> QED BY <1>1, Holds, PTL

\* What END finds complete by its count has been written, all of it, since
\* the partition was last erased.
THEOREM CountedIsWritten == Spec => []CountMeansWritten
<1>1. IInv => CountMeansWritten
  <2> SUFFICES ASSUME IInv, NEW n \in Nodes, rx[n].count >= Chunks, NEW c \in Seqs
               PROVE  part[n][c] # 0
    BY DEF CountMeansWritten
  <2>1. rx[n].bits \in SUBSET Seqs /\ rx[n].count \in 0..Chunks
        /\ rx[n].count = Cardinality(rx[n].bits)
    BY DEF IInv, TypeOK, BitsCounted
  <2>2. IsFiniteSet(0 .. Chunks - 1) /\ Cardinality(0 .. Chunks - 1) = Chunks
    BY FS_Interval
  <2>3. Cardinality(rx[n].bits) = Cardinality(Seqs) /\ IsFiniteSet(Seqs)
    BY <2>1, <2>2 DEF Seqs
  <2>4. rx[n].bits = Seqs
    BY <2>1, <2>3, FS_Subset
  <2> QED BY <2>4 DEF IInv, BitsWritten
<1> QED BY <1>1, Holds, PTL

\* No resend starts behind a chunk that a node in the relay still misses.
THEOREM ResendsCoverMissing == Spec => ResendCoversMissing
<1>1. ASSUME IInv, [Next]_vars, pc = "check", pc' = "data",
             NEW n \in Nodes, prog[n].seen, rx[n].active, NEW c \in Seqs \ rx[n].bits
      PROVE  i' <= c
  <2>1. CheckRound
    BY <1>1 DEF Next, Relay, NextRelay, NodeStep, otaRxEnd, otaRxBegin, otaRxData,
                EndResume, EndBoots, EndFails, NodeRestart, otaInitOnAck,
                SendBegin, BeginSent, SendChunk, SendEnd, vars, task
  <2>2. Reliable(n, prog[n])
    BY <1>1 DEF IInv, AnswersReliable
  <2>3. prog[n].status # "DONE" /\ prog[n].next <= c
    BY <1>1, <2>2 DEF Reliable
  <2>4. n \in Pending
    BY <1>1, <2>3 DEF Pending
  <2>5. i' \in 0..Chunks /\ i' <= prog[n].next
    BY <2>1, <2>4 DEF CheckRound, ResumeAt
  <2>6. prog[n].next \in 0..Chunks /\ c \in Nat
    BY <1>1 DEF IInv, TypeOK, Seqs
  <2> QED BY <2>3, <2>5, <2>6
<1> DEFINE Covered == pc = "check" /\ pc' = "data" =>
             \A n \in Nodes :
               prog[n].seen /\ rx[n].active => \A c \in Seqs \ rx[n].bits : i' <= c
<1>2. IInv /\ [Next]_vars => [Covered]_vars
  BY <1>1
<1> HIDE DEF Covered
<1>3. Spec => [][Covered]_vars
  BY <1>2, Holds, PTL DEF Spec
<1> QED BY <1>3 DEF ResendCoversMissing, Covered

-----------------------------------------------------------------------------
(* DONE, in a fleet that has only ever been sent one image.                *)

DoneBooted ==
  /\ \A k \in DOMAIN ackq : ackq[k].status = "DONE" => boot[ackq[k].n] = Image(1)
  /\ \A n \in Nodes : prog[n].seen /\ prog[n].status = "DONE" => boot[n] = Image(1)

\* Boot images stay or become the image, and an answer sent is not DONE or
\* comes from a node that boots the image.
LEMMA DoneKept ==
  ASSUME IInv, DoneBooted, UNCHANGED prog,
         \A n \in Nodes : boot'[n] = boot[n] \/ boot'[n] = Image(1),
         \/ ackq' = ackq
         \/ \E a \in Answers : /\ ackq' = Append(ackq, a)
                               /\ a.status = "DONE" => boot'[a.n] = Image(1)
  PROVE  DoneBooted'
<1>1. \A k \in DOMAIN ackq : ackq[k].n \in Nodes
  <2>1. \A k \in DOMAIN ackq : ackq[k] \in Answers
    BY DEF IInv, TypeOK
  <2> QED BY <2>1 DEF Answers
<1>2. \A k \in DOMAIN ackq' : ackq'[k].status = "DONE" => boot'[ackq'[k].n] = Image(1)
  <2>1. CASE ackq' = ackq
    BY <1>1, <2>1 DEF DoneBooted
  <2>2. ASSUME NEW a \in Answers, ackq' = Append(ackq, a),
               a.status = "DONE" => boot'[a.n] = Image(1)
        PROVE  \A k \in DOMAIN ackq' :
                 ackq'[k].status = "DONE" => boot'[ackq'[k].n] = Image(1)
    <3>1. \A k \in DOMAIN ackq' : (k \in DOMAIN ackq /\ ackq'[k] = ackq[k])
                                  \/ ackq'[k] = a
      BY <2>2 DEF IInv, TypeOK
    <3> QED BY <1>1, <2>2, <3>1 DEF DoneBooted
  <2> QED BY <2>1, <2>2
<1>3. \A n \in Nodes : prog'[n].seen /\ prog'[n].status = "DONE" => boot'[n] = Image(1)
  BY DEF DoneBooted
<1> QED BY <1>2, <1>3 DEF DoneBooted

LEMMA DoneStep ==
  ASSUME MaxRelays = 1, IInv, DoneBooted, [Next]_vars
  PROVE  DoneBooted'
<1>1. ver = 1
  BY DEF IInv, TypeOK, Sent
<1>2. CASE Relay \/ UNCHANGED vars
  BY <1>2, DoneKept DEF Relay, SendBegin, BeginSent, SendChunk, SendEnd, CheckRound,
                        nodes, vars
<1>3. CASE NextRelay
  BY <1>1, <1>3 DEF NextRelay
<1>4. CASE otaInitOnAck
  <2> DEFINE a == Head(ackq)
  <2>1. /\ ackq # <<>> /\ a = ackq[1] /\ 1 \in DOMAIN ackq /\ ackq' = Tail(ackq)
        /\ \A k \in DOMAIN ackq' : k + 1 \in DOMAIN ackq /\ ackq'[k] = ackq[k + 1]
    BY <1>4 DEF otaInitOnAck, IInv, TypeOK
  <2>2. boot' = boot
    BY <1>4 DEF otaInitOnAck, nodes
  <2>3. a.status = "DONE" => boot[a.n] = Image(1)
    BY <2>1 DEF DoneBooted
  <2>4. \/ prog' = prog
        \/ prog' = [prog EXCEPT ![a.n] = [seen |-> TRUE, status |-> a.status,
                                          next |-> a.next]]
    BY <1>4 DEF otaInitOnAck
  <2> HIDE DEF a
  <2>5. ASSUME NEW n \in Nodes, prog'[n].seen, prog'[n].status = "DONE"
        PROVE  boot[n] = Image(1)
    <3>1. CASE prog'[n] = prog[n]
      BY <2>5, <3>1 DEF DoneBooted
    <3>2. CASE n = a.n /\ prog'[n] = [seen |-> TRUE, status |-> a.status,
                                     next |-> a.next]
      <4>1. a.status = "DONE"
        BY <2>5, <3>2
      <4> QED BY <2>3, <3>2, <4>1
    <3>3. DOMAIN prog = Nodes
      BY DEF IInv, TypeOK
    <3> QED BY <2>4, <3>1, <3>2, <3>3
  <2>6. \A k \in DOMAIN ackq' : ackq'[k].status = "DONE" => boot'[ackq'[k].n] = Image(1)
    BY <2>1, <2>2 DEF DoneBooted
  <2> QED BY <2>2, <2>5, <2>6 DEF DoneBooted
<1>5. ASSUME NEW n \in Nodes, NEW status \in Statuses \ {"DONE"}, NEW c,
             Ack(n, status, c) \/ UNCHANGED ackq, UNCHANGED <<prog, boot>>,
             c \in 0..Chunks
      PROVE  DoneBooted'
  <2>1. \/ ackq' = ackq
        \/ \E a \in Answers : a.status = status /\ ackq' = Append(ackq, a)
    BY <1>5, AckHolds DEF IInv
  <2> QED BY <1>5, <2>1, DoneKept
<1>6. ASSUME NEW n \in Nodes, NodeStep(n) \/ NodeRestart(n) PROVE DoneBooted'
  <2>1. CASE otaRxBegin(n)
    BY <1>5, <2>1 DEF otaRxBegin, Statuses
  <2>2. CASE otaRxData(n)
    <3> DEFINE f == otaFirstMissing(n)'
    <3>1. f \in 0..Chunks
      BY NextFirstMissing
    <3> HIDE DEF f
    <3>2. UNCHANGED <<prog, boot>>
      BY <2>2 DEF otaRxData
    <3>3. UNCHANGED ackq \/ Ack(n, "RECEIVING", f) \/ Ack(n, "ERR", otaFirstMissing(n))
      BY <2>2 DEF otaRxData, f
    <3>4. CASE UNCHANGED ackq \/ Ack(n, "RECEIVING", f)
      BY <1>5, <3>1, <3>2, <3>4 DEF Statuses
    <3>5. CASE Ack(n, "ERR", otaFirstMissing(n))
      BY <1>5, <3>2, <3>5, FirstMissing DEF Statuses
    <3> QED BY <3>3, <3>4, <3>5
  <2>3. CASE EndResume(n) \/ EndFails(n)
    BY <1>5, <2>3, FirstMissing DEF EndResume, EndFails, nodes, Statuses
  <2>4. CASE EndBoots(n)
    <3>1. part[n] = Image(1)
      BY <2>4 DEF EndBoots, Whole, Sent
    <3>2. /\ boot' = [boot EXCEPT ![n] = part[n]] /\ UNCHANGED prog
          /\ Ack(n, "DONE", 0)
      BY <2>4 DEF EndBoots
    <3>3. boot'[n] = Image(1) /\ \A m \in Nodes \ {n} : boot'[m] = boot[m]
      BY <3>1, <3>2 DEF IInv, TypeOK
    <3>4. \/ ackq' = ackq
          \/ \E a \in Answers : a.n = n /\ ackq' = Append(ackq, a)
      BY <3>2, AckHolds DEF IInv, Statuses
    <3> QED BY <3>2, <3>3, <3>4, DoneKept
  <2>5. CASE NodeRestart(n)
    BY <2>5, DoneKept DEF NodeRestart
  <2> QED BY <1>6, <2>1, <2>2, <2>3, <2>4, <2>5 DEF NodeStep, otaRxEnd
<1> QED BY <1>2, <1>3, <1>4, <1>6 DEF Next

\* As long as no earlier image can be lying in a partition, a node that is
\* done boots the image of the relay, whatever is lost, fails or restarts. A
\* second relay breaks this: nothing compares what END announces with what
\* the node holds.
THEOREM FirstRelayDone ==
  ASSUME MaxRelays = 1
  PROVE  Spec => []DoneMeansBooted
<1>1. Init => DoneBooted
  BY DEF Init, DoneBooted, NotSeen
<1>2. IInv /\ DoneBooted /\ [Next]_vars => DoneBooted'
  BY DoneStep
<1>3. IInv /\ DoneBooted => DoneMeansBooted
  BY DEF IInv, TypeOK, Sent, DoneBooted, DoneMeansBooted
<1> QED BY <1>1, <1>2, <1>3, Holds, PTL DEF Spec

=============================================================================
