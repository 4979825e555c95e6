------------------------------ MODULE MeshCommand ------------------------------
(***************************************************************************)
(* Commands of the mesh (src/src/mesh_espnow.cpp): the manager broadcasts  *)
(* an engine command under a number (meshBroadcastCommand), keeps it in a  *)
(* table until as many answers as live nodes have come, and repeats it     *)
(* every 300 ms while it has retries left (retryTaskFn). A node takes what *)
(* it hears unless it has seen the number in the last 5 s, and answers     *)
(* either way.                                                             *)
(*                                                                         *)
(* Actors: the manager's tasks that send commands, its retry task, its     *)
(* receive task, and each node's receive task with its queue. A packet is  *)
(* sent twice in a row, so a receiver may handle it twice; both copies may *)
(* be lost. Who has been heard of in the last 30 s is left open whenever   *)
(* the table of live nodes is read. No window of time expires here while   *)
(* it could matter: a command lives 1.2 s (3 retries), an answer is        *)
(* remembered for 2 s, a number for 5 s.                                   *)
(***************************************************************************)
EXTENDS Naturals, Sequences, FiniteSets

CONSTANTS
  Nodes,
  Callers,     \* tasks of the manager that send commands
  Slots,       \* MESH_CMD_PENDING_MAX (16)
  Retries,     \* maxRetries of a configuration (3)
  AckRing,     \* MESH_ACK_DEDUPE_SLOTS (8)
  CmdRing,     \* numbers a node remembers (32)
  DeafAt,      \* MESH_CMD_DEAF_THRESHOLD (3)
  MaxCmds,     \* bound: commands of a behaviour
  Burst,       \* bound: packets a node has waiting when a command is issued
  MaxLoss,     \* bound: receivers that miss a packet, restarts of nodes
  Switches,    \* bound: the commands that are 0x00, 0x01 or 0x0F
  Faults       \* what else may happen in this instance

FaultNames == {"restart",   \* the manager restarts, for longer than 5 s
               "quick",     \* ... or for less
               "slow",      \* packets take longer than a retry
               "overrun"}   \* the table is flushed under a command being sent

ASSUME SizeAssumption ==
  /\ {Slots, AckRing, CmdRing, DeafAt, MaxCmds, Burst} \subseteq Nat \ {0}
  /\ {Retries, MaxLoss} \subseteq Nat
ASSUME NodesAssumption == IsFiniteSet(Nodes)
ASSUME SwitchesAssumption == Switches \subseteq 1 .. MaxCmds
ASSUME FaultsAssumption == Faults \subseteq FaultNames

VARIABLES
  issued,      \* commands so far; a command is known by this count
  seqCounter,
  pending,     \* pendingCmds
  call,        \* what each caller is about to send
  retry,       \* what the retry task is about to send
  misses,      \* cmdHealth
  dedupe,      \* the answers the manager remembers
  acks,        \* answers on their way
  inq,         \* each node's receive queue
  recent,      \* cmdDedupe of each node
  losses,
  heard,       \* history: what each node has taken for new
  after,       \* history: the commands that were sent before each was issued
  sent,        \* history: the commands that were sent
  due,         \* history: configurations issued with every node in sight
  gone         \* history: commands lost by a full table or a restart

manager == <<issued, seqCounter, pending, call, retry, misses, dedupe>>
history == <<after, sent, due, gone>>
vars == <<manager, acks, inq, recent, losses, heard, history>>

Ids   == 1 .. MaxCmds
None  == [on |-> FALSE, slot |-> 1, seq |-> 0, id |-> 0]

\* A slot that is not in use; only its payload may be read again.
Unfilled(id) == [used |-> FALSE, seq |-> 0, id |-> id, left |-> 0, acks |-> 0,
                 expected |-> 1, quiet |-> {}]
Free     == Unfilled(0)
Freed(p) == Unfilled(p.id)

Init ==
  /\ issued = 0 /\ seqCounter = 0
  /\ pending = [s \in 1..Slots |-> Free]
  /\ call = [c \in Callers |-> None] /\ retry = None
  /\ misses = [n \in Nodes |-> 0]
  /\ dedupe = {} /\ acks = {}
  /\ inq = [n \in Nodes |-> <<>>] /\ recent = [n \in Nodes |-> {}]
  /\ losses = 0
  /\ heard = [n \in Nodes |-> <<>>]
  /\ after = [id \in Ids |-> {}] /\ sent = {} /\ due = {} /\ gone = {}

-----------------------------------------------------------------------------

Elements(s) == {s[k] : k \in DOMAIN s}

\* What a ring of the given size may hold after a new entry: when it is full an
\* entry (in the code the oldest) makes room.
Pushed(ring, x, size) ==
  IF Cardinality(ring) < size THEN {ring \cup {x}}
  ELSE {(ring \ {y}) \cup {x} : y \in ring}

\* sendOnHome.
Broadcast(m) ==
  \E missed \in SUBSET Nodes :
    /\ losses + Cardinality(missed) <= MaxLoss
    /\ losses' = losses + Cardinality(missed)
    /\ inq' = [n \in Nodes |-> IF n \in missed THEN inq[n] ELSE Append(inq[n], m)]

Packet(seq, id) == [seq |-> seq, id |-> id]

Deaf(n) == misses[n] >= DeafAt

\* The number of answers to wait for, with these nodes heard of in 30 s.
Expected(live) ==
  LET reachable == Cardinality({n \in live : ~Deaf(n)})
  IN IF reachable = 0 THEN 1 ELSE reachable

\* Mutant: switches are repeated like configurations.
RetryAll(id) == Retries

\* Mutant: a lost configuration is not repeated.
RetryNone(id) == 0

\* Switches are not repeated by this table.
RetriesOf(id) == IF id \in Switches THEN 0 ELSE Retries

Unused == {s \in 1..Slots : ~pending[s].used}
Entry(live) ==
  [used |-> TRUE, seq |-> seqCounter', id |-> issued',
   left |-> RetriesOf(issued'), acks |-> 0, expected |-> Expected(live), quiet |-> Nodes]

\* meshBroadcastCommand up to the release of the mutex. The number of the slot
\* is kept: the payload is read from there afterwards.
Issue(c, slot, live) ==
  /\ ~call[c].on
  /\ issued < MaxCmds /\ \A n \in Nodes : Len(inq[n]) < Burst
  /\ issued' = issued + 1 /\ seqCounter' = (seqCounter + 1) % 256
  /\ call' = [call EXCEPT ![c] = [on |-> TRUE, slot |-> slot, seq |-> seqCounter',
                                  id |-> issued']]
  /\ after' = [after EXCEPT ![issued'] = sent]
  /\ due' = IF issued' \notin Switches /\ Expected(live) = Cardinality(Nodes)
            THEN due \cup {issued'} ELSE due
  /\ UNCHANGED <<retry, misses, dedupe, acks, inq, recent, losses,
                 heard, sent>>

IssueFree(c, live) ==
  \E slot \in Unused :
    /\ \A s \in Unused : slot <= s
    /\ Issue(c, slot, live)
    /\ pending' = [pending EXCEPT ![slot] = Entry(live)]
    /\ UNCHANGED gone

\* The table is full: all that is pending is given up.
IssueFlush(c, live) ==
  /\ Unused = {}
  /\ "overrun" \in Faults \/ \A d \in Callers : ~call[d].on
  /\ Issue(c, 1, live)
  /\ pending' = [s \in 1..Slots |-> IF s = 1 THEN Entry(live)
                                    ELSE Freed(pending[s])]
  /\ gone' = gone \cup {pending[s].id : s \in 1..Slots}

\* The rest of meshBroadcastCommand: the payload comes from the slot.
Send(c) ==
  /\ call[c].on
  /\ Broadcast(Packet(call[c].seq, pending[call[c].slot].id))
  /\ call' = [call EXCEPT ![c] = None]
  /\ sent' = sent \cup {call[c].id}
  /\ UNCHANGED <<issued, seqCounter, pending, retry, misses, dedupe, acks,
                 recent, heard, after, due, gone>>

-----------------------------------------------------------------------------
(* The retry task, retryTaskFn.                                            *)

\* 300 ms since the slot was last sent: what was sent has come or is lost.
Waited(s) ==
  \/ "slow" \in Faults
  \/ /\ \A c \in Callers : ~(call[c].on /\ call[c].seq = pending[s].seq)
     /\ \A n \in Nodes : \A m \in Elements(inq[n]) : m.seq # pending[s].seq
     /\ \A a \in acks : a.seq # pending[s].seq

RetryLeft(s) == pending[s].left > 0

\* The slot is copied under the mutex ...
RetryTake(s) ==
  /\ ~retry.on /\ pending[s].used /\ Waited(s) /\ RetryLeft(s)
  /\ pending' = [pending EXCEPT ![s].left = @ - 1]
  /\ retry' = [on |-> TRUE, slot |-> s, seq |-> pending[s].seq, id |-> pending[s].id]
  /\ UNCHANGED <<issued, seqCounter, call, misses, dedupe, acks, inq,
                 recent, losses, heard, history>>

\* ... and sent after its release.
RetrySend ==
  /\ retry.on
  /\ Broadcast(Packet(retry.seq, retry.id))
  /\ retry' = None
  /\ UNCHANGED <<issued, seqCounter, pending, call, misses, dedupe, acks,
                 recent, heard, history>>

\* No retry is left: the live nodes that have not answered anything since are
\* a step nearer to being taken for deaf.
GiveUp(s, live) ==
  /\ ~retry.on /\ pending[s].used /\ Waited(s) /\ ~RetryLeft(s)
  /\ pending' = [pending EXCEPT ![s] = Freed(@)]
  /\ misses' = [n \in Nodes |-> IF n \in live \cap pending[s].quiet /\ ~Deaf(n)
                                THEN misses[n] + 1 ELSE misses[n]]
  /\ UNCHANGED <<issued, seqCounter, call, retry, dedupe, acks, inq,
                 recent, losses, heard, history>>

RetryTask ==
  \/ RetrySend
  \/ \E s \in 1..Slots : RetryTake(s) \/ \E live \in SUBSET Nodes : GiveUp(s, live)

-----------------------------------------------------------------------------
(* A node's receive task.                                                  *)

\* sendAckPacket. Its second copy is the answer to the second copy.
Ack(n, seq) ==
  \/ acks' = acks \cup {[seq |-> seq, n |-> n]} /\ UNCHANGED losses
  \/ /\ losses < MaxLoss /\ losses' = losses + 1
     /\ UNCHANGED acks

\* Mutant: a repetition is not recognised.
SeesNone(n, seq) == FALSE

Seen(n, seq) == seq \in recent[n]

\* The command goes to engineProcessCommand, unless a phone owns the node
\* (FleetControl); the answer is the same.
NodeReceive(n) ==
  /\ inq[n] # <<>>
  /\ LET m == Head(inq[n])  rest == [inq EXCEPT ![n] = Tail(@)] IN
     /\ IF Seen(n, m.seq)
        THEN inq' = rest /\ UNCHANGED <<recent, heard>>
        ELSE /\ inq' \in {inq, rest}          \* the second copy comes right behind
             /\ heard' = [heard EXCEPT ![n] = Append(@, m.id)]
             /\ \E ring \in Pushed(recent[n], m.seq, CmdRing) :
                  recent' = [recent EXCEPT ![n] = ring]
     /\ Ack(n, m.seq)
  /\ UNCHANGED <<manager, history>>

-----------------------------------------------------------------------------
(* The manager's receive task.                                             *)

Known(a) == a \in dedupe

\* An answer counts for the command of its number, whoever gives it.
Counted(a) ==
  [s \in 1..Slots |->
     LET p == pending[s]  answered == p.seq = a.seq IN
     IF ~p.used THEN p
     ELSE IF answered /\ p.acks + 1 >= p.expected THEN Freed(p)
     ELSE [p EXCEPT !.quiet = @ \ {a.n}, !.acks = IF answered THEN @ + 1 ELSE @]]

AckReceive(a) ==
  /\ a \in acks /\ acks' = acks \ {a}
  /\ IF Known(a)
     THEN UNCHANGED <<dedupe, misses, pending>>
     ELSE /\ dedupe' \in Pushed(dedupe, a, AckRing)
          /\ misses' = [misses EXCEPT ![a.n] = 0]
          /\ pending' = Counted(a)
  /\ UNCHANGED <<issued, seqCounter, call, retry, inq, recent, losses,
                 heard, history>>

-----------------------------------------------------------------------------
(* What happens around them.                                               *)

Mark == 0

\* A node restarts and has forgotten the numbers; the history keeps a mark.
NodeRestart(n) ==
  /\ losses < MaxLoss /\ losses' = losses + 1
  /\ heard[n] # <<>>
  /\ inq' = [inq EXCEPT ![n] = <<>>] /\ recent' = [recent EXCEPT ![n] = {}]
  /\ heard' = [heard EXCEPT ![n] = Append(@, Mark)]
  /\ UNCHANGED <<manager, acks, history>>

\* The manager restarts and counts from the beginning. After more than 5 s
\* nothing of its last life is left in the air or in a node's memory.
MgrRestart ==
  /\ issued \in 1 .. MaxCmds - 1
  /\ \/ /\ "restart" \in Faults
        /\ acks = {} /\ \A n \in Nodes : inq[n] = <<>>
        /\ recent' = [n \in Nodes |-> {}]
     \/ "quick" \in Faults /\ UNCHANGED recent
  /\ seqCounter' = 0 /\ pending' = [s \in 1..Slots |-> Free]
  /\ call' = [c \in Callers |-> None] /\ retry' = None
  /\ misses' = [n \in Nodes |-> 0] /\ dedupe' = {}
  /\ gone' = 1..issued
  /\ UNCHANGED <<issued, acks, inq, losses, heard, after, sent, due>>

Next ==
  \/ \E c \in Callers :
       \/ Send(c)
       \/ \E live \in SUBSET Nodes :
            IssueFree(c, live) \/ IssueFlush(c, live)
  \/ RetryTask
  \/ \E a \in acks : AckReceive(a)
  \/ \E n \in Nodes : NodeReceive(n) \/ NodeRestart(n)
  \/ MgrRestart

\* The tasks keep running.
Fairness ==
  /\ \A c \in Callers : WF_vars(Send(c))
  /\ WF_vars(RetryTask)
  /\ \A n \in Nodes : WF_vars(NodeReceive(n))
  /\ WF_vars(\E a \in acks : AckReceive(a))

Spec == Init /\ [][Next]_vars /\ Fairness

-----------------------------------------------------------------------------
(* Properties.                                                             *)

Packets == [seq : 0..255, id : Ids]
Calls   == [on : BOOLEAN, slot : 1..Slots, seq : 0..255, id : 0..MaxCmds]

\* Types of the variables of the manager and the nodes.
TypeOK ==
  /\ issued \in 0..MaxCmds /\ seqCounter \in 0..255
  /\ pending \in [1..Slots -> [used : BOOLEAN, seq : 0..255,
                     id : 0..MaxCmds, left : 0..Retries, acks : Nat,
                     expected : Nat \ {0}, quiet : SUBSET Nodes]]
  /\ call \in [Callers -> Calls] /\ retry \in Calls
  /\ misses \in [Nodes -> 0..DeafAt]
  /\ {dedupe, acks} \subseteq SUBSET [seq : 0..255, n : Nodes]
  /\ inq \in [Nodes -> Seq(Packets)] /\ recent \in [Nodes -> SUBSET (0..255)]
  /\ losses \in 0..MaxLoss
  /\ heard \in [Nodes -> Seq(0..MaxCmds)]
  /\ after \in [Ids -> SUBSET Ids] /\ {sent, due, gone} \subseteq SUBSET Ids

\* A node takes a command for new at most once between two restarts, however
\* often it is sent and repeated (cmdDedupe).
TakenOnce ==
  \A n \in Nodes : \A j, k \in DOMAIN heard[n] :
    j < k /\ heard[n][j] = heard[n][k] =>
      \E r \in j..k : heard[n][r] = Mark

\* A switch that was on the air before another was asked for never runs after
\* it: this is why switches are not repeated (maxRetries = 0).
SwitchesInOrder ==
  \A n \in Nodes : \A j, k \in DOMAIN heard[n] :
    j < k /\ {heard[n][j], heard[n][k]} \subseteq Switches =>
      heard[n][k] \notin after[heard[n][j]]

Takers(id) == {n \in Nodes : \E k \in DOMAIN heard[n] : heard[n][k] = id}

\* When the answers to a command are complete, as many nodes have taken it as
\* were expected to: one node that answers each repetition does not stand for
\* another, nor does an answer to an earlier command of the number.
AcksCountNodes ==
  [][\A s \in 1..Slots :
       LET p == pending[s] IN
       p.used /\ ~pending'[s].used /\ acks' # acks =>
         Cardinality(Takers(p.id)) >= p.expected]_vars

\* A configuration that is sent while the manager sees every node reaches every
\* node, as long as fewer packets are lost than there are retries, unless it is
\* given up for a full table or a restart.
ConfigArrives ==
  \A id \in Ids \ Switches : id \in due ~> (id \in gone \/ Takers(id) = Nodes)

\* The manager retries long enough: it stops early only when as many nodes have
\* taken a command as were expected to, and a configuration reaches all nodes.
RetriesSuffice == AcksCountNodes /\ ConfigArrives

\* Of two commands a node takes the one that was issued later last.
LastConfigWins ==
  \A n \in Nodes : \A j, k \in DOMAIN heard[n] :
    j < k /\ heard[n][j] # Mark => heard[n][k] \notin after[heard[n][j]]

================================================================================
