-------------------------------- MODULE MeshOta --------------------------------
(***************************************************************************)
(* The firmware relay of the mesh (src/src/mesh_espnow.cpp): after its own *)
(* update the manager broadcasts the nodes' image chunk by chunk           *)
(* (otaInitTaskFn), the nodes write what they hear and answer with the     *)
(* first chunk they miss (otaRxBegin, otaRxData, otaRxEnd), and the        *)
(* manager sends again from the smallest of these, for a limited number of *)
(* rounds.                                                                 *)
(*                                                                         *)
(* Actors: the manager's relay task, its receive task, and each node's     *)
(* receive task with its queue. A broadcast may miss any of the nodes and  *)
(* an answer may miss the manager. The manager runs one relay per boot;    *)
(* after it, or when 180 s have passed, it restarts (manager_main.cpp).    *)
(***************************************************************************)
EXTENDS Naturals, Sequences, FiniteSets

CONSTANTS
  Nodes,
  Chunks,      \* total_chunks
  BeginCopies, \* BEGIN packets of a relay (5 in the code)
  Rounds,      \* END rounds of a relay (10 in the code)
  RxDepth,     \* a node's receive queue (8 in the code)
  Table,       \* MESH_LIVE_NODES_MAX, the nodes the manager can keep track of
  MaxRelays,   \* bound: relays of a behaviour, each of another image
  MaxLoss,     \* bound: receivers that miss a packet
  Faults       \* further faults of this instance, a subset of FaultNames

FaultNames == {"slow",      \* the manager's pauses are too short for a node
               "flash",     \* a flash operation of a node fails
               "crash",     \* a node restarts
               "timeout"}   \* the manager restarts during a relay

ASSUME SizeAssumption ==
  /\ {Chunks, BeginCopies, Rounds, RxDepth, Table, MaxRelays} \subseteq Nat \ {0}
  /\ MaxLoss \in Nat
ASSUME NodesAssumption == IsFiniteSet(Nodes)
ASSUME FaultsAssumption == Faults \subseteq FaultNames

VARIABLES
  pc,          \* where the relay task is
  i,           \* its packet counter
  round,       \* END rounds it has finished
  ver,         \* the image it sends
  allDone,     \* it has logged "all nodes DONE"
  prog,        \* g_otaNodes
  rx,          \* g_otaRx of each node
  part,        \* each node's update partition: image of each chunk, 0 = erased
  boot,        \* the image each node boots, likewise
  inq,         \* each node's receive queue
  ackq,        \* answers on their way to the manager
  losses       \* packets lost so far

task  == <<pc, i, round, ver, allDone>>
nodes == <<rx, part, boot>>
vars  == <<task, prog, nodes, inq, ackq, losses>>

Seqs    == 0 .. Chunks - 1
Vers    == 0 .. MaxRelays          \* images, and 0: erased
Sent    == 1 .. MaxRelays
Image(v) == [c \in Seqs |-> v]
Whole(image) == \E v \in Sent : image = Image(v)

Begin     == [t |-> "begin", seq |-> 0, v |-> ver]
Data(seq) == [t |-> "data", seq |-> seq, v |-> ver]
End       == [t |-> "end", seq |-> 0, v |-> ver]

NoRx    == [active |-> FALSE, bits |-> {}, count |-> 0]
NotSeen == [seen |-> FALSE, status |-> "READY", next |-> 0]

Init ==
  /\ pc = "begin" /\ i = 0 /\ round = 0 /\ ver = 1 /\ allDone = FALSE
  /\ prog = [n \in Nodes |-> NotSeen]
  /\ rx = [n \in Nodes |-> NoRx]
  /\ part = [n \in Nodes |-> Image(0)] /\ boot = [n \in Nodes |-> Image(0)]
  /\ inq = [n \in Nodes |-> <<>>] /\ ackq = <<>> /\ losses = 0

-----------------------------------------------------------------------------
(* The air.                                                                *)

\* otaSendRawOnHome: one packet to all nodes. Some may miss it, and a full
\* receive queue drops it.
Broadcast(m) ==
  \E missed \in SUBSET Nodes :
    /\ losses + Cardinality(missed) <= MaxLoss
    /\ losses' = losses + Cardinality(missed)
    /\ inq' = [n \in Nodes |-> IF n \in missed \/ Len(inq[n]) >= RxDepth
                               THEN inq[n] ELSE Append(inq[n], m)]

\* otaRxSendAck.
Ack(n, status, next) ==
  \/ /\ ackq' = Append(ackq, [n |-> n, status |-> status, next |-> next])
     /\ UNCHANGED losses
  \/ /\ losses < MaxLoss /\ losses' = losses + 1
     /\ UNCHANGED ackq

\* What the manager's pauses are meant to wait for.
Answered == ackq = <<>> /\ \A n \in Nodes : inq[n] = <<>>
Pause == Answered \/ "slow" \in Faults

-----------------------------------------------------------------------------
(* The manager's relay task, otaInitTaskFn.                                *)

SendBegin ==
  /\ pc = "begin" /\ i < BeginCopies
  /\ Broadcast(Begin) /\ i' = i + 1
  /\ UNCHANGED <<pc, round, ver, allDone, prog, nodes, ackq>>

\* The nodes have 2.5 s to erase their partitions.
BeginSent ==
  /\ pc = "begin" /\ i = BeginCopies /\ Pause
  /\ pc' = "data" /\ i' = 0
  /\ UNCHANGED <<round, ver, allDone, prog, nodes, inq, ackq, losses>>

\* otaSendChunk, in the first pass and in every resend.
SendChunk ==
  /\ pc = "data" /\ i < Chunks
  /\ Broadcast(Data(i)) /\ i' = i + 1
  /\ UNCHANGED <<pc, round, ver, allDone, prog, nodes, ackq>>

\* After the chunks comes the next round, unless it was the last.
SendEnd ==
  /\ pc = "data" /\ i = Chunks
  /\ IF round < Rounds
     THEN Broadcast(End) /\ pc' = "check"
     ELSE pc' = "finished" /\ UNCHANGED <<inq, losses>>
  /\ UNCHANGED <<i, round, ver, allDone, prog, nodes, ackq>>

Pending == {n \in Nodes : prog[n].seen /\ prog[n].status # "DONE"}

\* Mutant: the resend starts behind the first missing chunk.
ResumeBehind(next) ==
  /\ \A n \in Pending : next <= prog[n].next + 1
  /\ \E n \in Pending : next = prog[n].next + 1

\* minNext.
ResumeAt(next) ==
  /\ next <= Chunks
  /\ \A n \in Pending : next <= prog[n].next
  /\ next = Chunks \/ \E n \in Pending : next = prog[n].next

\* 1.5 s after END: done, or again from the first chunk a node misses.
CheckRound ==
  /\ pc = "check" /\ Pause
  /\ round' = round + 1
  /\ IF Pending = {}
     THEN allDone' = TRUE /\ pc' = "finished" /\ UNCHANGED i
     ELSE /\ \E next \in 0..Chunks : ResumeAt(next) /\ i' = next
          /\ pc' = "data" /\ UNCHANGED allDone
  /\ UNCHANGED <<ver, prog, nodes, inq, ackq, losses>>

\* The manager restarts and, after its next update, relays another image;
\* that takes so long that nothing of the last relay is left in a queue.
NextRelay ==
  /\ \A n \in Nodes : inq[n] = <<>>
  /\ pc = "finished" \/ "timeout" \in Faults
  /\ ver < MaxRelays /\ ver' = ver + 1
  /\ pc' = "begin" /\ i' = 0 /\ round' = 0 /\ allDone' = FALSE
  /\ prog' = [n \in Nodes |-> NotSeen] /\ ackq' = <<>>
  /\ UNCHANGED <<nodes, inq, losses>>

\* otaInitOnAck and otaNodeSlot, in the manager's receive task.
otaInitOnAck ==
  /\ ackq # <<>> /\ ackq' = Tail(ackq)
  /\ LET a == Head(ackq) IN
     IF prog[a.n].seen \/ Cardinality({n \in Nodes : prog[n].seen}) < Table
     THEN prog' = [prog EXCEPT ![a.n] = [seen |-> TRUE, status |-> a.status,
                                         next |-> a.next]]
     ELSE UNCHANGED prog
  /\ UNCHANGED <<task, nodes, inq, losses>>

-----------------------------------------------------------------------------
(* A node's receive task.                                                  *)

Receive(n, t) == inq[n] # <<>> /\ Head(inq[n]).t = t
Taken(n) == inq' = [inq EXCEPT ![n] = Tail(@)]

\* Mutant: the number of chunks received stands for the first missing one.
CountMissing(n) == rx[n].count

otaFirstMissing(n) ==
  CHOOSE c \in 0..Chunks :
    /\ c = Chunks \/ c \notin rx[n].bits
    /\ 0 .. c - 1 \subseteq rx[n].bits

\* Mutant: a repeated BEGIN keeps the bitmap.
BeginKeepsBits(n) ==
  /\ Receive(n, "begin") /\ Taken(n)
  /\ rx' = [rx EXCEPT ![n].active = TRUE]
  /\ part' = [part EXCEPT ![n] = Image(0)] /\ Ack(n, "READY", 0)
  /\ UNCHANGED <<boot, task, prog>>

\* Every BEGIN erases the partition and starts again with an empty bitmap.
otaRxBegin(n) ==
  /\ Receive(n, "begin") /\ Taken(n)
  /\ \/ /\ rx' = [rx EXCEPT ![n] = [NoRx EXCEPT !.active = TRUE]]
        /\ part' = [part EXCEPT ![n] = Image(0)] /\ Ack(n, "READY", 0)
     \/ /\ "flash" \in Faults
        /\ rx' = [rx EXCEPT ![n] = NoRx]
        /\ Ack(n, "ERR", 0) /\ UNCHANGED part
  /\ UNCHANGED <<boot, task, prog>>

New(n) == rx[n].active /\ Head(inq[n]).seq \notin rx[n].bits

\* A chunk that is not wanted is ignored; a chunk received may be answered,
\* at most once in 300 ms.
otaRxData(n) ==
  /\ Receive(n, "data") /\ Taken(n)
  /\ LET m == Head(inq[n]) IN
     \/ ~New(n) /\ UNCHANGED <<rx, part, ackq, losses>>
     \/ /\ New(n)
        /\ part' = [part EXCEPT ![n][m.seq] = m.v]
        /\ rx' = [rx EXCEPT ![n].bits = @ \cup {m.seq}, ![n].count = @ + 1]
        /\ \/ UNCHANGED <<ackq, losses>>
           \/ Ack(n, "RECEIVING", otaFirstMissing(n)')
     \/ /\ New(n) /\ "flash" \in Faults
        /\ Ack(n, "ERR", otaFirstMissing(n)) /\ UNCHANGED <<rx, part>>
  /\ UNCHANGED <<boot, task, prog>>

\* END while chunks are missing: say from where to resume.
EndResume(n) ==
  /\ Receive(n, "end") /\ Taken(n)
  /\ IF rx[n].active
     THEN rx[n].count < Chunks /\ Ack(n, "RESUME", otaFirstMissing(n))
     ELSE UNCHANGED <<ackq, losses>>
  /\ UNCHANGED <<nodes, task, prog>>

Complete(n) == Receive(n, "end") /\ rx[n].active /\ rx[n].count >= Chunks

\* Mutant: the new partition is not set to boot.
EndBootsOld(n) ==
  /\ Complete(n) /\ Whole(part[n])
  /\ rx' = [rx EXCEPT ![n] = NoRx] /\ inq' = [inq EXCEPT ![n] = <<>>]
  /\ Ack(n, "DONE", 0) /\ UNCHANGED <<boot, part, task, prog>>

\* esp_ota_end finds a whole image: boot from it, answer, restart.
EndBoots(n) ==
  /\ Complete(n) /\ Whole(part[n])
  /\ boot' = [boot EXCEPT ![n] = part[n]]
  /\ rx' = [rx EXCEPT ![n] = NoRx] /\ inq' = [inq EXCEPT ![n] = <<>>]
  /\ Ack(n, "DONE", 0) /\ UNCHANGED <<part, task, prog>>

\* esp_ota_end or esp_ota_set_boot_partition fails: the node gives up.
EndFails(n) ==
  /\ Complete(n) /\ Taken(n)
  /\ ~Whole(part[n]) \/ "flash" \in Faults
  /\ rx' = [rx EXCEPT ![n].active = FALSE]
  /\ Ack(n, "ERR", 0) /\ UNCHANGED <<boot, part, task, prog>>

otaRxEnd(n) == EndResume(n) \/ EndBoots(n) \/ EndFails(n)

\* A node loses power or resets.
NodeRestart(n) ==
  /\ "crash" \in Faults
  /\ rx[n].active \/ inq[n] # <<>>
  /\ rx' = [rx EXCEPT ![n] = NoRx] /\ inq' = [inq EXCEPT ![n] = <<>>]
  /\ UNCHANGED <<part, boot, task, prog, ackq, losses>>

-----------------------------------------------------------------------------

Relay == SendBegin \/ BeginSent \/ SendChunk \/ SendEnd \/ CheckRound
NodeStep(n) == otaRxBegin(n) \/ otaRxData(n) \/ otaRxEnd(n)

Next ==
  \/ Relay \/ NextRelay \/ otaInitOnAck
  \/ \E n \in Nodes : NodeStep(n) \/ NodeRestart(n)

\* The tasks of the manager and of the nodes keep running.
Fairness ==
  /\ WF_vars(Relay) /\ WF_vars(otaInitOnAck)
  /\ \A n \in Nodes : WF_vars(NodeStep(n))

Spec == Init /\ [][Next]_vars /\ Fairness

-----------------------------------------------------------------------------
(* Properties.                                                             *)

Statuses == {"READY", "RECEIVING", "RESUME", "DONE", "ERR"}

Packets == [t : {"begin", "data", "end"}, seq : Seqs, v : Sent]
Answers == [n : Nodes, status : Statuses, next : 0..Chunks]

\* Types of the manager's and the nodes' variables.
TypeOK ==
  /\ pc \in {"begin", "data", "check", "finished"}
  /\ i \in Nat /\ round \in 0..Rounds /\ ver \in Sent /\ allDone \in BOOLEAN
  /\ prog \in [Nodes -> [seen : BOOLEAN, status : Statuses, next : 0..Chunks]]
  /\ rx \in [Nodes -> [active : BOOLEAN, bits : SUBSET Seqs, count : 0..Chunks]]
  /\ part \in [Nodes -> [Seqs -> Vers]] /\ boot \in [Nodes -> [Seqs -> Vers]]
  /\ inq \in [Nodes -> Seq(Packets)] /\ ackq \in Seq(Answers)
  /\ losses \in 0..MaxLoss

\* END looks at the number of chunks alone: once that is reached, every chunk
\* has been written since the partition was last erased, whatever was sent
\* twice, lost or left from an earlier relay (otaRxData, otaRxEnd).
CountMeansWritten ==
  \A n \in Nodes : rx[n].active /\ rx[n].count >= Chunks =>
                     \A c \in Seqs : part[n][c] # 0

\* A node the manager counts as done will boot the image of this relay.
DoneMeansBooted ==
  \A n \in Nodes : prog[n].seen /\ prog[n].status = "DONE" => boot[n] = Image(ver)

\* A resend starts at or before every chunk that a node still in the relay
\* misses, whatever answers were lost or come late (otaFirstMissing,
\* otaInitOnAck, minNext).
ResendCoversMissing ==
  [][pc = "check" /\ pc' = "data" =>
       \A n \in Nodes :
         prog[n].seen /\ rx[n].active => \A c \in Seqs \ rx[n].bits : i' <= c]_vars

\* As long as fewer packets are lost than there are BEGIN packets and rounds,
\* every node ends up with the image.
FleetUpdated == <>(\A n \in Nodes : boot[n] = Image(1))

\* "all nodes DONE": when the manager says so, every node has the image.
AllDoneIsTrue == allDone => \A n \in Nodes : boot[n] = Image(ver)

\* "In a mesh, nodes update one at a time."
OneAtATime == \A m, n \in Nodes : rx[m].active /\ rx[n].active => m = n

================================================================================
