---------------------------- MODULE PcapBuffers ----------------------------
(***************************************************************************)
(* How captured frames reach the phone (src/src/engines/pcap.cpp).  The    *)
(* radio callbacks append to one of two buffers, the sender task drains    *)
(* the other one and streams it frame by frame, pcapStop waits at most two *)
(* seconds for the sender to empty and free them.                          *)
(*                                                                         *)
(* Draining only resets the size under the lock: the bytes are streamed    *)
(* from the same memory afterwards.  mem is that memory, size the part of  *)
(* it that counts.  A frame is a number in order of arrival.               *)
(***************************************************************************)
EXTENDS Naturals, FiniteSets, Sequences

CONSTANTS
  Capacity,     \* PCAP_BUF_SIZE in frames
  MaxFrames,    \* bound: frames that pass the callbacks
  MaxStarts,    \* bound: captures started
  MaxDrops,     \* bound: times the phone goes away
  Faults        \* what may go wrong, a subset of FaultNames

\* "alloc": no memory for the buffers; "task": no memory for the sender task;
\* "slow": a buffer fills up while the other is streamed; "timeout": pcapStop
\* gives up waiting for the sender.
FaultNames == {"alloc", "task", "slow", "timeout"}

ASSUME BoundsAssumption ==
  Capacity \in Nat \ {0} /\ {MaxFrames, MaxStarts, MaxDrops} \subseteq Nat
ASSUME FaultsAssumption == Faults \subseteq FaultNames

Buffers == {"A", "B"}
Other(b) == IF b = "A" THEN "B" ELSE "A"
Frames  == 1..MaxFrames
Senders == 1..MaxStarts      \* the task of the n-th start
NoTask  == 0

VARIABLES
  active,       \* pcapActive
  heap,         \* generation of the buffers that are allocated, 0 for none
  cur,          \* the buffer that is filled: "A" iff useA
  size,         \* bufSizeA, bufSizeB in frames
  mem,          \* the frames that lie in the buffers' memory
  handle,       \* pcapSenderHandle
  sender,       \* what each sender task does
  isr,          \* the frame of a callback that has seen pcapActive, or 0
  response,     \* the BLE callback has a scan response to hand over as well
  stopping,     \* pcapStop waits for the sender
  phone,        \* a phone is connected and subscribed
  starts, drops, frames,   \* counters for the bounds
  sent,         \* history: the frames streamed, in order
  unheard       \* history: frames streamed to nobody, or appended after the stop

buffers == <<heap, cur, size, mem>>
bounds  == <<starts, drops, frames>>
history == <<sent, unheard>>
vars == <<active, buffers, handle, sender, isr, response, stopping, phone, bounds, history>>

\* A sender is where it is in pcapSenderTask; while it streams it holds a
\* pointer into a generation of the buffers.
Idle == [pc |-> "none", buf |-> "A", left |-> 0, pos |-> 0, gen |-> 0, last |-> FALSE]

Alive == {t \in Senders : sender[t].pc # "none"}
Streaming == {t \in Senders : sender[t].pc = "stream"}

Init ==
  /\ active = FALSE /\ heap = 0 /\ cur = "A"
  /\ size = [b \in Buffers |-> 0]
  /\ mem = [b \in Buffers |-> [i \in 1..Capacity |-> 0]]
  /\ handle = NoTask /\ sender = [t \in Senders |-> Idle]
  /\ isr = 0 /\ response = FALSE /\ stopping = FALSE /\ phone = TRUE
  /\ starts = 0 /\ drops = 0 /\ frames = 0
  /\ sent = <<>> /\ unheard = {}

-----------------------------------------------------------------------------
(* The radio callbacks.                                                    *)

\* A callback hands over a frame while pcapActive is set; the BLE callback a
\* second one if the advertisement came with a scan response.
HandOver(more) ==
  /\ active /\ isr = 0 /\ frames < MaxFrames
  /\ frames' = frames + 1 /\ isr' = frames + 1 /\ response' = more
  /\ UNCHANGED <<active, buffers, handle, sender, stopping, phone, starts, drops, history>>

pcapWifiCb  == HandOver(FALSE)
PcapBleScan == \E more \in BOOLEAN : HandOver(more)

Put(b) ==
  /\ size' = [size EXCEPT ![b] = @ + 1]
  /\ mem' = [mem EXCEPT ![b][size[b] + 1] = isr]
  /\ cur' = b

BufferRoom(b) == size[b] < Capacity

\* The rest of appendFrame, under the lock: a full buffer is changed for the
\* other one if that counts as empty, else the frame is dropped.
appendFrame ==
  /\ isr # 0
  /\ IF heap = 0 THEN UNCHANGED <<cur, size, mem>>
     ELSE IF BufferRoom(cur) THEN Put(cur)
     ELSE IF size[Other(cur)] = 0
     THEN /\ "slow" \in Faults \/ \A t \in Streaming : sender[t].buf = cur
          /\ Put(Other(cur))
     ELSE UNCHANGED <<cur, size, mem>>
  /\ response' = FALSE
  /\ LET again == response /\ active /\ frames < MaxFrames
     IN  /\ frames' = IF again THEN frames + 1 ELSE frames
         /\ isr'    = IF again THEN frames + 1 ELSE 0
  /\ unheard' = IF active THEN unheard ELSE unheard \cup {isr}
  /\ UNCHANGED <<active, heap, handle, sender, stopping, phone, starts, drops, sent>>

-----------------------------------------------------------------------------
(* The sender task.                                                        *)

\* A notification or 200 ms wake the task; it leaves its loop when the capture
\* has stopped and both buffers are empty.
Wake(t) ==
  /\ sender[t].pc = "wait"
  /\ sender' = [sender EXCEPT ![t].pc = "drain",
                              ![t].last = ~active /\ \A b \in Buffers : size[b] = 0]
  /\ UNCHANGED <<active, buffers, handle, isr, response, stopping, phone, bounds, history>>

AfterDrain(t) == IF sender[t].last THEN "free" ELSE "wait"

\* Mutant: the buffer being filled is taken first.
ChoiceMutant == IF size[cur] > 0 THEN cur ELSE Other(cur)

\* The full buffer goes first; if there is none the one being filled is taken
\* and the callbacks are sent to the other.
DrainChoice == IF size[Other(cur)] > 0 THEN Other(cur) ELSE cur

drainBuffersOverBle(t) ==
  LET b == DrainChoice
  IN  /\ sender[t].pc = "drain"
      /\ size' = [size EXCEPT ![b] = 0]
      /\ cur' = IF size[b] > 0 /\ b = cur THEN Other(cur) ELSE cur
      /\ sender' = IF size[b] = 0
                   THEN [sender EXCEPT ![t].pc = AfterDrain(t)]
                   ELSE [sender EXCEPT ![t].pc = "stream", ![t].buf = b, ![t].gen = heap,
                                       ![t].left = size[b], ![t].pos = 1]
      /\ UNCHANGED <<active, heap, mem, handle, isr, response, stopping, phone, bounds, history>>

\* bleGattStreamPcapBytes: what lies in memory now is sent, to nobody if the
\* phone has gone.
Stream(t) ==
  LET s == sender[t]
      f == mem[s.buf][s.pos]
  IN  /\ s.pc = "stream"
      /\ IF phone THEN sent' = Append(sent, f) /\ UNCHANGED unheard
                  ELSE unheard' = unheard \cup {f} /\ UNCHANGED sent
      /\ sender' = IF s.pos = s.left
                   THEN [sender EXCEPT ![t] = [Idle EXCEPT !.pc = AfterDrain(t), !.last = s.last]]
                   ELSE [sender EXCEPT ![t].pos = @ + 1]
      /\ UNCHANGED <<active, buffers, handle, isr, response, stopping, phone, bounds>>

\* A stop reads the sender's handle until it is empty.
freeBuffers(t) ==
  /\ sender[t].pc = "free"
  /\ heap' = 0 /\ size' = [b \in Buffers |-> 0] /\ cur' = "A"
  /\ sender' = [sender EXCEPT ![t].pc = "leave"]
  /\ UNCHANGED <<active, mem, handle, isr, response, stopping, phone, bounds, history>>

\* Mutant: the task ends without the handle being emptied.
LeaveMutant(t) ==
  /\ sender[t].pc = "leave"
  /\ sender' = [sender EXCEPT ![t] = Idle]
  /\ UNCHANGED <<active, buffers, handle, isr, response, stopping, phone, bounds, history>>

Leave(t) ==
  /\ sender[t].pc = "leave"
  /\ handle' = NoTask
  /\ sender' = [sender EXCEPT ![t] = Idle]
  /\ UNCHANGED <<active, buffers, isr, response, stopping, phone, bounds, history>>

-----------------------------------------------------------------------------
(* Starting and stopping, under engineMux.                                 *)

\* Buffers that are still there are used again.
pcapStart ==
  /\ ~active /\ ~stopping /\ starts < MaxStarts
  /\ starts' = starts + 1
  /\ heap' = IF heap = 0 THEN starts + 1 ELSE heap
  /\ size' = [b \in Buffers |-> 0] /\ cur' = "A"
  /\ active' = TRUE
  /\ handle' = starts + 1
  /\ sender' = [sender EXCEPT ![starts + 1].pc = "wait"]
  /\ UNCHANGED <<mem, isr, response, stopping, phone, drops, frames, history>>

\* No memory: the buffers that were there are kept if it was they that were
\* missing, freed if it was the task.
pcapStartFails ==
  /\ ~active /\ ~stopping /\ starts < MaxStarts
  /\ starts' = starts + 1
  /\ \/ "alloc" \in Faults /\ heap = 0 /\ UNCHANGED buffers
     \/ "task" \in Faults /\ heap' = 0 /\ size' = [b \in Buffers |-> 0]
        /\ cur' = "A" /\ UNCHANGED mem
  /\ UNCHANGED <<active, handle, sender, isr, response, stopping, phone, drops, frames, history>>

\* Mutant: empty buffers are freed at once and the sender is waited for.
FreeMutant ==
  /\ active /\ ~stopping
  /\ active' = FALSE /\ stopping' = TRUE
  /\ heap' = IF \A b \in Buffers : size[b] = 0 THEN 0 ELSE heap
  /\ UNCHANGED <<cur, size, mem, handle, sender, isr, response, phone, bounds, history>>

\* Without a sender the stop frees the buffers itself.
pcapStop ==
  /\ active /\ ~stopping
  /\ active' = FALSE
  /\ stopping' = TRUE
  /\ IF handle # NoTask THEN UNCHANGED buffers
     ELSE heap' = 0 /\ size' = [b \in Buffers |-> 0] /\ cur' = "A" /\ UNCHANGED mem
  /\ UNCHANGED <<handle, sender, isr, response, phone, bounds, history>>

\* The wait ends when the handle is empty, or after 100 looks of 20 ms.
StopReturns ==
  /\ stopping
  /\ handle = NoTask \/ "timeout" \in Faults
  /\ stopping' = FALSE
  /\ UNCHANGED <<active, buffers, handle, sender, isr, response, phone, bounds, history>>

PhoneGoes ==
  /\ phone /\ drops < MaxDrops
  /\ phone' = FALSE /\ drops' = drops + 1
  /\ UNCHANGED <<active, buffers, handle, sender, isr, response, stopping, starts, frames, history>>

PhoneComes ==
  /\ ~phone /\ phone' = TRUE
  /\ UNCHANGED <<active, buffers, handle, sender, isr, response, stopping, bounds, history>>

SenderStep(t) ==
  Wake(t) \/ drainBuffersOverBle(t) \/ Stream(t) \/ freeBuffers(t) \/ Leave(t)

Next ==
  \/ pcapWifiCb \/ PcapBleScan \/ appendFrame
  \/ \E t \in Senders : SenderStep(t)
  \/ pcapStart \/ pcapStartFails \/ pcapStop \/ StopReturns
  \/ PhoneGoes \/ PhoneComes

\* The scheduler runs the sender, a callback and the stopping task on.
Fairness ==
  /\ WF_vars(appendFrame) /\ WF_vars(StopReturns)
  /\ \A t \in Senders : WF_vars(SenderStep(t))

Spec == Init /\ [][Next]_vars /\ Fairness

-----------------------------------------------------------------------------
(* Properties.                                                             *)

Held(b) == {mem[b][i] : i \in 1..size[b]}
Moving  == UNION {{mem[sender[t].buf][i] : i \in sender[t].pos..sender[t].left} : t \in Streaming}
SentSet == {sent[i] : i \in 1..Len(sent)}

\* The variables keep their types, and no more counts in a buffer than fits.
TypeOK ==
  /\ {active, response, stopping, phone} \subseteq BOOLEAN
  /\ heap \in 0..MaxStarts /\ cur \in Buffers
  /\ size \in [Buffers -> 0..Capacity]
  /\ mem \in [Buffers -> [1..Capacity -> 0..MaxFrames]]
  /\ handle \in {NoTask} \cup Senders
  /\ sender \in [Senders -> [pc : {"none", "wait", "drain", "stream", "free", "leave"},
                             buf : Buffers, left : 0..Capacity, pos : 0..Capacity,
                             gen : 0..MaxStarts, last : BOOLEAN]]
  /\ isr \in 0..MaxFrames /\ unheard \subseteq Frames
  /\ starts \in 0..MaxStarts /\ drops \in 0..MaxDrops /\ frames \in 0..MaxFrames
  /\ sent \in Seq(0..MaxFrames)

\* The phone gets the frames in the order they were captured and none twice:
\* nothing overwrites a buffer between its drain and the end of its stream.
StreamedInOrder == \A i, j \in 1..Len(sent) : i < j => sent[i] < sent[j]

\* A capture that runs has its buffers and one sender, its own: the end of the
\* one before takes neither away.
CaptureEquipped ==
  active => heap # 0 /\ Alive = {handle}

\* The memory a sender streams from has not been freed.
NoUseAfterFree == \A t \in Streaming : sender[t].gen = heap

\* A frame that was taken into a buffer is still there, on its way, sent, or
\* was streamed while no phone listened or taken after the stop; the stop of a
\* capture loses nothing else.
TakenIsKept == [][\A b \in Buffers : \A f \in Held(b) :
              f \in Held(b)' \cup Moving' \cup SentSet' \cup unheard']_vars

\* pcapStop returns.
StopEnds == stopping ~> ~stopping

\* Every frame in a buffer is streamed in the end, also when no other follows
\* it that would fill the buffer.
BuffersEmpty == \A b \in Buffers : size[b] > 0 ~> size[b] = 0

\* The capture that runs owns its buffers and its one sender, and nobody reads
\* freed memory, however stops, starts and phones follow each other.
BuffersOwned == TypeOK /\ CaptureEquipped /\ NoUseAfterFree

\* A stop loses nothing and returns, and no frame stays behind in a buffer.
CaptureDrains == TakenIsKept /\ StopEnds /\ BuffersEmpty
============================================================================
