------------------------- MODULE PcapBuffersProofs -------------------------
(***************************************************************************)
(* The buffers of a capture, proved for every size, number of frames and   *)
(* number of captures: when no stop gives up on its sender, the capture    *)
(* that runs has its buffers and one sender, its own, and no sender reads  *)
(* freed memory.                                                           *)
(*                                                                         *)
(* The handle is what this rests on.  As long as it is set it names the    *)
(* only task there is; a task that frees or leaves has seen the capture    *)
(* stopped; and none starts before the handle is empty, because pcapStop   *)
(* waits for that.                                                         *)
(*                                                                         *)
(* When besides no sender is slower than two fills, the frames arrive in   *)
(* order.  What the phone has is the older part of the frames kept, the    *)
(* buffer being sent goes on where that ends, and the frames held in the   *)
(* other buffer are newer than those.                                      *)
(***************************************************************************)
EXTENDS PcapBuffers, TLAPS

Tasks == [pc : {"none", "wait", "drain", "stream", "free", "leave"},
          buf : Buffers, left : 0..Capacity, pos : 0..Capacity,
          gen : 0..MaxStarts, last : BOOLEAN]

\* There is one task while the handle is set and none otherwise.
OneTask ==
  /\ \A t \in Senders : t # handle => sender[t] = Idle
  /\ handle # NoTask => sender[handle].pc # "none"

\* A capture has its handle and its buffers, and a stop waits for the handle.
StopWaits ==
  /\ active => handle # NoTask /\ heap # 0 /\ ~stopping
  /\ ~active /\ ~stopping => handle = NoTask

\* A task that is about to free, leave or stop looping has seen the stop.
SeenStop ==
  \A t \in Senders :
    sender[t].pc \in {"free", "leave"} \/ sender[t].last => ~active

\* A task that streams is inside the buffers that are allocated.
InBuffers ==
  \A t \in Senders : sender[t].pc = "stream" =>
    sender[t].gen = heap /\ sender[t].pos \in 1..sender[t].left

\* What counts in a buffer and what is streamed are frames.
Filled ==
  /\ \A b \in Buffers : \A i \in 1..size[b] : mem[b][i] # 0
  /\ \A t \in Streaming : \A i \in 1..sender[t].left : mem[sender[t].buf][i] # 0

Owner == OneTask /\ StopWaits /\ SeenStop /\ InBuffers
IInv  == TypeOK /\ Owner /\ Filled

LEMMA Sizes ==
  Capacity \in Nat \ {0} /\ MaxFrames \in Nat /\ MaxStarts \in Nat /\ MaxDrops \in Nat
BY BoundsAssumption

USE Sizes

\* TypeOK in parts, one for what a step changes together.
TFlags   == /\ active \in BOOLEAN /\ response \in BOOLEAN
            /\ stopping \in BOOLEAN /\ phone \in BOOLEAN
TBuffers == /\ heap \in 0..MaxStarts /\ cur \in Buffers
            /\ size \in [Buffers -> 0..Capacity]
            /\ mem \in [Buffers -> [1..Capacity -> 0..MaxFrames]]
TTask    == handle \in {NoTask} \cup Senders /\ sender \in [Senders -> Tasks]
TCounts  == /\ isr \in 0..MaxFrames /\ starts \in 0..MaxStarts
            /\ drops \in 0..MaxDrops /\ frames \in 0..MaxFrames
THistory == unheard \subseteq Frames /\ sent \in Seq(0..MaxFrames)
Parts    == TFlags /\ TBuffers /\ TTask /\ TCounts /\ THistory

LEMMA TypeParts == TypeOK <=> Parts
<1>1. {active, response, stopping, phone} \subseteq BOOLEAN <=> TFlags
  BY DEF TFlags
<1> QED BY <1>1 DEF TypeOK, Parts, TBuffers, TTask, TCounts, THistory, Tasks

LEMMA TypePartsNext == TypeOK' <=> Parts'
BY TypeParts, PTL

LEMMA IdleType == Idle \in Tasks
BY DEF Idle, Tasks, Buffers

LEMMA InitInv == Init => IInv
<1> SUFFICES ASSUME Init PROVE IInv
  OBVIOUS
<1>1. TypeOK
  <2>1. TFlags
    BY DEF Init, TFlags
  <2>2. TBuffers
    BY DEF Init, TBuffers, Buffers
  <2>3. TTask
    BY IdleType DEF Init, TTask
  <2>4. TCounts /\ THistory
    BY DEF Init, TCounts, THistory
  <2> QED BY <2>1, <2>2, <2>3, <2>4, TypeParts DEF Parts
<1>2. Owner
  BY DEF Init, Owner, OneTask, StopWaits, SeenStop, InBuffers, Idle, NoTask, Senders
<1>3. Filled
  BY DEF Init, Filled, Streaming, Idle, Buffers
<1> QED BY <1>1, <1>2, <1>3 DEF IInv

-----------------------------------------------------------------------------
(* Types.                                                                  *)

LEMMA PutType ==
  ASSUME TypeOK, NEW b \in Buffers, size[b] < Capacity, Put(b)
  PROVE  /\ size' \in [Buffers -> 0..Capacity] /\ cur' \in Buffers
         /\ mem' \in [Buffers -> [1..Capacity -> 0..MaxFrames]]
<1>1. size[b] + 1 \in 1..Capacity /\ isr \in 0..MaxFrames
  BY SMTT(30) DEF TypeOK
<1>2. [mem[b] EXCEPT ![size[b] + 1] = isr] \in [1..Capacity -> 0..MaxFrames]
  BY <1>1 DEF TypeOK
<1>3. mem' = [mem EXCEPT ![b] = [mem[b] EXCEPT ![size[b] + 1] = isr]]
  BY DEF Put
<1>4. mem' \in [Buffers -> [1..Capacity -> 0..MaxFrames]]
  <2>1. mem \in [Buffers -> [1..Capacity -> 0..MaxFrames]]
    BY DEF TypeOK
  <2> QED BY <1>2, <1>3, <2>1
<1>5. size' \in [Buffers -> 0..Capacity]
  <2>1. size \in [Buffers -> 0..Capacity] /\ size' = [size EXCEPT ![b] = size[b] + 1]
    BY DEF TypeOK, Put
  <2>2. size[b] + 1 \in 0..Capacity
    BY <1>1
  <2> QED BY <2>1, <2>2
<1>6. cur' \in Buffers
  BY DEF Put
<1> QED BY <1>4, <1>5, <1>6

LEMMA TypeStep ==
  ASSUME IInv, [Next]_vars
  PROVE  TypeOK'
<1> USE DEF NoTask, Senders, Frames
<1>0. TFlags /\ TBuffers /\ TTask /\ TCounts /\ THistory /\ TypeOK
  BY TypeParts DEF IInv, Parts
<1> SUFFICES Parts'
  BY TypePartsNext
<1>1. CASE pcapWifiCb \/ PcapBleScan
  <2>0. PICK more \in BOOLEAN : HandOver(more)
    BY <1>1 DEF pcapWifiCb, PcapBleScan
  <2>a. response' \in BOOLEAN
    BY <2>0, Zenon DEF HandOver
  <2>1. TFlags' /\ TCounts'
    BY <1>0, <2>0, <2>a DEF HandOver, TFlags, TCounts
  <2>2. TBuffers' /\ TTask' /\ THistory'
    BY <1>0, <1>1 DEF pcapWifiCb, PcapBleScan, HandOver, TBuffers, TTask, THistory,
                      buffers, history
  <2> QED BY <2>1, <2>2 DEF Parts
<1>2. CASE appendFrame
  <2>1. TBuffers'
    <3>1. Other(cur) \in Buffers
      BY DEF Other, Buffers
    <3>2. CASE heap # 0 /\ BufferRoom(cur)
      BY <1>0, <1>2, <3>2, PutType DEF appendFrame, BufferRoom, TBuffers
    <3>3. CASE heap # 0 /\ ~BufferRoom(cur) /\ size[Other(cur)] = 0
      <4>1. Put(Other(cur)) /\ UNCHANGED heap
        BY <1>2, <3>3, Zenon DEF appendFrame
      <4>2. size[Other(cur)] < Capacity
        BY <3>3
      <4>3. /\ size' \in [Buffers -> 0..Capacity] /\ cur' \in Buffers
            /\ mem' \in [Buffers -> [1..Capacity -> 0..MaxFrames]]
        BY <1>0, <3>1, <4>1, <4>2, PutType
      <4> QED BY <1>0, <4>1, <4>3 DEF TBuffers
    <3>4. CASE heap = 0 \/ (~BufferRoom(cur) /\ size[Other(cur)] # 0)
      BY <1>0, <1>2, <3>4 DEF appendFrame, TBuffers
    <3> QED BY <3>2, <3>3, <3>4
  <2>2. TCounts'
    BY <1>0, <1>2 DEF appendFrame, TCounts
  <2>3. TFlags' /\ TTask'
    BY <1>0, <1>2 DEF appendFrame, TFlags, TTask
  <2>4. THistory'
    BY <1>0, <1>2 DEF appendFrame, THistory, TCounts
  <2> QED BY <2>1, <2>2, <2>3, <2>4 DEF Parts
<1>3. ASSUME NEW t \in Senders, SenderStep(t)
      PROVE  Parts'
  <2>0. sender \in [Senders -> Tasks] /\ sender[t] \in Tasks
    BY <1>0 DEF TTask
  <2>a. AfterDrain(t) \in {"free", "wait"}
    BY DEF AfterDrain
  <2>1. TFlags' /\ TCounts'
    BY <1>0, <1>3 DEF SenderStep, Wake, drainBuffersOverBle, Stream, freeBuffers, Leave,
                      TFlags, TCounts, bounds
  <2>2. TBuffers'
    <3>1. DrainChoice \in Buffers /\ Other(cur) \in Buffers
      BY <1>0 DEF DrainChoice, Other, Buffers, TBuffers
    <3>2. CASE drainBuffersOverBle(t)
      BY <1>0, <3>1, <3>2 DEF drainBuffersOverBle, TBuffers
    <3>3. CASE freeBuffers(t)
      BY <1>0, <3>3 DEF freeBuffers, TBuffers, Buffers
    <3>4. CASE Wake(t) \/ Stream(t) \/ Leave(t)
      BY <1>0, <3>4 DEF Wake, Stream, Leave, TBuffers, buffers
    <3> QED BY <1>3, <3>2, <3>3, <3>4 DEF SenderStep
  <2>3. TTask' /\ THistory'
    <3>1. CASE Wake(t)
      <4>1. (~active /\ \A b \in Buffers : size[b] = 0) \in BOOLEAN
        OBVIOUS
      <4>2. PICK l \in BOOLEAN : sender' = [sender EXCEPT ![t].pc = "drain", ![t].last = l]
        BY <3>1, <4>1 DEF Wake
      <4>3. sender' \in [Senders -> Tasks]
        BY <2>0, <4>2 DEF Tasks
      <4> QED BY <1>0, <3>1, <4>3 DEF Wake, TTask, THistory, history
    <3>2. CASE drainBuffersOverBle(t)
      <4>1. DrainChoice \in Buffers
        BY <1>0 DEF DrainChoice, Other, Buffers, TBuffers
      <4>2. size[DrainChoice] \in 0..Capacity /\ 1 \in 0..Capacity /\ heap \in 0..MaxStarts
        BY <1>0, <4>1 DEF TBuffers
      <4>3. sender' \in [Senders -> Tasks]
        BY <2>0, <2>a, <3>2, <4>1, <4>2 DEF drainBuffersOverBle, Tasks
      <4> QED BY <1>0, <3>2, <4>3 DEF drainBuffersOverBle, TTask, THistory, history
    <3>3. CASE Stream(t)
      <4> DEFINE s == sender[t]
                 f == mem[s.buf][s.pos]
      <4>1. s.pos \in 1..s.left /\ s.left \in 0..Capacity /\ s.buf \in Buffers
        BY <2>0, <3>3 DEF Stream, IInv, Owner, InBuffers, Tasks
      <4>2. f \in 0..MaxFrames /\ f # 0
        <5>1. t \in Streaming
          BY <3>3 DEF Stream, Streaming
        <5>2. s.pos \in 1..Capacity
          BY <4>1
        <5> QED BY <1>0, <4>1, <5>1, <5>2 DEF IInv, Filled, TBuffers
      <4>3. THistory'
        <5>1. CASE phone
          <6>1. sent' = Append(sent, f) /\ unheard' = unheard
            BY <3>3, <5>1, Zenon DEF Stream
          <6> QED BY <1>0, <4>2, <6>1 DEF THistory
        <5>2. CASE ~phone
          BY <1>0, <3>3, <4>2, <5>2 DEF Stream, THistory
        <5> QED BY <5>1, <5>2
      <4>4. sender' \in [Senders -> Tasks]
        <5>1. CASE s.pos = s.left
          <6>1. [Idle EXCEPT !.pc = AfterDrain(t), !.last = s.last] \in Tasks
            BY <2>0, <2>a, IdleType DEF Idle, Tasks
          <6> QED BY <2>0, <3>3, <5>1, <6>1 DEF Stream
        <5>2. CASE s.pos # s.left
          <6>1. s.pos + 1 \in 0..Capacity
            BY <4>1, <5>2
          <6> QED BY <2>0, <3>3, <5>2, <6>1 DEF Stream, Tasks
        <5> QED BY <5>1, <5>2
      <4> QED BY <1>0, <3>3, <4>3, <4>4 DEF Stream, TTask
    <3>4. CASE freeBuffers(t)
      BY <1>0, <2>0, <3>4 DEF freeBuffers, TTask, THistory, Tasks, history
    <3>5. CASE Leave(t)
      BY <1>0, <2>0, <3>5, IdleType DEF Leave, TTask, THistory, history
    <3> QED BY <1>3, <3>1, <3>2, <3>3, <3>4, <3>5 DEF SenderStep
  <2> QED BY <2>1, <2>2, <2>3 DEF Parts
<1>4. CASE pcapStart
  <2>1. starts + 1 \in Senders
    BY <1>0, <1>4 DEF pcapStart, TCounts
  <2>2. TTask'
    <3>1. sender \in [Senders -> Tasks] /\ [sender[starts + 1] EXCEPT !.pc = "wait"] \in Tasks
      BY <1>0, <2>1 DEF TTask, Tasks
    <3>2. sender' = [sender EXCEPT ![starts + 1] = [sender[starts + 1] EXCEPT !.pc = "wait"]]
      BY <1>4 DEF pcapStart
    <3>3. handle' = starts + 1
      BY <1>4 DEF pcapStart
    <3>4. sender' \in [Senders -> Tasks]
      BY <2>1, <3>1, <3>2
    <3> QED BY <2>1, <3>3, <3>4 DEF TTask
  <2>3. TBuffers' /\ TCounts'
    BY <1>0, <1>4, <2>1 DEF pcapStart, TBuffers, TCounts, Buffers
  <2>4. TFlags' /\ THistory'
    BY <1>0, <1>4 DEF pcapStart, TFlags, THistory, history
  <2> QED BY <2>2, <2>3, <2>4 DEF Parts
<1>5. CASE pcapStartFails
  <2>1. TBuffers' /\ TCounts'
    BY <1>0, <1>5 DEF pcapStartFails, TBuffers, TCounts, Buffers, buffers
  <2>2. TFlags' /\ TTask' /\ THistory'
    BY <1>0, <1>5 DEF pcapStartFails, TFlags, TTask, THistory, history
  <2> QED BY <2>1, <2>2 DEF Parts
<1>6. CASE pcapStop
  <2>1. TBuffers' /\ TCounts'
    BY <1>0, <1>6 DEF pcapStop, TBuffers, TCounts, Buffers, buffers, bounds
  <2>2. TFlags' /\ TTask' /\ THistory'
    BY <1>0, <1>6 DEF pcapStop, TFlags, TTask, THistory, history
  <2> QED BY <2>1, <2>2 DEF Parts
<1>7. CASE StopReturns \/ PhoneGoes \/ PhoneComes
  <2>1. TBuffers'
    BY <1>0, <1>7 DEF StopReturns, PhoneGoes, PhoneComes, TBuffers, buffers
  <2>a. TCounts'
    BY <1>0, <1>7 DEF StopReturns, PhoneGoes, PhoneComes, TCounts, bounds
  <2>2. TFlags' /\ TTask' /\ THistory'
    BY <1>0, <1>7 DEF StopReturns, PhoneGoes, PhoneComes, TFlags, TTask, THistory, history
  <2> QED BY <2>1, <2>a, <2>2 DEF Parts
<1>8. CASE UNCHANGED vars
  BY <1>0, <1>8 DEF vars, Parts, TFlags, TBuffers, TTask, TCounts, THistory,
                    buffers, bounds, history
<1> QED BY <1>1, <1>2, <1>3, <1>4, <1>5, <1>6, <1>7, <1>8 DEF Next

-----------------------------------------------------------------------------
(* The handle.                                                             *)

\* Whoever takes a step is the task of the handle.
LEMMA AliveIsOwner ==
  ASSUME IInv, NEW t \in Senders, sender[t].pc # "none"
  PROVE  t = handle /\ handle # NoTask
BY DEF IInv, Owner, OneTask, Idle, NoTask, Senders

\* The steps of a sender keep the ownership.
LEMMA SenderKeepsOwner ==
  ASSUME IInv, NEW t \in Senders, SenderStep(t)
  PROVE  Owner'
<1> USE DEF NoTask, Senders
<1>0. TTask /\ TBuffers /\ Owner
  BY TypeParts DEF IInv, Parts
<1>1. t = handle /\ handle # NoTask
  BY AliveIsOwner DEF SenderStep, Wake, drainBuffersOverBle, Stream, freeBuffers, Leave
<1>2. sender[t] \in Tasks /\ sender \in [Senders -> Tasks]
  BY <1>0 DEF TTask
<1>3. AfterDrain(t) \in {"free", "wait"} /\ (AfterDrain(t) = "free" => sender[t].last)
  BY DEF AfterDrain
<1>4. active' = active /\ stopping' = stopping
  BY DEF SenderStep, Wake, drainBuffersOverBle, Stream, freeBuffers, Leave
<1>5. CASE Wake(t)
  BY <1>0, <1>1, <1>2, <1>4, <1>5
     DEF Wake, Owner, OneTask, StopWaits, SeenStop, InBuffers, buffers, Tasks
<1>6. CASE drainBuffersOverBle(t)
  <2>1. DrainChoice \in Buffers
    BY <1>0 DEF DrainChoice, Other, Buffers, TBuffers
  <2>2. size[DrainChoice] # 0 => 1 \in 1..size[DrainChoice]
    BY <1>0, <2>1 DEF TBuffers
  <2> QED BY <1>0, <1>1, <1>2, <1>3, <1>4, <1>6, <2>1, <2>2
          DEF drainBuffersOverBle, Owner, OneTask, StopWaits, SeenStop, InBuffers, Tasks
<1>7. CASE Stream(t)
  <2>1. sender[t].pos \in 1..sender[t].left /\ sender[t].left \in 0..Capacity
    BY <1>0, <1>2, <1>7 DEF Stream, Owner, InBuffers, Tasks
  <2>2. sender[t].pos # sender[t].left => sender[t].pos + 1 \in 1..sender[t].left
    BY <2>1
  <2> QED BY SMTT(30), <1>0, <1>1, <1>2, <1>3, <1>4, <1>7, <2>1, <2>2
          DEF Stream, Owner, OneTask, StopWaits, SeenStop, InBuffers, Tasks, Idle, buffers
<1>8. CASE freeBuffers(t)
  BY <1>0, <1>1, <1>2, <1>4, <1>8
     DEF freeBuffers, Owner, OneTask, StopWaits, SeenStop, InBuffers, Tasks, Idle
<1>9. CASE Leave(t)
  <2>1. ~active /\ handle' = NoTask /\ heap' = heap
    BY <1>0, <1>9 DEF Leave, Owner, SeenStop, buffers
  <2>2. sender' = [u \in Senders |-> Idle]
    BY <1>0, <1>1, <1>2, <1>9 DEF Leave, Owner, OneTask
  <2> QED BY <1>4, <2>1, <2>2 DEF Owner, OneTask, StopWaits, SeenStop, InBuffers, Idle
<1> QED BY <1>5, <1>6, <1>7, <1>8, <1>9 DEF SenderStep

LEMMA OwnerStep ==
  ASSUME IInv, [Next]_vars, "timeout" \notin Faults
  PROVE  Owner'
<1> USE DEF NoTask, Senders
<1>0. TTask /\ TBuffers /\ TCounts /\ Owner
  BY TypeParts DEF IInv, Parts
<1>1. CASE pcapWifiCb \/ PcapBleScan \/ appendFrame
  BY <1>0, <1>1 DEF pcapWifiCb, PcapBleScan, HandOver, appendFrame, Owner, OneTask,
                    StopWaits, SeenStop, InBuffers, buffers
<1>2. CASE \E t \in Senders : SenderStep(t)
  BY <1>2, SenderKeepsOwner
<1>3. CASE pcapStart
  <2>1. starts + 1 \in Senders /\ starts + 1 # NoTask /\ handle = NoTask
    BY <1>0, <1>3 DEF pcapStart, TCounts, Owner, StopWaits
  <2>2. heap' # 0
    BY <1>0, <1>3 DEF pcapStart, TCounts
  <2>3. \A t \in Senders : sender[t] = Idle
    BY <1>0, <2>1 DEF Owner, OneTask
  <2>4. sender' = [sender EXCEPT ![starts + 1] = [Idle EXCEPT !.pc = "wait"]]
    BY <1>0, <1>3, <2>1, <2>3 DEF pcapStart, TTask
  <2> QED BY <1>0, <1>3, <2>1, <2>2, <2>3, <2>4
          DEF pcapStart, TTask, Owner, OneTask, StopWaits, SeenStop, InBuffers, Idle
<1>4. CASE pcapStartFails
  <2>1. handle = NoTask
    BY <1>0, <1>4 DEF pcapStartFails, Owner, StopWaits
  <2> QED BY <1>0, <1>4, <2>1
          DEF pcapStartFails, Owner, OneTask, StopWaits, SeenStop, InBuffers, Idle
<1>5. CASE pcapStop
  <2>1. UNCHANGED buffers
    BY <1>0, <1>5 DEF pcapStop, Owner, StopWaits
  <2> QED BY <1>0, <1>5, <2>1
          DEF pcapStop, Owner, OneTask, StopWaits, SeenStop, InBuffers, buffers
<1>6. CASE StopReturns
  BY <1>0, <1>6 DEF StopReturns, Owner, OneTask, StopWaits, SeenStop, InBuffers, buffers
<1>7. CASE PhoneGoes \/ PhoneComes
  BY <1>0, <1>7 DEF PhoneGoes, PhoneComes, Owner, OneTask, StopWaits, SeenStop,
                    InBuffers, buffers
<1>8. CASE UNCHANGED vars
  BY <1>0, <1>8 DEF vars, Owner, OneTask, StopWaits, SeenStop, InBuffers, buffers
<1> QED BY <1>1, <1>2, <1>3, <1>4, <1>5, <1>6, <1>7, <1>8 DEF Next

-----------------------------------------------------------------------------
(* What is in the buffers.                                                 *)

LEMMA PutFills ==
  ASSUME TypeOK, Filled, NEW b \in Buffers, Put(b), size[b] < Capacity, isr # 0
  PROVE  /\ \A c \in Buffers : \A i \in 1..size'[c] : mem'[c][i] # 0
         /\ \A c \in Buffers : \A i \in 1..Capacity : mem[c][i] # 0 => mem'[c][i] # 0
<1>1. /\ size \in [Buffers -> 0..Capacity]
      /\ mem \in [Buffers -> [1..Capacity -> 0..MaxFrames]]
  BY DEF TypeOK
<1>2. ASSUME NEW c \in Buffers, NEW i \in 1..Capacity
      PROVE  mem'[c][i] = IF c = b /\ i = size[b] + 1 THEN isr ELSE mem[c][i]
  BY <1>1 DEF Put
<1>3. ASSUME NEW c \in Buffers, NEW i \in 1..size'[c]
      PROVE  mem'[c][i] # 0
  <2>1. size'[c] = IF c = b THEN size[c] + 1 ELSE size[c]
    BY <1>1 DEF Put
  <2>2. i \in 1..Capacity
    BY <1>1, <1>3, <2>1
  <2>3. i # size[c] + 1 => i \in 1..size[c]
    BY <1>1, <2>1
  <2> QED BY <1>2, <2>1, <2>2, <2>3 DEF Filled
<1> QED BY <1>1, <1>2, <1>3 DEF Put

LEMMA FilledStep ==
  ASSUME IInv, [Next]_vars
  PROVE  Filled'
<1> USE DEF NoTask, Senders
<1>0. TTask /\ TBuffers /\ TCounts /\ Owner /\ Filled /\ TypeOK
  BY TypeParts DEF IInv, Parts
<1>a. \A t \in Senders : sender[t].buf \in Buffers /\ sender[t].left \in 0..Capacity
  BY <1>0 DEF TTask, Tasks
<1>1. CASE pcapWifiCb \/ PcapBleScan
  BY <1>0, <1>1 DEF pcapWifiCb, PcapBleScan, HandOver, Filled, Streaming, buffers
<1>2. CASE appendFrame
  <2>1. UNCHANGED sender /\ isr # 0
    BY <1>2 DEF appendFrame
  <2>2. UNCHANGED <<size, mem>> \/ \E b \in Buffers : Put(b) /\ size[b] < Capacity
    <3>1. cur \in Buffers /\ Other(cur) \in Buffers
      BY <1>0 DEF TBuffers, Other, Buffers
    <3>2. \/ UNCHANGED <<size, mem>>
          \/ Put(cur) /\ BufferRoom(cur)
          \/ Put(Other(cur)) /\ size[Other(cur)] = 0
      BY <1>2, Zenon DEF appendFrame
    <3> QED BY <3>1, <3>2 DEF BufferRoom
  <2>3. CASE UNCHANGED <<size, mem>>
    BY <1>0, <2>1, <2>3 DEF Filled, Streaming
  <2>4. ASSUME NEW b \in Buffers, Put(b), size[b] < Capacity
        PROVE  Filled'
    <3>1. \A c \in Buffers : \A i \in 1..size'[c] : mem'[c][i] # 0
      BY <1>0, <2>1, <2>4, PutFills
    <3>2. \A c \in Buffers : \A i \in 1..Capacity : mem[c][i] # 0 => mem'[c][i] # 0
      BY <1>0, <2>1, <2>4, PutFills
    <3> QED BY <1>0, <1>a, <2>1, <3>1, <3>2 DEF Filled, Streaming
  <2> QED BY <2>2, <2>3, <2>4
<1>3. ASSUME NEW t \in Senders, SenderStep(t)
      PROVE  Filled'
  <2>0. sender \in [Senders -> Tasks] /\ sender[t] \in Tasks
    BY <1>0 DEF TTask
  <2>1. CASE Wake(t)
    BY SMTT(30), <1>0, <2>0, <2>1 DEF Wake, Filled, Streaming, buffers, Tasks
  <2>2. CASE drainBuffersOverBle(t)
    <3>1. DrainChoice \in Buffers
      BY <1>0 DEF DrainChoice, Other, Buffers, TBuffers
    <3>2. AfterDrain(t) # "stream"
      BY DEF AfterDrain
    <3>3. UNCHANGED mem /\ size' = [size EXCEPT ![DrainChoice] = 0]
      BY <2>2 DEF drainBuffersOverBle
    <3>4. \A c \in Buffers : \A i \in 1..size'[c] : mem'[c][i] # 0
      BY <1>0, <3>1, <3>3 DEF Filled, TBuffers
    <3>5. \A u \in Streaming' : \A i \in 1..sender'[u].left : mem'[sender'[u].buf][i] # 0
      BY SMTT(30), <1>0, <2>0, <2>2, <3>1, <3>2, <3>3 DEF drainBuffersOverBle, Filled, Streaming, Tasks
    <3> QED BY <3>4, <3>5 DEF Filled
  <2>3. CASE Stream(t)
    <3>1. AfterDrain(t) # "stream"
      BY DEF AfterDrain
    <3> QED BY SMTT(30), <1>0, <2>0, <2>3, <3>1 DEF Stream, Filled, Streaming, Tasks, Idle, buffers
  <2>4. CASE freeBuffers(t)
    BY <1>0, <2>0, <2>4 DEF freeBuffers, Filled, Streaming, Tasks
  <2>5. CASE Leave(t)
    BY <1>0, <2>0, <2>5 DEF Leave, Filled, Streaming, Tasks, Idle, buffers
  <2> QED BY <1>3, <2>1, <2>2, <2>3, <2>4, <2>5 DEF SenderStep
<1>4. CASE pcapStart
  <2>1. starts + 1 \in Senders
    BY <1>0, <1>4 DEF pcapStart, TCounts
  <2> QED BY SMTT(30), <1>0, <1>4, <2>1 DEF pcapStart, Filled, Streaming, TTask, Tasks
<1>5. CASE pcapStartFails \/ pcapStop
  BY <1>0, <1>5 DEF pcapStartFails, pcapStop, Filled, Streaming, buffers
<1>6. CASE StopReturns \/ PhoneGoes \/ PhoneComes
  BY <1>0, <1>6 DEF StopReturns, PhoneGoes, PhoneComes, Filled, Streaming, buffers
<1>7. CASE UNCHANGED vars
  BY <1>0, <1>7 DEF vars, Filled, Streaming, buffers
<1> QED BY <1>1, <1>2, <1>3, <1>4, <1>5, <1>6, <1>7 DEF Next

-----------------------------------------------------------------------------
(* The theorem.                                                            *)

LEMMA InvOwned == IInv => BuffersOwned
<1> SUFFICES ASSUME IInv PROVE BuffersOwned
  OBVIOUS
<1>1. TypeOK /\ Owner
  BY DEF IInv
<1>2. handle \in {NoTask} \cup Senders
  BY <1>1 DEF TypeOK
<1>3. CaptureEquipped
  BY <1>1, <1>2 DEF CaptureEquipped, Alive, Owner, OneTask, StopWaits, Idle
<1>4. NoUseAfterFree
  BY <1>1 DEF NoUseAfterFree, Streaming, Owner, InBuffers
<1> QED BY <1>1, <1>3, <1>4 DEF BuffersOwned

\* As long as no stop gives up on its sender, the capture that runs has its
\* buffers and one sender, its own, and no sender streams from memory that was
\* freed, however many captures, lost phones and failed starts there are
\* (pcapStop, pcapSenderTask, freeBuffers).
THEOREM CaptureOwnsBuffers ==
  ASSUME "timeout" \notin Faults
  PROVE  Spec => []BuffersOwned
<1>1. Init => IInv
  BY InitInv
<1>2. IInv /\ [Next]_vars => IInv'
  BY TypeStep, OwnerStep, FilledStep DEF IInv
<1>3. IInv => BuffersOwned
  BY InvOwned
<1> QED BY <1>1, <1>2, <1>3, PTL DEF Spec

-----------------------------------------------------------------------------
(* The order of the frames.                                                *)

\* The number of the last frame that may be in a buffer, on its way or sent.
Newest == IF isr # 0 THEN isr - 1 ELSE frames

\* What was sent is older than what is streamed and what is held.
SentFirst ==
  \A k \in 1..Len(sent) :
    /\ sent[k] <= Newest
    /\ \A t \in Streaming : \A i \in sender[t].pos..sender[t].left :
         sent[k] < mem[sender[t].buf][i]
    /\ \A b \in Buffers : \A i \in 1..size[b] : sent[k] < mem[b][i]

\* What is streamed is in order and older than what is held, and the callbacks
\* fill the other buffer meanwhile.
MovingNext ==
  \A t \in Streaming :
    LET b == sender[t].buf IN
    /\ cur = Other(b) /\ size[b] = 0
    /\ \A i \in sender[t].pos..sender[t].left :
         /\ mem[b][i] <= Newest
         /\ \A j \in sender[t].pos..sender[t].left : i < j => mem[b][i] < mem[b][j]
         /\ \A j \in 1..size[cur] : mem[b][i] < mem[cur][j]

\* What is held is in order, the buffer being filled last.
HeldLast ==
  /\ \A b \in Buffers : \A i \in 1..size[b] :
       /\ mem[b][i] <= Newest
       /\ \A j \in 1..size[b] : i < j => mem[b][i] < mem[b][j]
  /\ \A i \in 1..size[Other(cur)] : \A j \in 1..size[cur] : mem[Other(cur)][i] < mem[cur][j]

Ordered == isr \in {0, frames} /\ SentFirst /\ MovingNext /\ HeldLast /\ StreamedInOrder

\* Steps that leave frames, buffers and streams alone.
LEMMA NothingMoves ==
  ASSUME IInv, Ordered, UNCHANGED <<isr, frames, cur, size, mem, sent>>,
         Streaming' = Streaming, \A t \in Streaming : sender'[t] = sender[t]
  PROVE  Ordered'
<1>1. Newest' = Newest
  BY DEF Newest
<1>2. SentFirst'
  BY <1>1 DEF Ordered, SentFirst
<1>3. MovingNext'
  BY <1>1 DEF Ordered, MovingNext
<1>4. HeldLast'
  BY <1>1 DEF Ordered, HeldLast
<1> QED BY <1>2, <1>3, <1>4 DEF Ordered, StreamedInOrder

LEMMA OthersKept ==
  ASSUME IInv, NEW t \in Senders, sender[t].pc # "none"
  PROVE  \A u \in Senders : u # t => u \notin Streaming
BY DEF IInv, Owner, OneTask, Streaming, Idle

\* A callback hands over the next frame.
LEMMA HandOverOrdered ==
  ASSUME IInv, Ordered, NEW more \in BOOLEAN, HandOver(more)
  PROVE  Ordered'
<1>1. UNCHANGED <<cur, size, mem, sender, sent>>
  BY DEF HandOver, buffers, history
<1>2. isr = 0 /\ isr' = frames' /\ frames' = frames + 1 /\ frames \in Nat
  BY DEF HandOver, IInv, TypeOK
<1>3. Newest' = Newest
  BY <1>2 DEF Newest
<1>4. SentFirst'
  BY <1>1, <1>3 DEF Ordered, SentFirst, Streaming
<1>5. MovingNext'
  BY <1>1, <1>3 DEF Ordered, MovingNext, Streaming
<1>6. HeldLast'
  BY <1>1, <1>3 DEF Ordered, HeldLast
<1> QED BY <1>1, <1>2, <1>4, <1>5, <1>6 DEF Ordered, StreamedInOrder

\* appendFrame puts it behind everything else.
LEMMA AppendOrdered ==
  ASSUME IInv, Ordered, appendFrame, "slow" \notin Faults
  PROVE  Ordered'
<1>0. TTask /\ TBuffers /\ TCounts /\ THistory
  BY TypeParts DEF IInv, Parts
<1>1. isr # 0 /\ isr = frames /\ UNCHANGED <<sender, sent>>
  BY DEF appendFrame, Ordered
<1>2. frames \in Nat /\ Newest = isr - 1 /\ isr' \in {0, frames'} /\ Newest' = isr
  BY <1>0, <1>1 DEF Newest, appendFrame, TCounts
<1>3. cur \in Buffers /\ Other(cur) \in Buffers /\ Other(cur) # cur /\ Other(Other(cur)) = cur
  BY <1>0 DEF TBuffers, Other, Buffers
<1>4. StreamedInOrder'
  BY <1>1 DEF Ordered, StreamedInOrder
<1>5. \/ UNCHANGED <<cur, size, mem>>
      \/ Put(cur) /\ BufferRoom(cur)
      \/ /\ Put(Other(cur)) /\ size[Other(cur)] = 0
         /\ \A t \in Streaming : sender[t].buf = cur
  BY <1>3, Zenon DEF appendFrame
<1>6. \A b \in Buffers : size[b] \in 0..Capacity /\ \A k \in 1..Capacity : mem[b][k] \in 0..MaxFrames
  BY <1>0 DEF TBuffers
<1>7. \A t \in Streaming : /\ sender[t].buf \in Buffers /\ sender[t].left \in 0..Capacity
                           /\ sender[t].pos \in 1..sender[t].left
  BY <1>0 DEF TTask, Tasks, Streaming, IInv, Owner, InBuffers
<1>8. \A k \in 1..Len(sent) : sent[k] \in 0..MaxFrames
  BY <1>0 DEF THistory
<1>9. CASE UNCHANGED <<cur, size, mem>>
  <2>1. SentFirst'
    BY <1>1, <1>2, <1>8, <1>9 DEF Ordered, SentFirst, Streaming
  <2>2. MovingNext'
    BY <1>1, <1>2, <1>6, <1>7, <1>9 DEF Ordered, MovingNext, Streaming
  <2>3. HeldLast'
    BY <1>1, <1>2, <1>6, <1>9 DEF Ordered, HeldLast
  <2> QED BY <1>2, <1>4, <2>1, <2>2, <2>3 DEF Ordered
<1>10. ASSUME NEW b \in Buffers, Put(b), size[b] < Capacity,
              b = cur \/ (b = Other(cur) /\ size[b] = 0),
              \A t \in Streaming : sender[t].buf # b
       PROVE  Ordered'
  <2>1. cur' = b /\ Other(b) \in Buffers /\ Other(b) # b
    BY <1>10 DEF Put, Other, Buffers
  <2>2. \A c \in Buffers : size'[c] = IF c = b THEN size[c] + 1 ELSE size[c]
    BY <1>0, <1>10 DEF Put, TBuffers
  <2>3. \A c \in Buffers : \A k \in 1..Capacity :
          mem'[c][k] = IF c = b /\ k = size[b] + 1 THEN isr ELSE mem[c][k]
    BY <1>0, <1>10 DEF Put, TBuffers
  <2>4. \A c \in Buffers : \A k \in 1..size'[c] :
          \/ c = b /\ k = size[b] + 1 /\ mem'[c][k] = isr
          \/ k \in 1..size[c] /\ mem'[c][k] = mem[c][k]
    BY <1>6, <1>10, <2>2, <2>3
  <2>5. \A t \in Streaming : \A i \in sender[t].pos..sender[t].left :
          i \in 1..Capacity /\ mem'[sender[t].buf][i] = mem[sender[t].buf][i]
    BY <1>7, <1>10, <2>3
  <2>6. SentFirst'
    <3>1. \A k \in 1..Len(sent) : sent[k] <= Newest' /\ sent[k] < isr
      BY <1>2, <1>8, <1>1 DEF Ordered, SentFirst
    <3>2. \A k \in 1..Len(sent) : \A t \in Streaming :
            \A i \in sender[t].pos..sender[t].left : sent[k] < mem'[sender[t].buf][i]
      BY <2>5 DEF Ordered, SentFirst
    <3>3. \A k \in 1..Len(sent) : \A c \in Buffers : \A i \in 1..size'[c] : sent[k] < mem'[c][i]
      BY <2>4, <3>1 DEF Ordered, SentFirst
    <3> QED BY <1>1, <3>1, <3>2, <3>3 DEF SentFirst, Streaming
  <2>7. MovingNext'
    <3> SUFFICES ASSUME NEW t \in Streaming
                 PROVE  /\ b = Other(sender[t].buf) /\ size'[sender[t].buf] = 0
                        /\ \A i \in sender[t].pos..sender[t].left :
                             LET c == sender[t].buf IN
                             /\ mem'[c][i] <= isr
                             /\ \A j \in sender[t].pos..sender[t].left :
                                  i < j => mem'[c][i] < mem'[c][j]
                             /\ \A j \in 1..size'[b] : mem'[c][i] < mem'[b][j]
      BY <1>1, <1>2, <2>1 DEF MovingNext, Streaming
    <3> DEFINE c == sender[t].buf
    <3>1. c \in Buffers /\ c # b /\ b = Other(c) /\ cur = b
      BY <1>3, <1>7, <1>10 DEF Ordered, MovingNext, Other, Buffers
    <3>2. size[c] = 0 /\ size'[c] = 0
      BY <2>2, <3>1 DEF Ordered, MovingNext
    <3>3. ASSUME NEW i \in sender[t].pos..sender[t].left
          PROVE  /\ mem'[c][i] <= isr
                 /\ \A j \in sender[t].pos..sender[t].left : i < j => mem'[c][i] < mem'[c][j]
                 /\ \A j \in 1..size'[b] : mem'[c][i] < mem'[b][j]
      <4>1. mem'[c][i] = mem[c][i] /\ mem[c][i] \in Nat /\ mem[c][i] <= isr - 1
        BY <1>2, <1>6, <2>5, <3>1 DEF Ordered, MovingNext
      <4>2. \A j \in sender[t].pos..sender[t].left : i < j => mem'[c][i] < mem'[c][j]
        BY <2>5, <3>1 DEF Ordered, MovingNext
      <4>3. \A j \in 1..size[b] : mem[c][i] < mem[b][j]
        BY <3>1 DEF Ordered, MovingNext
      <4>4. \A j \in 1..size'[b] : mem'[c][i] < mem'[b][j]
        BY <1>1, <1>2, <2>4, <4>1, <4>3
      <4> QED BY <1>1, <1>2, <4>1, <4>2, <4>4
    <3> QED BY <3>1, <3>2, <3>3
  <2>8. HeldLast'
    <3>1. \A c \in Buffers : \A i \in 1..size[c] : mem[c][i] \in Nat /\ mem[c][i] <= isr - 1
      BY <1>2, <1>6 DEF Ordered, HeldLast
    <3>2. \A c \in Buffers : \A i \in 1..size'[c] : mem'[c][i] <= Newest'
      BY <1>1, <1>2, <2>4, <3>1
    <3>3. \A c \in Buffers : \A i, j \in 1..size'[c] : i < j => mem'[c][i] < mem'[c][j]
      <4> SUFFICES ASSUME NEW c \in Buffers, NEW i \in 1..size'[c], NEW j \in 1..size'[c], i < j
                   PROVE  mem'[c][i] < mem'[c][j]
        OBVIOUS
      <4>1. i \in 1..size[c] /\ mem'[c][i] = mem[c][i]
        BY <1>6, <2>2, <2>3
      <4>2. CASE j \in 1..size[c] /\ mem'[c][j] = mem[c][j]
        BY <4>1, <4>2 DEF Ordered, HeldLast
      <4>3. CASE mem'[c][j] = isr
        BY <1>1, <1>2, <3>1, <4>1, <4>3
      <4> QED BY <2>4, <4>2, <4>3
    <3>4. \A i \in 1..size'[Other(b)] : \A j \in 1..size'[b] : mem'[Other(b)][i] < mem'[b][j]
      <4> SUFFICES ASSUME NEW i \in 1..size'[Other(b)], NEW j \in 1..size'[b]
                   PROVE  mem'[Other(b)][i] < mem'[b][j]
        OBVIOUS
      <4>1. i \in 1..size[Other(b)] /\ mem'[Other(b)][i] = mem[Other(b)][i]
        BY <2>1, <2>4
      <4>2. CASE j \in 1..size[b] /\ mem'[b][j] = mem[b][j]
        <5>1. b = cur
          BY <1>10, <4>2
        <5> QED BY <4>1, <4>2, <5>1 DEF Ordered, HeldLast
      <4>3. CASE mem'[b][j] = isr
        BY <1>1, <1>2, <2>1, <3>1, <4>1, <4>3
      <4> QED BY <2>4, <4>2, <4>3
    <3> QED BY <2>1, <3>2, <3>3, <3>4 DEF HeldLast
  <2> QED BY <1>2, <1>4, <2>6, <2>7, <2>8 DEF Ordered
<1>12. CASE Put(cur) /\ BufferRoom(cur)
  <2>1. \A t \in Streaming : sender[t].buf # cur
    BY <1>7 DEF Ordered, MovingNext, Other, Buffers
  <2> QED BY <1>3, <1>10, <1>12, <2>1 DEF BufferRoom
<1>13. CASE /\ Put(Other(cur)) /\ size[Other(cur)] = 0
            /\ \A t \in Streaming : sender[t].buf = cur
  <2>1. size[Other(cur)] < Capacity
    BY <1>13
  <2>2. \A t \in Streaming : sender[t].buf # Other(cur)
    BY <1>3, <1>13
  <2> QED BY <1>3, <1>10, <1>13, <2>1, <2>2
<1> QED BY <1>5, <1>9, <1>12, <1>13

\* Emptied buffers with nobody streaming are in order.
LEMMA EmptiedOrdered ==
  ASSUME IInv, Ordered, UNCHANGED <<isr, frames, mem, sent>>,
         Streaming' = {}, cur' \in Buffers, \A b \in Buffers : size'[b] = 0
  PROVE  Ordered'
<1>1. Newest' = Newest
  BY DEF Newest
<1>2. SentFirst'
  BY <1>1 DEF Ordered, SentFirst
<1>3. MovingNext'
  BY DEF MovingNext
<1>4. HeldLast'
  BY DEF HeldLast, Other, Buffers
<1> QED BY <1>2, <1>3, <1>4 DEF Ordered, StreamedInOrder

\* The drain takes the older buffer and sends the callbacks to the other.
LEMMA DrainOrdered ==
  ASSUME IInv, Ordered, NEW t \in Senders, drainBuffersOverBle(t)
  PROVE  Ordered'
<1> DEFINE b == DrainChoice
<1>0. TTask /\ TBuffers /\ TCounts /\ THistory
  BY TypeParts DEF IInv, Parts
<1>1. b \in Buffers /\ cur \in Buffers /\ Other(cur) \in Buffers /\ b \in {cur, Other(cur)}
  BY <1>0 DEF DrainChoice, Other, Buffers, TBuffers
<1>2. Other(Other(cur)) = cur /\ Other(cur) # cur /\ Other(b) \in Buffers /\ Other(b) # b
  BY <1>1 DEF Other, Buffers
<1>3. b = cur => size[Other(cur)] = 0
  BY <1>0, <1>1, <1>2 DEF DrainChoice, TBuffers
<1>4. Streaming = {}
  BY OthersKept DEF drainBuffersOverBle, Streaming
<1>5. UNCHANGED <<isr, frames, mem, sent>> /\ size' = [size EXCEPT ![b] = 0]
  BY DEF drainBuffersOverBle, bounds, history
<1>6. sender \in [Senders -> Tasks]
  BY <1>0 DEF TTask
<1>7. CASE size[b] = 0
  <2>1. sender' = [sender EXCEPT ![t].pc = AfterDrain(t)] /\ cur' = cur
    BY <1>7 DEF drainBuffersOverBle
  <2>2. AfterDrain(t) # "stream"
    BY DEF AfterDrain
  <2>3. Streaming' = {}
    BY <1>4, <1>6, <2>1, <2>2 DEF Streaming, Tasks
  <2>4. size' = size
    BY <1>0, <1>1, <1>5, <1>7 DEF TBuffers
  <2> QED BY <1>4, <1>5, <2>1, <2>3, <2>4, NothingMoves
<1>8. CASE size[b] # 0
  <2>1. sender' = [sender EXCEPT ![t].pc = "stream", ![t].buf = b, ![t].gen = heap,
                                 ![t].left = size[b], ![t].pos = 1]
    BY <1>8 DEF drainBuffersOverBle
  <2>2. Streaming' = {t} /\ sender'[t].buf = b /\ sender'[t].left = size[b] /\ sender'[t].pos = 1
    BY <1>4, <1>6, <2>1 DEF Streaming, Tasks
  <2>3. cur' = Other(b)
    <3>1. size[b] > 0
      BY <1>0, <1>1, <1>8 DEF TBuffers
    <3> QED BY <1>1, <1>2, <3>1 DEF drainBuffersOverBle
  <2>4. \A c \in Buffers : size'[c] = IF c = b THEN 0 ELSE size[c]
    BY <1>0, <1>5 DEF TBuffers
  <2>5. Newest' = Newest
    BY <1>5 DEF Newest
  <2>6. SentFirst'
    <3>1. \A k \in 1..Len(sent) : sent[k] <= Newest /\ \A i \in 1..size[b] : sent[k] < mem[b][i]
      BY <1>1 DEF Ordered, SentFirst
    <3>2. \A k \in 1..Len(sent) : \A c \in Buffers : \A i \in 1..size'[c] : sent[k] < mem[c][i]
      BY <2>4 DEF Ordered, SentFirst
    <3> QED BY <1>5, <2>2, <2>5, <3>1, <3>2 DEF SentFirst
  <2>7. MovingNext'
    <3>1. \A i \in 1..size[b] : /\ mem[b][i] <= Newest
                                /\ \A j \in 1..size[b] : i < j => mem[b][i] < mem[b][j]
      BY <1>1 DEF Ordered, HeldLast
    <3>2. \A i \in 1..size[b] : \A j \in 1..size[Other(b)] : mem[b][i] < mem[Other(b)][j]
      <4>1. CASE b = cur
        BY <1>3, <4>1
      <4>2. CASE b = Other(cur)
        BY <1>2, <4>2 DEF Ordered, HeldLast
      <4> QED BY <1>1, <4>1, <4>2
    <3>3. size'[b] = 0 /\ size'[Other(b)] = size[Other(b)]
      BY <1>1, <1>2, <2>4
    <3> QED BY <1>5, <2>2, <2>3, <2>5, <3>1, <3>2, <3>3 DEF MovingNext
  <2>8. HeldLast'
    <3>1. Other(cur') = b /\ size'[b] = 0
      BY <1>1, <2>3, <2>4 DEF Other, Buffers
    <3>2. \A c \in Buffers : \A i \in 1..size'[c] :
            /\ mem[c][i] <= Newest
            /\ \A j \in 1..size'[c] : i < j => mem[c][i] < mem[c][j]
      BY <2>4 DEF Ordered, HeldLast
    <3> QED BY <1>5, <2>5, <3>1, <3>2 DEF HeldLast
  <2> QED BY <1>5, <2>6, <2>7, <2>8 DEF Ordered, StreamedInOrder
<1> QED BY <1>7, <1>8

\* What is streamed next is the oldest frame that is left.
LEMMA StreamOrdered ==
  ASSUME IInv, Ordered, NEW t \in Senders, Stream(t)
  PROVE  Ordered'
<1> DEFINE s == sender[t]
           b == s.buf
           f == mem[b][s.pos]
<1>0. TTask /\ TBuffers /\ TCounts /\ THistory
  BY TypeParts DEF IInv, Parts
<1>1. sender \in [Senders -> Tasks] /\ Streaming = {t} /\ s.pc = "stream"
  BY <1>0, OthersKept DEF Stream, Streaming, TTask
<1>2. b \in Buffers /\ s.left \in 0..Capacity /\ s.pos \in 1..s.left
  BY <1>0, <1>1 DEF Tasks, Streaming, IInv, Owner, InBuffers
<1>3. UNCHANGED <<isr, frames, cur, size, mem>>
  BY DEF Stream, buffers, bounds
<1>4. Newest' = Newest
  BY <1>3 DEF Newest
<1>5. /\ cur = Other(b) /\ size[b] = 0 /\ f <= Newest
      /\ \A j \in s.pos..s.left : s.pos < j => f < mem[b][j]
      /\ \A j \in 1..size[cur] : f < mem[cur][j]
  BY <1>1, <1>2 DEF Ordered, MovingNext
<1>6. \A c \in Buffers : c = b \/ c = cur
  BY <1>2, <1>5 DEF Other, Buffers
<1>7. \A k \in 1..Len(sent) : /\ sent[k] <= Newest /\ sent[k] < f
                              /\ \A i \in s.pos..s.left : sent[k] < mem[b][i]
                              /\ \A c \in Buffers : \A i \in 1..size[c] : sent[k] < mem[c][i]
  BY <1>1, <1>2 DEF Ordered, SentFirst
<1>8. \/ sent' = sent
      \/ /\ sent' = Append(sent, f)
         /\ Len(sent') = Len(sent) + 1 /\ sent'[Len(sent) + 1] = f
         /\ \A k \in 1..Len(sent) : sent'[k] = sent[k]
  <2>1. f \in 0..MaxFrames /\ sent \in Seq(0..MaxFrames)
    <3>1. s.pos \in 1..Capacity
      BY <1>2
    <3>2. mem[b] \in [1..Capacity -> 0..MaxFrames]
      BY <1>0, <1>2 DEF TBuffers
    <3> QED BY <1>0, <3>1, <3>2 DEF THistory
  <2>2. IF phone THEN sent' = Append(sent, f) /\ UNCHANGED unheard
                 ELSE unheard' = unheard \cup {f} /\ UNCHANGED sent
    BY ZenonT(30) DEF Stream
  <2>3. CASE sent' = Append(sent, f)
    <3>1. /\ Len(Append(sent, f)) = Len(sent) + 1 /\ Append(sent, f)[Len(sent) + 1] = f
          /\ \A k \in 1..Len(sent) : Append(sent, f)[k] = sent[k]
      <4> HIDE DEF f
      <4> QED BY <2>1
    <3> QED BY <2>3, <3>1
  <2> QED BY <2>2, <2>3
<1>9. Len(sent) \in Nat
  BY <1>0 DEF THistory
<1>10. StreamedInOrder'
  BY SMTT(30), <1>7, <1>8, <1>9 DEF Ordered, StreamedInOrder
<1>11. \A k \in 1..Len(sent') :
         /\ sent'[k] <= Newest
         /\ \A i \in (s.pos + 1)..s.left : sent'[k] < mem[b][i]
         /\ \A c \in Buffers : \A i \in 1..size[c] : sent'[k] < mem[c][i]
  <2>1. \A i \in (s.pos + 1)..s.left : i \in s.pos..s.left /\ s.pos < i
    BY <1>2
  <2>2. \A c \in Buffers : \A i \in 1..size[c] : f < mem[c][i]
    BY <1>5, <1>6
  <2> QED BY SMTT(30), <1>5, <1>7, <1>8, <1>9, <2>1, <2>2
<1>12. \/ Streaming' = {}
       \/ /\ Streaming' = {t} /\ sender'[t].pos = s.pos + 1
          /\ sender'[t].left = s.left /\ sender'[t].buf = b
  <2>1. AfterDrain(t) # "stream"
    BY DEF AfterDrain
  <2>2. CASE s.pos = s.left
    <3>1. sender' = [sender EXCEPT ![t] = [Idle EXCEPT !.pc = AfterDrain(t), !.last = s.last]]
      BY <2>2 DEF Stream
    <3> QED BY <1>1, <2>1, <3>1 DEF Streaming, Idle
  <2>3. CASE s.pos # s.left
    <3>1. sender' = [sender EXCEPT ![t].pos = @ + 1]
      BY <2>3 DEF Stream
    <3> QED BY <1>1, <3>1 DEF Streaming, Tasks
  <2> QED BY <2>2, <2>3
<1>13. SentFirst'
  BY <1>3, <1>4, <1>11, <1>12 DEF SentFirst
<1>14. MovingNext'
  <2>1. CASE Streaming' = {}
    BY <2>1 DEF MovingNext
  <2>2. CASE /\ Streaming' = {t} /\ sender'[t].pos = s.pos + 1
             /\ sender'[t].left = s.left /\ sender'[t].buf = b
    <3>1. \A i \in (s.pos + 1)..s.left :
            /\ mem[b][i] <= Newest
            /\ \A j \in (s.pos + 1)..s.left : i < j => mem[b][i] < mem[b][j]
            /\ \A j \in 1..size[cur] : mem[b][i] < mem[cur][j]
      <4>1. \A i \in (s.pos + 1)..s.left : i \in s.pos..s.left
        BY <1>2
      <4> QED BY <1>1, <4>1 DEF Ordered, MovingNext
    <3> QED BY <1>3, <1>4, <1>5, <2>2, <3>1 DEF MovingNext
  <2> QED BY <1>12, <2>1, <2>2
<1>15. HeldLast'
  BY <1>3, <1>4 DEF Ordered, HeldLast
<1> QED BY <1>3, <1>10, <1>13, <1>14, <1>15 DEF Ordered

LEMMA OrderedStep ==
  ASSUME IInv, Ordered, [Next]_vars, Faults \cap {"slow", "timeout"} = {}
  PROVE  Ordered'
<1>0. TTask /\ TBuffers /\ Owner
  BY TypeParts DEF IInv, Parts
<1>1. ASSUME NEW t \in Senders, SenderStep(t)
      PROVE  Ordered'
  <2>1. CASE Wake(t)
    <3>1. Streaming' = Streaming /\ \A u \in Streaming : sender'[u] = sender[u]
      BY <1>0, <2>1 DEF Wake, Streaming, TTask, Tasks
    <3> QED BY <2>1, <3>1, NothingMoves DEF Wake, buffers, bounds, history
  <2>2. CASE drainBuffersOverBle(t)
    BY <2>2, DrainOrdered
  <2>3. CASE Stream(t)
    BY <2>3, StreamOrdered
  <2>4. CASE freeBuffers(t)
    <3>1. Streaming' = {}
      BY <1>0, <2>4, OthersKept DEF freeBuffers, Streaming, TTask, Tasks
    <3>2. cur' \in Buffers /\ \A b \in Buffers : size'[b] = 0
      BY <2>4 DEF freeBuffers, Buffers
    <3> QED BY <2>4, <3>1, <3>2, EmptiedOrdered DEF freeBuffers, bounds, history
  <2>5. CASE Leave(t)
    <3>1. Streaming' = Streaming /\ \A u \in Streaming : sender'[u] = sender[u]
      BY <1>0, <2>5 DEF Leave, Streaming, TTask, Idle
    <3> QED BY <2>5, <3>1, NothingMoves DEF Leave, buffers, bounds, history
  <2> QED BY <1>1, <2>1, <2>2, <2>3, <2>4, <2>5 DEF SenderStep
<1>2. CASE pcapStart \/ pcapStartFails
  <2>1. handle = NoTask
    BY <1>0, <1>2 DEF pcapStart, pcapStartFails, Owner, StopWaits
  <2>2. \A t \in Senders : sender[t] = Idle
    BY <1>0, <2>1 DEF Owner, OneTask, NoTask, Senders
  <2>3. Streaming = {} /\ Streaming' = {}
    BY <1>0, <1>2, <2>2 DEF pcapStart, pcapStartFails, Streaming, TTask, Idle
  <2>4. UNCHANGED <<isr, frames, mem, sent>>
    BY <1>2 DEF pcapStart, pcapStartFails, buffers, history
  <2>5. \/ UNCHANGED buffers
        \/ cur' \in Buffers /\ \A b \in Buffers : size'[b] = 0
    BY <1>2 DEF pcapStart, pcapStartFails, Buffers
  <2> QED BY <2>3, <2>4, <2>5, NothingMoves, EmptiedOrdered DEF buffers
<1>3. CASE pcapStop
  <2>1. UNCHANGED buffers
    BY <1>0, <1>3 DEF pcapStop, Owner, StopWaits
  <2> QED BY <1>3, <2>1, NothingMoves DEF pcapStop, Streaming, buffers, bounds, history
<1>4. CASE StopReturns \/ PhoneGoes \/ PhoneComes \/ UNCHANGED vars
  BY <1>4, NothingMoves
     DEF StopReturns, PhoneGoes, PhoneComes, vars, Streaming, buffers, bounds, history
<1>5. CASE pcapWifiCb \/ PcapBleScan
  BY <1>5, HandOverOrdered DEF pcapWifiCb, PcapBleScan
<1>6. CASE appendFrame
  BY <1>6, AppendOrdered
<1> QED BY <1>1, <1>2, <1>3, <1>4, <1>5, <1>6 DEF Next

\* When besides no sender is slower than two fills of a buffer, the phone gets
\* the frames in the order of their capture and none twice: the drain takes the
\* older buffer, and nothing is written into memory that is being streamed
\* (appendFrame, drainBuffersOverBle).
THEOREM FramesInOrder ==
  ASSUME Faults \cap {"slow", "timeout"} = {}
  PROVE  Spec => []StreamedInOrder
<1>1. Init => IInv /\ Ordered
  <2>1. Init => Ordered
    BY DEF Init, Ordered, SentFirst, MovingNext, HeldLast, StreamedInOrder, Newest,
           Streaming, Idle, Other, Buffers
  <2> QED BY <2>1, InitInv
<1>2. IInv /\ Ordered /\ [Next]_vars => (IInv /\ Ordered)'
  BY TypeStep, OwnerStep, FilledStep, OrderedStep DEF IInv
<1>3. Ordered => StreamedInOrder
  BY DEF Ordered
<1> QED BY <1>1, <1>2, <1>3, PTL DEF Spec
=============================================================================
