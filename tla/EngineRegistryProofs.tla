------------------------ MODULE EngineRegistryProofs ------------------------
(***************************************************************************)
(* The safety properties of EngineRegistry, proved for every set of        *)
(* engines, events and deny masks: first those that hold under every       *)
(* interleaving, then the two that need commands to run one after the      *)
(* other and captures to be left as they were asked for (Calm, Orderly).   *)
(***************************************************************************)
EXTENDS EngineRegistry, TLAPS

USE DEF PCAP, EngineIds

\* What engineEnable does to the running set, in the form the proofs use:
\* only the engine itself may be added.
LEMMA EnableAddsOne ==
  ASSUME NEW e \in Engines, active \subseteq Engines, pcapUp \in BOOLEAN,
         engineEnable(e)
  PROVE  /\ active' \subseteq active \cup {e}
         /\ active' \subseteq Engines
         /\ pcapUp' \in BOOLEAN
  BY DEF engineEnable, Started, PcapStarts

\* engineDisable only removes the engine it is given.
LEMMA DisableShrinks ==
  ASSUME NEW e \in Engines, active \subseteq Engines, pcapUp \in BOOLEAN,
         engineDisable(e)
  PROVE  active' \subseteq active /\ pcapUp' \in BOOLEAN
  BY DEF engineDisable

\* A pending capture makes engineEnable refuse every BLE scan engine,
\* whatever the capture's radio (engineEnableImpl, "PCAP owns radio").
LEMMA PendingRefuses ==
  ASSUME NEW e \in Engines, pending = TRUE, engineEnable(e)
  PROVE  (active' \ active) \cap Conflicts(TRUE) = {}
<1>1. CASE e = PCAP
  BY <1>1 DEF engineEnable, Started, Conflicts
<1>2. CASE e # PCAP /\ ~isBleScanEngine(e)
  BY <1>2 DEF engineEnable, Started, Conflicts
<1>3. CASE e # PCAP /\ isBleScanEngine(e)
  <2>1. Refused(active, pending, e)
    BY <1>3 DEF Refused
  <2> QED BY <2>1 DEF engineEnable
<1> QED BY <1>1, <1>2, <1>3

-----------------------------------------------------------------------------

LEMMA InitType == Init => TypeOK
<1> SUFFICES ASSUME Init PROVE TypeOK
  OBVIOUS
<1>1. /\ req \in [pc : ReqSteps, ble : BOOLEAN, left : SUBSET (Engines \ {PCAP}),
                  cur : Engines]
      /\ req.pc = "idle"
  BY EnginesAssumption DEF Init, ReqIdle, ReqSteps
<1>2. pcapUp \in BOOLEAN /\ pending \in BOOLEAN /\ observed \in BOOLEAN
  BY Zenon DEF Init
<1>3. cancelled \in BOOLEAN /\ deadline \in BOOLEAN /\ autoOn \in BOOLEAN
  BY Zenon DEF Init
<1>4. cooldown \in BOOLEAN /\ stopped \in BOOLEAN
  BY Zenon DEF Init
<1>5. /\ active = {} /\ deny = {} /\ paused = {} /\ todo = {} /\ restore = {}
      /\ wanted = {} /\ mode = "wifi" /\ loop = "idle"
  BY Zenon DEF Init
<1> QED BY <1>1, <1>2, <1>3, <1>4, <1>5 DEF TypeOK, LoopSteps

LEMMA RequestType ==
  ASSUME TypeOK,
         \/ \E src \in TriggerEngines \cap Engines : RequestCheck(src)
         \/ RequestStep
  PROVE  TypeOK'
<1> USE EnginesAssumption DEF TypeOK, ReqSteps, registry, auto, config, intent
<1>1. ASSUME NEW src \in TriggerEngines \cap Engines, RequestCheck(src)
      PROVE  TypeOK'
  <2>1. PICK ble \in CaptureRadios(src) :
          req' = [ReqIdle EXCEPT !.pc = "config", !.ble = ble]
    BY <1>1 DEF RequestCheck
  <2>2. ble \in BOOLEAN
    BY <2>1 DEF CaptureRadios
  <2> QED BY <1>1, <2>1, <2>2 DEF RequestCheck, ReqIdle
<1>2. CASE RequestConfig
  BY <1>2 DEF RequestConfig
<1>3. CASE RequestTest
  <2>1. PICK i \in req.left :
          \/ req' = [req EXCEPT !.pc = "mark", !.cur = i, !.left = @ \ {i}]
          \/ req' = [req EXCEPT !.left = @ \ {i}]
    BY <1>3 DEF RequestTest
  <2>2. req.pc = "test" /\ i \in Engines \ {PCAP}
    BY <1>3, <2>1 DEF RequestTest
  <2>3. req' \in [pc : ReqSteps, ble : BOOLEAN,
                 left : SUBSET (Engines \ {PCAP}), cur : Engines]
    <3>1. CASE req' = [req EXCEPT !.pc = "mark", !.cur = i, !.left = @ \ {i}]
      BY <2>2, <3>1
    <3>2. CASE req' = [req EXCEPT !.left = @ \ {i}]
      BY <2>2, <3>2
    <3> QED BY <2>1, <3>1, <3>2
  <2>4. req'.pc \in {"mark", "stop"} => req'.cur # PCAP
    BY <2>1, <2>2
  <2> QED BY <1>3, <2>3, <2>4 DEF RequestTest
<1>4. CASE RequestMark
  BY <1>4 DEF RequestMark
<1>5. CASE RequestStop
  <2>1. active' \subseteq active /\ pcapUp' \in BOOLEAN
    BY <1>5, DisableShrinks DEF RequestStop
  <2> QED BY <1>5, <2>1 DEF RequestStop
<1>6. CASE RequestPublish
  BY <1>6 DEF RequestPublish
<1>7. CASE RequestArm
  BY <1>7 DEF RequestArm
<1>8. CASE RequestStart
  <2>1. active' \subseteq Engines /\ pcapUp' \in BOOLEAN
    BY <1>8, EnableAddsOne DEF RequestStart
  <2> QED BY <1>8, <2>1 DEF RequestStart, ReqIdle
<1> QED BY <1>1, <1>2, <1>3, <1>4, <1>5, <1>6, <1>7, <1>8 DEF RequestStep

LEMMA TickType ==
  ASSUME TypeOK, Tick
  PROVE  TypeOK'
<1> USE EnginesAssumption
    DEF TypeOK, LoopSteps, registry, auto, config, intent
<1>1. CASE TickObserve
  BY <1>1 DEF TickObserve
<1>2. CASE TickStop
  <2>1. active' \subseteq active /\ pcapUp' \in BOOLEAN
    BY <1>2, DisableShrinks DEF TickStop
  <2> QED BY <1>2, <2>1 DEF TickStop
<1>3. CASE TickFinish
  BY <1>3 DEF TickFinish
<1>4. CASE TickRestore
  <2>1. PICK i \in restore : engineEnable(i) /\ restore' = restore \ {i}
    BY <1>4 DEF TickRestore
  <2>2. active' \subseteq Engines /\ pcapUp' \in BOOLEAN
    BY <2>1, EnableAddsOne
  <2> QED BY <1>4, <2>1, <2>2 DEF TickRestore
<1>5. CASE TickRelease
  BY <1>5 DEF TickRelease
<1> QED BY <1>1, <1>2, <1>3, <1>4, <1>5 DEF Tick

LEMMA CommandType ==
  ASSUME TypeOK, Command
  PROVE  TypeOK'
<1> USE EnginesAssumption, DenyAssumption
    DEF TypeOK, Micro, step, registry, auto, config, intent
<1>1. ASSUME NEW e \in Engines, CmdEnable(e) PROVE TypeOK'
  <2>1. active' \subseteq Engines /\ pcapUp' \in BOOLEAN
    BY <1>1, EnableAddsOne DEF CmdEnable
  <2>2. wanted' \subseteq Engines /\ stopped' \in BOOLEAN
    BY <1>1 DEF CmdEnable
  <2>3. todo' \subseteq {step("drop", e)}
    BY <1>1 DEF CmdEnable
  <2> QED BY <1>1, <2>1, <2>2, <2>3 DEF CmdEnable
<1>2. ASSUME NEW e \in Engines, CmdDisable(e) PROVE TypeOK'
  <2>1. /\ paused' \subseteq paused /\ wanted' \subseteq wanted
        /\ cancelled' \in BOOLEAN
    BY <1>2 DEF CmdDisable
  <2>2. todo' \subseteq Micro
    BY <1>2 DEF CmdDisable
  <2> QED BY <1>2, <2>1, <2>2 DEF CmdDisable
<1>3. CASE engineDisableAll
  BY <1>3 DEF engineDisableAll
<1>4. CASE CmdBand
  BY <1>4 DEF CmdBand
<1>5. ASSUME NEW m \in DenyMasks, CmdDeny(m) PROVE TypeOK'
  BY <1>5 DEF CmdDeny
<1>6. ASSUME NEW d \in SUBSET Engines, CmdState(d) PROVE TypeOK'
  <2>1. wanted' \subseteq wanted /\ todo' \subseteq Micro
    BY <1>6 DEF CmdState
  <2>2. stopped' \in BOOLEAN
    BY <1>6 DEF CmdState
  <2> QED BY <1>6, <2>1, <2>2 DEF CmdState
<1>7. CASE CmdAutoPcap
  BY <1>7 DEF CmdAutoPcap
<1>8. CASE CmdPcapConfig
  BY <1>8 DEF CmdPcapConfig
<1>9. CASE CmdPcapStop
  <2>1. active' \subseteq active /\ pcapUp' \in BOOLEAN
    BY <1>9, DisableShrinks DEF CmdPcapStop
  <2> QED BY <1>9, <2>1 DEF CmdPcapStop
<1> QED BY <1>1, <1>2, <1>3, <1>4, <1>5, <1>6, <1>7, <1>8, <1>9 DEF Command

LEMMA CmdStepType ==
  ASSUME TypeOK, CmdStep
  PROVE  TypeOK'
<1> USE EnginesAssumption
    DEF TypeOK, Micro, step, registry, auto, config, intent
<1>0. PICK m \in todo : CmdStep!(m)
  BY DEF CmdStep
<1>1. m.e \in Engines
  OBVIOUS
<1>2. CASE m.op \in {"on", "again"}
  <2>1. active' \subseteq Engines /\ pcapUp' \in BOOLEAN
    BY <1>0, <1>1, <1>2, EnableAddsOne
  <2> QED BY <1>0, <1>1, <1>2, <2>1
<1>3. CASE m.op = "off"
  <2>1. active' \subseteq active /\ pcapUp' \in BOOLEAN
    BY <1>0, <1>1, <1>3, DisableShrinks
  <2> QED BY ZenonT(40), <1>0, <1>1, <1>3, <2>1
<1>4. CASE m.op = "drop"
  BY ZenonT(40), <1>0, <1>1, <1>4
<1>5. CASE m.op = "bounce"
  <2>1. active' \subseteq active /\ pcapUp' \in BOOLEAN
    BY <1>0, <1>1, <1>5, DisableShrinks
  <2>2. todo' \subseteq Micro
    BY <1>0, <1>1, <1>5
  <2> QED BY ZenonT(40), <1>0, <1>1, <1>5, <2>1, <2>2
<1> QED BY <1>2, <1>3, <1>4, <1>5

LEMMA TypeStep ==
  ASSUME TypeOK, [Next]_vars
  PROVE  TypeOK'
<1>1. CASE UNCHANGED vars
  BY <1>1 DEF TypeOK, vars, registry, auto, config, intent
<1>2. CASE DeadlinePasses \/ CooldownEnds
  BY ZenonT(40), <1>2 DEF DeadlinePasses, CooldownEnds, TypeOK, registry, auto, config,
              intent
<1> QED BY <1>1, <1>2, RequestType, TickType, CommandType, CmdStepType DEF Next

\* Type correctness of the registry, for every set of engines and events.
THEOREM TypeCorrect == Spec => []TypeOK
<1>1. TypeOK /\ [Next]_vars => TypeOK'
  BY TypeStep
<1> QED BY <1>1, InitType, PTL DEF Spec

-----------------------------------------------------------------------------
(* The safety invariants.                                                  *)

LEMMA ReqIsRecord ==
  ASSUME TypeOK
  PROVE  req \in [pc : ReqSteps, ble : BOOLEAN, left : SUBSET (Engines \ {PCAP}),
                 cur : Engines]
  BY DEF TypeOK

LEMMA PausedStep ==
  ASSUME TypeOK, PausedOnlyWhilePending, [Next]_vars
  PROVE  PausedOnlyWhilePending'
<1> USE DEF PausedOnlyWhilePending, registry, auto, config, intent
<1>1. CASE UNCHANGED vars
  BY <1>1 DEF vars
<1>2. CASE \E src \in TriggerEngines \cap Engines : RequestCheck(src)
  BY <1>2 DEF RequestCheck, ReqReady
<1>3. CASE RequestStep
  <2>1. CASE RequestConfig
    BY <2>1, ReqIsRecord DEF RequestConfig
  <2>2. CASE RequestTest
    BY <2>2, ReqIsRecord DEF RequestTest
  <2>3. CASE RequestMark
    BY <2>3, ReqIsRecord DEF RequestMark
  <2>4. CASE RequestStop
    BY <2>4, ReqIsRecord DEF RequestStop
  <2>5. CASE RequestPublish
    BY <2>5, ReqIsRecord DEF RequestPublish
  <2>6. CASE RequestArm
    BY <2>6, ReqIsRecord DEF RequestArm
  <2>7. CASE RequestStart
    BY <2>7 DEF RequestStart, ReqIdle
  <2> QED BY <1>3, <2>1, <2>2, <2>3, <2>4, <2>5, <2>6, <2>7 DEF RequestStep
<1>4. CASE Tick
  BY <1>4 DEF Tick, TickObserve, TickStop, TickFinish, TickRestore, TickRelease
<1>5. CASE Command
  BY <1>5 DEF Command, CmdEnable, CmdDisable, engineDisableAll, CmdBand, CmdDeny,
              CmdState, CmdAutoPcap, CmdPcapConfig, CmdPcapStop
<1>6. CASE CmdStep
  <2>1. paused' \subseteq paused /\ UNCHANGED <<pending, req>>
    BY <1>6 DEF CmdStep
  <2> QED BY <2>1
<1>7. CASE DeadlinePasses \/ CooldownEnds
  BY <1>7 DEF DeadlinePasses, CooldownEnds
<1> QED BY <1>1, <1>2, <1>3, <1>4, <1>5, <1>6, <1>7 DEF Next

\* No restore mask outlives its capture, whatever engineRequestAutoPcap, the
\* commands and autoPcapTick interleave.
THEOREM PausedMaskDies == Spec => []PausedOnlyWhilePending
<1>1. Init => PausedOnlyWhilePending
  BY DEF Init, PausedOnlyWhilePending
<1> QED BY <1>1, PausedStep, TypeCorrect, PTL DEF Spec

\* Only the publication of a request sets autoPcapPending, and a request
\* starts only while it is clear.
LEMMA NoCaptureStep ==
  ASSUME TypeOK, RequestMeetsNoCapture, [Next]_vars
  PROVE  RequestMeetsNoCapture'
<1> USE DEF RequestMeetsNoCapture, registry, auto, config, intent
<1>1. CASE UNCHANGED vars
  BY <1>1 DEF vars
<1>2. CASE \E src \in TriggerEngines \cap Engines : RequestCheck(src)
  BY <1>2 DEF RequestCheck, ReqReady
<1>3. CASE RequestStep
  <2>1. CASE RequestConfig
    BY <2>1, ReqIsRecord DEF RequestConfig
  <2>2. CASE RequestTest
    BY <2>2, ReqIsRecord DEF RequestTest
  <2>3. CASE RequestMark
    BY <2>3, ReqIsRecord DEF RequestMark
  <2>4. CASE RequestStop
    BY <2>4, ReqIsRecord DEF RequestStop
  <2>5. CASE RequestPublish
    BY <2>5, ReqIsRecord DEF RequestPublish
  <2>6. CASE RequestArm
    BY <2>6, ReqIsRecord DEF RequestArm
  <2>7. CASE RequestStart
    BY <2>7 DEF RequestStart, ReqIdle
  <2> QED BY <1>3, <2>1, <2>2, <2>3, <2>4, <2>5, <2>6, <2>7 DEF RequestStep
<1>4. CASE Tick
  BY <1>4 DEF Tick, TickObserve, TickStop, TickFinish, TickRestore, TickRelease
<1>5. CASE Command
  BY <1>5 DEF Command, CmdEnable, CmdDisable, engineDisableAll, CmdBand, CmdDeny,
              CmdState, CmdAutoPcap, CmdPcapConfig, CmdPcapStop
<1>6. CASE CmdStep
  BY <1>6 DEF CmdStep
<1>7. CASE DeadlinePasses \/ CooldownEnds
  BY <1>7 DEF DeadlinePasses, CooldownEnds
<1> QED BY <1>1, <1>2, <1>3, <1>4, <1>5, <1>6, <1>7 DEF Next

\* The unlocked check of autoPcapPending stays valid until the request
\* publishes its capture.
THEOREM RequestChecksHold == Spec => []RequestMeetsNoCapture
<1>1. Init => RequestMeetsNoCapture
  BY DEF Init, RequestMeetsNoCapture
<1> QED BY <1>1, NoCaptureStep, TypeCorrect, PTL DEF Spec

-----------------------------------------------------------------------------

LEMMA KeepsRadioStep ==
  ASSUME TypeOK, Next, pending = TRUE
  PROVE  (active' \ active) \cap Conflicts(TRUE) = {}
<1> USE DEF TypeOK, registry, auto, config, intent
<1>1. CASE \E src \in TriggerEngines \cap Engines : RequestCheck(src)
  BY <1>1 DEF RequestCheck
<1>2. CASE RequestStep
  <2>1. CASE RequestStop
    BY <2>1, DisableShrinks DEF RequestStop
  <2>2. CASE RequestStart
    BY <2>2, PendingRefuses, EnginesAssumption DEF RequestStart
  <2> QED BY <1>2, <2>1, <2>2
          DEF RequestStep, RequestConfig, RequestTest, RequestMark,
              RequestPublish, RequestArm
<1>3. CASE Tick
  <2>1. CASE TickStop
    BY <2>1, DisableShrinks, EnginesAssumption DEF TickStop
  <2>2. CASE TickRestore
    BY <2>2, PendingRefuses DEF TickRestore
  <2> QED BY <1>3, <2>1, <2>2 DEF Tick, TickObserve, TickFinish, TickRelease
<1>4. CASE Command
  <2>1. ASSUME NEW e \in Engines, CmdEnable(e)
        PROVE  (active' \ active) \cap Conflicts(TRUE) = {}
    BY <2>1, PendingRefuses DEF CmdEnable
  <2>2. CASE CmdPcapStop
    BY <2>2, DisableShrinks, EnginesAssumption DEF CmdPcapStop
  <2> QED BY <1>4, <2>1, <2>2
          DEF Command, CmdDisable, engineDisableAll, CmdBand, CmdDeny, CmdState,
              CmdAutoPcap, CmdPcapConfig
<1>5. CASE CmdStep
  <2>0. PICK m \in todo : CmdStep!(m)
    BY <1>5 DEF CmdStep
  <2>1. m.e \in Engines
    BY DEF Micro
  <2>2. CASE engineEnable(m.e)
    BY <2>1, <2>2, PendingRefuses
  <2>3. CASE engineDisable(m.e)
    BY <2>1, <2>3, DisableShrinks
  <2> QED BY <2>0, <2>2, <2>3
<1>6. CASE DeadlinePasses \/ CooldownEnds
  BY <1>6 DEF DeadlinePasses, CooldownEnds
<1> QED BY <1>1, <1>2, <1>3, <1>4, <1>5, <1>6 DEF Next

\* While a capture is pending no step of any task, the restore of an earlier
\* capture included, starts an engine on the radio it was given.
THEOREM CaptureUndisturbed == Spec => CaptureKeepsRadio
<1>1. TypeOK /\ [Next]_vars =>
        [pending /\ pending' => (active' \ active) \cap Conflicts(TRUE) = {}]_vars
  <2> SUFFICES ASSUME TypeOK, Next, pending = TRUE
               PROVE  (active' \ active) \cap Conflicts(TRUE) = {}
    BY DEF TypeOK
  <2> QED BY KeepsRadioStep
<1> QED BY <1>1, TypeCorrect, PTL DEF Spec, CaptureKeepsRadio

-----------------------------------------------------------------------------
(* A capture alone on its radio, when the tasks take turns.                *)

\* One task at a time is in the middle of an operation, and while the loop task
\* puts engines back no capture runs.
Turns ==
  /\ todo # {} => req.pc = "idle" /\ loop = "idle"
  /\ loop # "idle" => req.pc = "idle" /\ PCAP \notin active

\* What a request has looked at and not stopped does not disturb its capture.
TestedQuiet ==
  /\ req.pc \in {"test", "mark", "stop", "arm", "start"} => (req.ble <=> mode = "ble")
  /\ req.pc = "test" => active \cap Conflicts(req.ble) \subseteq req.left
  /\ req.pc \in {"mark", "stop"} =>
       active \cap Conflicts(req.ble) \subseteq req.left \cup {req.cur}
  /\ req.pc \in {"arm", "start"} => active \cap Conflicts(req.ble) = {}

SerialInv == TypeOK /\ Turns /\ TestedQuiet /\ CaptureOwnsRadio

Calm == Serialised /\ "pcapcfg" \notin Events

\* A pending capture is refused nothing it conflicts with on its own radio.
LEMMA PendingRefusesRadio ==
  ASSUME TypeOK, NEW e \in Engines, pending = TRUE, engineEnable(e)
  PROVE  (active' \ active) \cap Conflicts(mode = "ble") = {}
<1>1. CASE mode = "ble"
  BY <1>1, PendingRefuses
<1>2. CASE mode # "ble"
  <2>1. CASE e \in Conflicts(FALSE)
    <3>1. Refused(active, pending, e)
      BY <1>2, <2>1 DEF Refused, Conflicts
    <3> QED BY <3>1 DEF engineEnable
  <2>2. CASE e \notin Conflicts(FALSE)
    <3>1. active' \subseteq active \cup {e}
      BY EnableAddsOne DEF TypeOK
    <3> QED BY <1>2, <2>2, <3>1
  <2> QED BY <2>1, <2>2
<1> QED BY <1>1, <1>2

\* Turning off engines, of a radio that stays, disturbs no capture.
LEMMA FewerOwns ==
  ASSUME CaptureOwnsRadio, active' \subseteq active, UNCHANGED mode,
         pending' = pending, req'.pc = req.pc
  PROVE  CaptureOwnsRadio'
BY DEF CaptureOwnsRadio, Conflicts

LEMMA EnableOwns ==
  ASSUME TypeOK, CaptureOwnsRadio, NEW e \in Engines, engineEnable(e),
         req.pc = "idle", UNCHANGED <<mode, pending, req>>
  PROVE  CaptureOwnsRadio'
<1>1. CASE pending
  <2>1. (active' \ active) \cap Conflicts(mode = "ble") = {}
    BY <1>1, PendingRefusesRadio DEF TypeOK
  <2>2. active \cap Conflicts(mode = "ble") = {}
    BY <1>1 DEF CaptureOwnsRadio
  <2> QED BY <2>1, <2>2 DEF CaptureOwnsRadio, Conflicts
<1>2. CASE ~pending
  BY <1>2 DEF CaptureOwnsRadio
<1> QED BY <1>1, <1>2

\* With a request in the middle the two conditions are about the request only.
LEMMA RequestSerial ==
  ASSUME SerialInv, Calm, TypeOK',
         \/ \E src \in TriggerEngines \cap Engines : RequestCheck(src)
         \/ RequestStep
  PROVE  Turns' /\ TestedQuiet' /\ CaptureOwnsRadio'
<1> USE DEF registry, auto, config, intent
<1>0. TypeOK /\ Turns /\ TestedQuiet /\ CaptureOwnsRadio /\ Serialised
  BY DEF SerialInv, Calm
<1>1. ASSUME NEW src \in TriggerEngines \cap Engines, RequestCheck(src)
      PROVE  Turns' /\ TestedQuiet' /\ CaptureOwnsRadio'
  <2>1. req'.pc = "config" /\ todo = {} /\ loop = "idle"
    BY <1>0, <1>1 DEF RequestCheck, ReqReady, ReqIdle
  <2> QED BY <1>0, <1>1, <2>1 DEF RequestCheck, Turns, TestedQuiet, CaptureOwnsRadio
<1>2. ASSUME RequestStep, UNCHANGED <<todo, loop>> , active' \subseteq active \/ req'.pc = "idle",
             req.pc # "idle"
      PROVE  Turns'
  BY <1>0, <1>2 DEF Turns
<1>3. CASE RequestConfig
  <2>1. /\ req'.pc = "test" /\ req'.left = Engines \ {PCAP} /\ req'.ble = req.ble
        /\ (mode' = "ble" <=> req.ble)
    BY <1>0, <1>3, ReqIsRecord DEF RequestConfig
  <2>2. TestedQuiet' /\ CaptureOwnsRadio'
    BY <2>1 DEF TestedQuiet, CaptureOwnsRadio, Conflicts
  <2> QED BY <1>2, <1>3, <2>2 DEF RequestConfig, RequestStep
<1>4. CASE RequestTest
  <2>1. PICK i \in req.left :
          IF i \in active /\ i \in Conflicts(req.ble)
          THEN req' = [req EXCEPT !.pc = "mark", !.cur = i, !.left = @ \ {i}]
          ELSE req' = [req EXCEPT !.left = @ \ {i}]
    BY <1>4 DEF RequestTest
  <2>2. req.pc = "test" /\ UNCHANGED <<active, mode, pending, todo, loop>>
    BY <1>4 DEF RequestTest
  <2>3. CASE i \in active /\ i \in Conflicts(req.ble)
    <3>1. /\ req'.pc = "mark" /\ req'.cur = i /\ req'.left = req.left \ {i}
          /\ req'.ble = req.ble
      BY <1>0, <2>1, <2>3, ReqIsRecord
    <3>2. TestedQuiet' /\ CaptureOwnsRadio'
      BY <1>0, <2>2, <3>1 DEF TestedQuiet, CaptureOwnsRadio
    <3> QED BY <1>2, <1>4, <2>2, <3>2 DEF RequestStep
  <2>4. CASE ~(i \in active /\ i \in Conflicts(req.ble))
    <3>1. req'.pc = "test" /\ req'.left = req.left \ {i} /\ req'.ble = req.ble
      BY <1>0, <2>1, <2>2, <2>4, ReqIsRecord
    <3>2. TestedQuiet' /\ CaptureOwnsRadio'
      BY <1>0, <2>2, <2>4, <3>1 DEF TestedQuiet, CaptureOwnsRadio
    <3> QED BY <1>2, <1>4, <2>2, <3>2 DEF RequestStep
  <2> QED BY <2>3, <2>4
<1>5. CASE RequestMark
  <2>1. /\ req.pc = "mark" /\ req'.pc = "stop" /\ req'.cur = req.cur
        /\ req'.left = req.left /\ req'.ble = req.ble
    BY <1>0, <1>5, ReqIsRecord DEF RequestMark
  <2>2. TestedQuiet' /\ CaptureOwnsRadio'
    BY <1>0, <1>5, <2>1 DEF RequestMark, TestedQuiet, CaptureOwnsRadio
  <2> QED BY <1>2, <1>5, <2>1, <2>2 DEF RequestMark, RequestStep
<1>6. CASE RequestStop
  <2>1. /\ req.pc = "stop" /\ req'.pc = "test" /\ req'.left = req.left
        /\ req'.ble = req.ble /\ active' = active \ {req.cur}
    BY <1>0, <1>6, ReqIsRecord DEF RequestStop, engineDisable
  <2>2. TestedQuiet' /\ CaptureOwnsRadio'
    BY <1>0, <1>6, <2>1 DEF RequestStop, TestedQuiet, CaptureOwnsRadio
  <2> QED BY <1>2, <1>6, <2>1, <2>2 DEF RequestStop, RequestStep
<1>7. CASE RequestPublish
  <2>1. /\ req.pc = "test" /\ req.left = {} /\ req'.pc = "arm" /\ req'.ble = req.ble
    BY <1>0, <1>7, ReqIsRecord DEF RequestPublish
  <2>2. TestedQuiet' /\ CaptureOwnsRadio'
    BY <1>0, <1>7, <2>1 DEF RequestPublish, TestedQuiet, CaptureOwnsRadio
  <2> QED BY <1>2, <1>7, <2>1, <2>2 DEF RequestPublish, RequestStep
<1>8. CASE RequestArm
  <2>1. req.pc = "arm" /\ req'.pc = "start" /\ req'.ble = req.ble
    BY <1>0, <1>8, ReqIsRecord DEF RequestArm
  <2>2. TestedQuiet' /\ CaptureOwnsRadio'
    BY <1>0, <1>8, <2>1 DEF RequestArm, TestedQuiet, CaptureOwnsRadio
  <2> QED BY <1>2, <1>8, <2>1, <2>2 DEF RequestArm, RequestStep
<1>9. CASE RequestStart
  <2>1. /\ req.pc = "start" /\ req'.pc = "idle" /\ loop = "idle" /\ todo = {}
        /\ UNCHANGED <<mode, pending, todo, loop>>
    BY <1>0, <1>9 DEF RequestStart, ReqIdle, Turns
  <2>2. active' \subseteq active \cup {PCAP}
    BY <1>0, <1>9, EnableAddsOne, EnginesAssumption DEF RequestStart, TypeOK
  <2>3. active \cap Conflicts(mode = "ble") = {}
    BY <1>0, <2>1, ReqIsRecord DEF TestedQuiet, Conflicts, isBleScanEngine, isWifiEngine
  <2>4. CaptureOwnsRadio'
    BY <2>1, <2>2, <2>3 DEF CaptureOwnsRadio, Conflicts
  <2>5. Turns' /\ TestedQuiet'
    BY <2>1 DEF Turns, TestedQuiet
  <2> QED BY <2>4, <2>5
<1> QED BY <1>1, <1>3, <1>4, <1>5, <1>6, <1>7, <1>8, <1>9 DEF RequestStep

LEMMA TickSerial ==
  ASSUME SerialInv, Calm, Tick
  PROVE  Turns' /\ TestedQuiet' /\ CaptureOwnsRadio'
<1> USE DEF registry, auto, config, intent
<1>0. TypeOK /\ Turns /\ TestedQuiet /\ CaptureOwnsRadio /\ Serialised
  BY DEF SerialInv, Calm
<1>1. req.pc = "idle" /\ todo = {} /\ UNCHANGED <<req, todo, mode>>
  BY <1>0 DEF Tick, TickObserve, TickStop, TickFinish, TickRestore, TickRelease,
              TickReady, Turns
<1>2. TestedQuiet'
  BY <1>1 DEF TestedQuiet
<1>3. CASE TickObserve
  BY <1>0, <1>2, <1>3 DEF TickObserve, Turns, CaptureOwnsRadio
<1>4. CASE TickStop
  <2>1. active' = active \ {PCAP} /\ UNCHANGED pending
    BY <1>4 DEF TickStop, engineDisable
  <2> QED BY <1>0, <1>1, <1>2, <2>1, FewerOwns DEF Turns
<1>5. CASE TickFinish
  BY <1>0, <1>1, <1>2, <1>5 DEF TickFinish, Turns, CaptureOwnsRadio
<1>6. CASE TickRestore
  <2>1. PICK i \in restore : engineEnable(i)
    BY <1>6 DEF TickRestore
  <2>2. i \in Engines \ {PCAP} /\ UNCHANGED <<pending, loop>> /\ loop = "restoring"
    BY <1>0, <1>6 DEF TypeOK, TickRestore
  <2>3. active' \subseteq active \cup {i}
    BY <1>0, <2>1, <2>2, EnableAddsOne DEF TypeOK
  <2>4. CaptureOwnsRadio'
    BY <1>0, <1>1, <2>1, <2>2, EnableOwns
  <2> QED BY <1>0, <1>1, <1>2, <2>2, <2>3, <2>4 DEF Turns
<1>7. CASE TickRelease
  BY <1>0, <1>1, <1>2, <1>7 DEF TickRelease, Turns, CaptureOwnsRadio
<1> QED BY <1>3, <1>4, <1>5, <1>6, <1>7 DEF Tick

LEMMA CommandSerial ==
  ASSUME SerialInv, Calm, Command \/ CmdStep
  PROVE  Turns' /\ TestedQuiet' /\ CaptureOwnsRadio'
<1> USE DEF registry, auto, config, intent
<1>0. TypeOK /\ Turns /\ TestedQuiet /\ CaptureOwnsRadio /\ Serialised
  BY DEF SerialInv, Calm
<1>1. req.pc = "idle" /\ loop = "idle" /\ UNCHANGED <<req, loop>>
  <2>1. CASE Command
    BY <1>0, <2>1 DEF Command, CmdEnable, CmdDisable, engineDisableAll, CmdBand, CmdDeny,
                      CmdState, CmdAutoPcap, CmdPcapConfig, CmdPcapStop, CmdReady, Turns
  <2>2. CASE CmdStep
    <3>1. todo # {} /\ UNCHANGED <<req, loop>>
      BY Zenon, <2>2 DEF CmdStep
    <3> QED BY <1>0, <3>1 DEF Turns
  <2> QED BY <2>1, <2>2
<1>2. Turns' /\ TestedQuiet'
  BY <1>1 DEF Turns, TestedQuiet
<1> SUFFICES CaptureOwnsRadio'
  BY <1>2
<1>3. ASSUME NEW e \in Engines, CmdEnable(e) PROVE CaptureOwnsRadio'
  BY <1>0, <1>1, <1>3, EnableOwns DEF CmdEnable
<1>4. CASE engineDisableAll
  BY <1>4 DEF engineDisableAll, CaptureOwnsRadio
<1>5. CASE CmdPcapStop
  <2>1. active' \subseteq active
    BY <1>5 DEF CmdPcapStop, engineDisable
  <2> QED BY <1>0, <1>1, <1>2, <1>5, <2>1, FewerOwns DEF CmdPcapStop
<1>6. ASSUME UNCHANGED <<active, mode, pending>> PROVE CaptureOwnsRadio'
  BY <1>0, <1>1, <1>6 DEF CaptureOwnsRadio
<1>7. CASE CmdStep
  <2>0. PICK m \in todo : CmdStep!(m)
    BY <1>7 DEF CmdStep
  <2>1. UNCHANGED <<mode, pending>>
    BY Zenon, <2>0
  <2>2. m.e \in Engines
    BY <1>0 DEF Micro, TypeOK
  <2>3. engineEnable(m.e) \/ engineDisable(m.e) \/ UNCHANGED active
    BY Zenon, <2>0
  <2>4. CASE engineEnable(m.e)
    BY <1>0, <1>1, <2>1, <2>2, <2>4, EnableOwns
  <2>5. CASE engineDisable(m.e) \/ UNCHANGED active
    <3>1. active' \subseteq active
      BY <2>5 DEF engineDisable
    <3> QED BY <1>0, <1>1, <2>1, <3>1, FewerOwns
  <2> QED BY <2>3, <2>4, <2>5
<1> QED BY <1>2, <1>3, <1>4, <1>5, <1>6, <1>7
        DEF Command, CmdDisable, CmdBand, CmdDeny, CmdState, CmdAutoPcap, CmdPcapConfig, Calm

LEMMA SerialStep ==
  ASSUME SerialInv, Calm, [Next]_vars
  PROVE  SerialInv'
<1>1. TypeOK'
  BY TypeStep DEF SerialInv
<1>2. CASE UNCHANGED vars
  BY <1>1, <1>2 DEF SerialInv, vars, registry, auto, config, Turns, TestedQuiet,
                    CaptureOwnsRadio
<1>3. CASE DeadlinePasses \/ CooldownEnds
  BY <1>1, <1>3 DEF DeadlinePasses, CooldownEnds, SerialInv, registry, auto, config, Turns,
                    TestedQuiet, CaptureOwnsRadio
<1> QED BY <1>1, <1>2, <1>3, RequestSerial, TickSerial, CommandSerial DEF Next, SerialInv

\* While an auto-PCAP capture is pending no engine that shares its radio runs:
\* the request has stopped them all, and engineEnableImpl refuses them until
\* autoPcapTick has ended it. Commands must not overlap the request or the
\* restore, nor give a running capture another radio.
THEOREM CaptureHasRadio == ASSUME Calm PROVE Spec => []CaptureOwnsRadio
<1>1. Init => SerialInv
  BY InitType DEF Init, SerialInv, Turns, TestedQuiet, CaptureOwnsRadio, ReqIdle
<1>2. SerialInv /\ [Next]_vars => SerialInv'
  BY SerialStep
<1>3. SerialInv => CaptureOwnsRadio
  BY DEF SerialInv
<1> QED BY <1>1, <1>2, <1>3, PTL DEF Spec

-----------------------------------------------------------------------------
(* What commands asked for outlives the captures.                          *)

\* No engine of this node displaces another one (foxhunterStart does).
NoRival == FOXHUNTER \in Engines => Engines \cap {DETECTOR, FLOCK_WIFI, SKYSPY} = {}

\* Besides the tasks' turns: nothing restarts running engines.
Orderly == Calm /\ "band" \notin Events /\ NoRival

\* Engines are paused because they would disturb the capture, by a request that
\* nobody cancelled.
PausedConflict ==
  /\ paused \subseteq Conflicts(mode = "ble")
  /\ req.pc \in {"mark", "stop"} => req.cur \in Conflicts(req.ble)
  /\ req.pc = "mark" => req.cur \in active
  /\ req.pc = "stop" => req.cur \in paused
  /\ cancelled => pending /\ paused = {}
  /\ loop = "restoring" => ~pending
  /\ restore # {} => loop = "restoring"
  /\ PausedOnlyWhilePending

\* The engines a command is about to turn off.
Off == {e \in Engines : step("off", e) \in todo}

\* The wanted engines are those that run and stay on, those that are paused and
\* those to be put back.
WantedKept ==
  /\ wanted \ {PCAP} = ((active \ Off) \cup paused \cup restore) \ {PCAP}
  /\ \A m \in todo : m.op \in {"on", "off", "drop"}
  /\ \A m \in todo : m.op = "on" => m.e \notin Off
  /\ \A m \in todo : m.op = "drop" => m.e \in active \ Off

\* After disable-all nothing is left that could come back.
NothingWanted ==
  stopped => /\ active \subseteq {PCAP} /\ wanted \subseteq {PCAP}
             /\ \A m \in todo : m.op # "on"

ObeyInv == SerialInv /\ RequestMeetsNoCapture /\ PausedConflict /\ WantedKept /\ NothingWanted
Kept    == PausedConflict /\ WantedKept /\ NothingWanted

\* Without a rival an engine that starts displaces none.
LEMMA EnableAdds ==
  ASSUME TypeOK, NoRival, NEW e \in Engines, engineEnable(e)
  PROVE  active' = active \/ active' = active \cup {e}
<1>1. ASSUME e \notin active, active' = Started(active, e)
      PROVE  active' = active \cup {e}
  <2>1. {i \in active : /\ i # e
                        /\ isWifiEngine(e) /\ isWifiEngine(i)
                        /\ ~wifiCoexCompatible(e, i)} = {}
    BY DEF isWifiEngine, wifiCoexCompatible
  <2>2. active \cap PausedByFoxhunter(active, e) = {}
    BY DEF PausedByFoxhunter, NoRival, TypeOK
  <2> QED BY <1>1, <2>1, <2>2 DEF Started
<1> QED BY <1>1 DEF engineEnable

\* Outside a capture nothing keeps an engine from being put back.
LEMMA RestoreEnables ==
  ASSUME TypeOK, NoRival, NEW e \in Engines, engineEnable(e), PCAP \notin active, ~pending
  PROVE  active' = active \cup {e}
<1>1. ~Refused(active, pending, e)
  BY DEF Refused
<1>2. e \in active'
  BY <1>1 DEF engineEnable, Started
<1> QED BY <1>2, EnableAdds

\* Paused engines do not run.
LEMMA PausedIsOff ==
  ASSUME ObeyInv, req.pc = "idle"
  PROVE  paused \cap active = {} /\ (paused # {} => pending)
BY DEF ObeyInv, SerialInv, CaptureOwnsRadio, PausedConflict, PausedOnlyWhilePending

-----------------------------------------------------------------------------

LEMMA RequestKept ==
  ASSUME ObeyInv, Orderly,
         \/ \E src \in TriggerEngines \cap Engines : RequestCheck(src)
         \/ RequestStep
  PROVE  Kept'
<1> USE DEF registry, auto, config, intent
<1>0. /\ TypeOK /\ Turns /\ TestedQuiet /\ PausedConflict /\ WantedKept /\ NothingWanted
      /\ PausedOnlyWhilePending
  BY DEF ObeyInv, SerialInv, PausedConflict
<1>1. /\ UNCHANGED <<todo, loop, restore, wanted, stopped>>
      /\ loop = "idle" /\ todo = {} /\ restore = {}
  <2>1. UNCHANGED <<todo, loop, restore, wanted, stopped>>
    BY DEF RequestCheck, RequestStep, RequestConfig, RequestTest, RequestMark, RequestStop,
           RequestPublish, RequestArm, RequestStart
  <2>2. loop = "idle" /\ todo = {}
    BY <1>0 DEF RequestCheck, RequestStep, RequestConfig, RequestTest, RequestMark, RequestStop,
           RequestPublish, RequestArm, RequestStart, Turns, ReqReady, Orderly, Calm
  <2> QED BY <1>0, <2>1, <2>2 DEF PausedConflict
<1>a. Off = {} /\ Off' = {}
  BY <1>1 DEF Off
<1>b. ASSUME wanted \ {PCAP} = (active' \cup paused') \ {PCAP},
             stopped => active' \subseteq {PCAP}
      PROVE  WantedKept' /\ NothingWanted'
  BY <1>0, <1>1, <1>a, <1>b DEF WantedKept, NothingWanted
<1>c. wanted \ {PCAP} = (active \cup paused) \ {PCAP} /\ (stopped => active \subseteq {PCAP})
  BY <1>0, <1>1, <1>a DEF WantedKept, NothingWanted
<1>d. ASSUME UNCHANGED <<active, paused>> PROVE WantedKept' /\ NothingWanted'
  BY <1>b, <1>c, <1>d
<1>2. ASSUME NEW src \in TriggerEngines \cap Engines, RequestCheck(src)
      PROVE  Kept'
  <2>1. req.pc = "idle" /\ req'.pc = "config"
    BY <1>2 DEF RequestCheck, ReqReady, ReqIdle
  <2>2. UNCHANGED <<active, paused, pending, cancelled, mode>> /\ ~pending
    BY <1>2 DEF RequestCheck
  <2>3. PausedConflict'
    BY <1>0, <1>1, <2>1, <2>2 DEF PausedConflict, PausedOnlyWhilePending
  <2> QED BY <1>d, <2>2, <2>3 DEF Kept
<1>3. CASE RequestConfig
  <2>1. /\ req.pc = "config" /\ req'.pc = "test" /\ ~pending /\ paused = {} /\ paused' = {}
        /\ UNCHANGED <<active, pending, cancelled>>
    BY <1>0, <1>3, ReqIsRecord
       DEF RequestConfig, PausedOnlyWhilePending, ObeyInv, SerialInv, RequestMeetsNoCapture
  <2>2. PausedConflict'
    BY <1>0, <1>1, <2>1 DEF PausedConflict, PausedOnlyWhilePending
  <2> QED BY <1>d, <2>1, <2>2 DEF Kept
<1>4. CASE RequestTest
  <2>1. PICK i \in req.left :
          IF i \in active /\ i \in Conflicts(req.ble)
          THEN req' = [req EXCEPT !.pc = "mark", !.cur = i, !.left = @ \ {i}]
          ELSE req' = [req EXCEPT !.left = @ \ {i}]
    BY <1>4 DEF RequestTest
  <2>2. req.pc = "test" /\ UNCHANGED <<active, paused, mode, pending, cancelled>>
    BY <1>4 DEF RequestTest
  <2>3. \/ req'.pc = "test"
        \/ /\ req'.pc = "mark" /\ req'.cur \in active /\ req'.cur \in Conflicts(req'.ble)
    BY <1>0, <2>1, <2>2, ReqIsRecord
  <2>4. PausedConflict'
    BY <1>0, <1>1, <2>2, <2>3 DEF PausedConflict, PausedOnlyWhilePending
  <2> QED BY <1>d, <2>2, <2>4 DEF Kept
<1>5. CASE RequestMark
  <2>1. /\ req.pc = "mark" /\ req'.pc = "stop" /\ req'.cur = req.cur /\ req'.ble = req.ble
        /\ paused' = paused \cup {req.cur} /\ UNCHANGED <<active, mode, pending, cancelled>>
    BY <1>0, <1>5, ReqIsRecord DEF RequestMark
  <2>2. req.cur \in active /\ req.cur \in Conflicts(mode = "ble") /\ ~pending /\ req.cur # PCAP
    BY <1>0, <2>1, ReqIsRecord
       DEF PausedConflict, TestedQuiet, ObeyInv, SerialInv, RequestMeetsNoCapture, TypeOK,
           Conflicts, isBleScanEngine, isWifiEngine
  <2>3. PausedConflict'
    BY <1>0, <1>1, <2>1, <2>2 DEF PausedConflict, PausedOnlyWhilePending
  <2>4. WantedKept' /\ NothingWanted'
    BY <1>b, <1>c, <2>1, <2>2
  <2> QED BY <2>3, <2>4 DEF Kept
<1>6. CASE RequestStop
  <2>1. /\ req.pc = "stop" /\ req'.pc = "test" /\ active' = active \ {req.cur}
        /\ UNCHANGED <<mode, paused, pending, cancelled>>
    BY <1>0, <1>6, ReqIsRecord DEF RequestStop, engineDisable
  <2>2. PausedConflict'
    BY <1>0, <1>1, <2>1 DEF PausedConflict, PausedOnlyWhilePending
  <2>3. req.cur \in paused
    BY <1>0, <2>1 DEF PausedConflict
  <2>4. WantedKept' /\ NothingWanted'
    BY <1>b, <1>c, <2>1, <2>3
  <2> QED BY <2>2, <2>4 DEF Kept
<1>7. CASE RequestPublish
  <2>1. /\ req'.pc = "arm" /\ UNCHANGED <<active, mode, paused, cancelled>> /\ pending' = TRUE
    BY <1>0, <1>7, ReqIsRecord DEF RequestPublish
  <2>2. PausedConflict'
    BY <1>0, <1>1, <2>1 DEF PausedConflict, PausedOnlyWhilePending
  <2> QED BY <1>d, <2>1, <2>2 DEF Kept
<1>8. CASE RequestArm
  <2>1. /\ req'.pc = "start" /\ UNCHANGED <<active, mode, paused, pending>> /\ cancelled' = FALSE
        /\ req.pc = "arm"
    BY <1>0, <1>8, ReqIsRecord DEF RequestArm
  <2>2. PausedConflict'
    BY <1>0, <1>1, <2>1 DEF PausedConflict, PausedOnlyWhilePending
  <2> QED BY <1>d, <2>1, <2>2 DEF Kept
<1>9. CASE RequestStart
  <2>1. /\ req.pc = "start" /\ req'.pc = "idle" /\ UNCHANGED <<mode, paused, pending, cancelled>>
    BY <1>0, <1>9 DEF RequestStart, ReqIdle
  <2>2. active' = active \/ active' = active \cup {PCAP}
    BY <1>0, <1>9, EnableAdds, EnginesAssumption DEF RequestStart, Orderly
  <2>3. PausedConflict'
    BY <1>0, <1>1, <2>1 DEF PausedConflict, PausedOnlyWhilePending
  <2>4. WantedKept' /\ NothingWanted'
    BY <1>b, <1>c, <2>1, <2>2
  <2> QED BY <2>3, <2>4 DEF Kept
<1> QED BY <1>2, <1>3, <1>4, <1>5, <1>6, <1>7, <1>8, <1>9 DEF RequestStep

LEMMA TickKept ==
  ASSUME ObeyInv, Orderly, Tick
  PROVE  Kept'
<1> USE DEF registry, auto, config, intent
<1>0. /\ TypeOK /\ Turns /\ PausedConflict /\ WantedKept /\ NothingWanted
      /\ PausedOnlyWhilePending
  BY DEF ObeyInv, SerialInv, PausedConflict
<1>1. req.pc = "idle" /\ todo = {} /\ UNCHANGED <<req, todo, mode, wanted, stopped>>
  BY <1>0 DEF Tick, TickObserve, TickStop, TickFinish, TickRestore, TickRelease,
              TickReady, Turns, Orderly, Calm
<1>a. Off = {} /\ Off' = {}
  BY <1>1 DEF Off
<1>b. /\ wanted \ {PCAP} = (active \cup paused \cup restore) \ {PCAP}
      /\ stopped => active \subseteq {PCAP} /\ wanted \subseteq {PCAP}
  BY <1>0, <1>a DEF WantedKept, NothingWanted
<1>c. ASSUME active' \cup paused' \cup restore' \cup {PCAP} = active \cup paused \cup restore \cup {PCAP}
      PROVE  WantedKept' /\ NothingWanted'
  <2>1. wanted' \ {PCAP} = (active' \cup paused' \cup restore') \ {PCAP}
    BY <1>1, <1>b, <1>c
  <2>2. stopped' => active' \subseteq {PCAP} /\ wanted' \subseteq {PCAP}
    BY <1>1, <1>b, <2>1
  <2> QED BY <1>1, <1>a, <2>1, <2>2 DEF WantedKept, NothingWanted
<1>3. CASE TickObserve
  <2>1. UNCHANGED <<active, paused, restore, pending, cancelled, loop>>
    BY <1>3 DEF TickObserve
  <2>2. PausedConflict'
    BY <1>0, <1>1, <2>1 DEF PausedConflict, PausedOnlyWhilePending
  <2> QED BY <1>c, <2>1, <2>2 DEF Kept
<1>4. CASE TickStop
  <2>1. /\ active' = active \ {PCAP} /\ UNCHANGED <<paused, restore, pending, cancelled>>
        /\ loop' = "ending" /\ loop = "idle"
    BY <1>4 DEF TickStop, engineDisable, TickReady
  <2>2. PausedConflict'
    BY <1>0, <1>1, <2>1 DEF PausedConflict, PausedOnlyWhilePending
  <2> QED BY <1>c, <2>1, <2>2 DEF Kept
<1>5. CASE TickFinish
  <2>1. /\ UNCHANGED active /\ paused' = {} /\ restore' = IF cancelled THEN {} ELSE paused
        /\ pending' = FALSE /\ cancelled' = FALSE /\ loop' = "restoring"
        /\ loop \in {"ending", "idle"}
    BY <1>5 DEF TickFinish, TickReady
  <2>2. restore = {} /\ restore' = paused
    BY <1>0, <2>1 DEF PausedConflict
  <2>3. PausedConflict'
    BY <1>0, <1>1, <2>1 DEF PausedConflict, PausedOnlyWhilePending
  <2> QED BY <1>c, <2>1, <2>2, <2>3 DEF Kept
<1>6. CASE TickRestore
  <2>1. PICK i \in restore : engineEnable(i) /\ restore' = restore \ {i}
    BY <1>6 DEF TickRestore
  <2>2. /\ UNCHANGED <<paused, pending, cancelled, loop>> /\ loop = "restoring"
        /\ i \in Engines
    BY <1>0, <1>6 DEF TypeOK, TickRestore
  <2>3. active' = active \cup {i}
    BY <1>0, <2>1, <2>2, RestoreEnables DEF Turns, PausedConflict, Orderly
  <2>4. PausedConflict'
    BY <1>0, <1>1, <2>1, <2>2 DEF PausedConflict, PausedOnlyWhilePending
  <2> QED BY <1>c, <2>1, <2>2, <2>3, <2>4 DEF Kept
<1>7. CASE TickRelease
  <2>1. /\ UNCHANGED <<active, paused, restore, pending, cancelled>> /\ loop' = "idle"
        /\ restore = {}
    BY <1>7 DEF TickRelease
  <2>2. PausedConflict'
    BY <1>0, <1>1, <2>1 DEF PausedConflict, PausedOnlyWhilePending
  <2> QED BY <1>c, <2>1, <2>2 DEF Kept
<1> QED BY <1>3, <1>4, <1>5, <1>6, <1>7 DEF Tick

\* A command that only stops or forgets leaves nothing paused that runs.
LEMMA CommandConflict ==
  ASSUME ObeyInv, req.pc = "idle", loop = "idle", paused' \subseteq paused,
         UNCHANGED <<req, mode, restore, loop>>,
         \/ UNCHANGED <<pending, cancelled>>
         \/ pending /\ UNCHANGED pending /\ paused' = {}
         \/ cancelled' = FALSE /\ paused' = {}
  PROVE  PausedConflict'
BY DEF ObeyInv, PausedConflict, PausedOnlyWhilePending

LEMMA StepFields ==
  \A o, i : /\ step(o, i).op = o /\ step(o, i).e = i
            /\ \A p, j : step(o, i) = step(p, j) => o = p /\ i = j
BY DEF step

LEMMA CommandKept ==
  ASSUME ObeyInv, Orderly, Command
  PROVE  Kept'
<1> USE DEF registry, auto, config, intent
<1>0. /\ TypeOK /\ Turns /\ PausedConflict /\ WantedKept /\ NothingWanted
      /\ PausedOnlyWhilePending
  BY DEF ObeyInv, SerialInv, PausedConflict
<1>1. /\ req.pc = "idle" /\ loop = "idle" /\ todo = {} /\ UNCHANGED <<req, loop, restore>>
  BY <1>0 DEF Command, CmdEnable, CmdDisable, engineDisableAll, CmdBand, CmdDeny,
              CmdState, CmdAutoPcap, CmdPcapConfig, CmdPcapStop, CmdReady, Turns, Orderly, Calm
<1>2. /\ Off = {} /\ restore = {} /\ paused \cap active = {}
      /\ wanted \ {PCAP} = (active \cup paused) \ {PCAP}
      /\ stopped => active \subseteq {PCAP} /\ wanted \subseteq {PCAP}
  BY <1>0, <1>1, PausedIsOff DEF Off, WantedKept, NothingWanted, PausedConflict
<1>3. Off' = {e \in Engines : step("off", e) \in todo'}
  BY DEF Off
<1>4. ASSUME NEW e \in Engines, CmdEnable(e) PROVE Kept'
  <2>1. /\ active' = active \/ active' = active \cup {e}
        /\ UNCHANGED <<mode, pending, cancelled, paused>>
    BY <1>0, <1>4, EnableAdds DEF CmdEnable, Orderly
  <2>2. /\ wanted' = IF e \in active' THEN wanted \cup {e} ELSE wanted
        /\ todo' = IF e \in active' THEN {step("drop", e)} ELSE {}
        /\ stopped' = FALSE
    BY <1>4, <2>1 DEF CmdEnable
  <2>3. Off' = {} /\ \A m \in todo' : m.op = "drop" /\ m.e \in active'
    BY <1>3, <2>2 DEF step
  <2>4. wanted' \ {PCAP} = (active' \cup paused') \ {PCAP}
    BY <1>2, <2>1, <2>2
  <2>5. WantedKept' /\ NothingWanted'
    BY <1>1, <1>2, <2>2, <2>3, <2>4 DEF WantedKept, NothingWanted
  <2> QED BY <1>1, <2>1, <2>5, CommandConflict DEF Kept
<1>5. ASSUME NEW e \in Engines, CmdDisable(e) PROVE Kept'
  <2>1. UNCHANGED <<active, mode, pending, stopped>> /\ todo' = {step("off", e)}
    BY <1>5 DEF CmdDisable
  <2>2. Off' = {e} /\ \A m \in todo' : m.op = "off"
    BY <1>3, <2>1 DEF step
  <2>3. CASE e = PCAP /\ pending
    <3>1. cancelled' = TRUE /\ paused' = {} /\ wanted' = wanted \ (paused \cup {e})
      BY <1>5, <2>3 DEF CmdDisable
    <3>2. wanted' \ {PCAP} = (active' \ Off') \ {PCAP}
      BY <1>2, <2>1, <2>2, <2>3, <3>1
    <3>3. WantedKept' /\ NothingWanted'
      BY <1>1, <1>2, <2>1, <2>2, <3>1, <3>2 DEF WantedKept, NothingWanted
    <3> QED BY <1>1, <2>1, <2>3, <3>1, <3>3, CommandConflict DEF Kept
  <2>4. CASE ~(e = PCAP /\ pending)
    <3>1. UNCHANGED cancelled /\ paused' = paused \ {e} /\ wanted' = wanted \ {e}
      BY <1>5, <2>4 DEF CmdDisable
    <3>2. wanted' \ {PCAP} = ((active' \ Off') \cup paused') \ {PCAP}
      BY <1>2, <2>1, <2>2, <3>1
    <3>3. WantedKept' /\ NothingWanted'
      BY <1>1, <1>2, <2>1, <2>2, <3>1, <3>2 DEF WantedKept, NothingWanted
    <3> QED BY <1>1, <2>1, <3>1, <3>3, CommandConflict DEF Kept
  <2> QED BY <2>3, <2>4
<1>6. CASE engineDisableAll
  <2>1. /\ active' = {} /\ paused' = {} /\ wanted' = {} /\ UNCHANGED <<mode, todo>>
        /\ pending' = FALSE /\ cancelled' = FALSE
    BY <1>6 DEF engineDisableAll
  <2>2. WantedKept' /\ NothingWanted'
    BY <1>1, <1>2, <1>3, <2>1 DEF WantedKept, NothingWanted
  <2> QED BY <1>1, <2>1, <2>2, CommandConflict DEF Kept
<1>7. ASSUME NEW m \in DenyMasks, CmdDeny(m) PROVE Kept'
  <2>1. /\ UNCHANGED <<active, mode, pending, cancelled, paused, stopped>>
        /\ todo' = {step("off", e) : e \in m} /\ wanted' = wanted \ (m \cap active)
    BY <1>7 DEF CmdDeny
  <2>2. Off' = m /\ \A n \in todo' : n.op = "off"
    <3>1. \A e \in Engines : step("off", e) \in todo' <=> e \in m
      BY <2>1, StepFields
    <3>2. \A n \in todo' : n.op = "off"
      BY <2>1, StepFields
    <3> QED BY <1>3, <3>1, <3>2, DenyAssumption
  <2>3. wanted' \ {PCAP} = ((active' \ Off') \cup paused') \ {PCAP}
    BY <1>2, <2>1, <2>2
  <2>4. WantedKept' /\ NothingWanted'
    BY <1>1, <1>2, <2>1, <2>2, <2>3 DEF WantedKept, NothingWanted
  <2> QED BY <1>1, <2>1, <2>4, CommandConflict DEF Kept
<1>8. ASSUME NEW d \in SUBSET Engines, CmdState(d) PROVE Kept'
  <2> DEFINE desired == (d \ deny) \ {PCAP}
             current == active \ {PCAP}
  <2>1. /\ UNCHANGED <<active, mode, pending, cancelled, paused>>
        /\ todo' = {step("on", e) : e \in desired \ current}
                     \cup {step("off", e) : e \in current \ desired}
        /\ wanted' = wanted \ (current \ desired)
        /\ stopped' = (stopped /\ desired = {})
    BY <1>8 DEF CmdState
  <2>2. desired \subseteq Engines /\ current \subseteq Engines
    BY <1>0 DEF TypeOK
  <2> HIDE DEF desired
  <2>3. /\ \A e \in Engines : step("off", e) \in todo' <=> e \in current \ desired
        /\ \A n \in todo' : \/ n.op = "off"
                            \/ n.op = "on" /\ n.e \in desired \ current
    <3> HIDE DEF current
    <3> QED BY <2>1, StepFields
  <2>4. Off' = current \ desired
    BY <1>3, <2>2, <2>3
  <2>5. wanted' \ {PCAP} = ((active' \ Off') \cup paused') \ {PCAP}
    BY <1>2, <2>1, <2>4
  <2>6. WantedKept'
    BY <1>1, <1>2, <2>3, <2>4, <2>5 DEF WantedKept
  <2>7. stopped' => \A n \in todo' : n.op # "on"
    BY <2>1, <2>3
  <2>8. NothingWanted'
    BY <1>2, <2>1, <2>7 DEF NothingWanted
  <2> QED BY <1>1, <2>1, <2>6, <2>8, CommandConflict DEF Kept
<1>9. CASE CmdAutoPcap
  <2>1. UNCHANGED <<active, mode, pending, cancelled, paused, todo, wanted, stopped>>
    BY <1>9 DEF CmdAutoPcap
  <2>2. WantedKept' /\ NothingWanted'
    BY <1>0, <1>1, <1>3, <2>1 DEF WantedKept, NothingWanted, Off
  <2> QED BY <1>1, <2>1, <2>2, CommandConflict DEF Kept
<1>10. CASE CmdPcapStop
  <2>1. /\ UNCHANGED <<mode, pending, cancelled, paused, todo, wanted, stopped>>
        /\ active' = active \ {PCAP}
    BY <1>10 DEF CmdPcapStop, engineDisable
  <2>2. Off' = {} /\ wanted' \ {PCAP} = (active' \cup paused') \ {PCAP}
    BY <1>1, <1>2, <1>3, <2>1
  <2>3. WantedKept' /\ NothingWanted'
    BY <1>1, <1>2, <2>1, <2>2 DEF WantedKept, NothingWanted
  <2> QED BY <1>1, <2>1, <2>3, CommandConflict DEF Kept
<1> QED BY <1>4, <1>5, <1>6, <1>7, <1>8, <1>9, <1>10
        DEF Command, CmdBand, CmdPcapConfig, Orderly, Calm

LEMMA CmdStepKept ==
  ASSUME ObeyInv, Orderly, CmdStep
  PROVE  Kept'
<1> USE DEF registry, auto, config, intent
<1>0. /\ TypeOK /\ Turns /\ PausedConflict /\ WantedKept /\ NothingWanted
      /\ PausedOnlyWhilePending
  BY DEF ObeyInv, SerialInv, PausedConflict
<1>1. PICK m \in todo : CmdStep!(m)
  BY DEF CmdStep
<1>2. UNCHANGED <<mode, pending, cancelled, req, restore, loop, stopped>>
  BY Zenon, <1>1
<1>3. /\ m.e \in Engines /\ m.op \in {"on", "off", "drop"} /\ m = step(m.op, m.e)
      /\ req.pc = "idle" /\ loop = "idle" /\ restore = {}
  BY <1>0 DEF Micro, TypeOK, WantedKept, Turns, PausedConflict, step
<1>4. /\ wanted \ {PCAP} = ((active \ Off) \cup paused) \ {PCAP}
      /\ paused \cap active = {}
  BY <1>0, <1>3, PausedIsOff DEF WantedKept
<1>5. \/ m.op = "on" /\ engineEnable(m.e) /\ todo' = todo \ {m} /\ UNCHANGED paused
         /\ wanted' = IF m.e \in active' THEN (wanted \ (active \ active')) \cup {m.e} ELSE wanted
      \/ m.op = "off" /\ engineDisable(m.e) /\ todo' = todo \ {m} /\ UNCHANGED <<paused, wanted>>
      \/ m.op = "drop" /\ paused' = paused \ {m.e} /\ todo' = todo \ {m}
         /\ UNCHANGED <<active, pcapUp, wanted>>
  <2>1. m.op # "bounce" /\ m.op # "again"
    BY <1>3
  <2> QED BY Zenon, <1>1, <2>1
<1>6. /\ Off' = {e \in Engines : step("off", e) \in todo'} /\ todo' = todo \ {m}
      /\ \A n \in todo' : n.op \in {"on", "off", "drop"}
  BY <1>0, <1>5 DEF Off, WantedKept
<1>7. PausedConflict'
  BY <1>2, <1>3, <1>5, CommandConflict
<1>8. CASE m.op = "on"
  <2>1. /\ active' = active \/ active' = active \cup {m.e}
        /\ UNCHANGED paused
        /\ wanted' = IF m.e \in active' THEN wanted \cup {m.e} ELSE wanted
    BY <1>0, <1>3, <1>5, <1>8, EnableAdds DEF Orderly
  <2>2. Off' = Off
    BY <1>6, <1>8 DEF Off, step
  <2>3. m.e \notin Off
    BY <1>0, <1>8 DEF WantedKept
  <2>4. wanted' \ {PCAP} = ((active' \ Off') \cup paused') \ {PCAP}
    BY <1>4, <2>1, <2>2, <2>3
  <2>5. /\ \A n \in todo' : n.op = "on" => n.e \notin Off'
        /\ \A n \in todo' : n.op = "drop" => n.e \in active' \ Off'
    BY <1>0, <1>6, <2>1, <2>2 DEF WantedKept
  <2>6. WantedKept'
    BY <1>2, <1>3, <1>6, <2>4, <2>5 DEF WantedKept
  <2>7. ~stopped
    BY <1>0, <1>8 DEF NothingWanted
  <2> QED BY <1>2, <1>7, <2>6, <2>7 DEF Kept, NothingWanted
<1>9. CASE m.op = "off"
  <2>1. active' = active \ {m.e} /\ UNCHANGED <<paused, wanted>>
    BY <1>5, <1>9 DEF engineDisable
  <2>2. Off' = Off \ {m.e} /\ m.e \in Off
    BY <1>3, <1>6, <1>9 DEF Off, step
  <2>3. wanted' \ {PCAP} = ((active' \ Off') \cup paused') \ {PCAP}
    BY <1>4, <2>1, <2>2
  <2>4. \A n \in todo' : n.op = "on" => n.e \notin Off'
    BY <1>0, <1>6, <2>2 DEF WantedKept
  <2>5. \A n \in todo' : n.op = "drop" => n.e \in active' \ Off'
    BY <1>0, <1>6, <2>1, <2>2 DEF WantedKept
  <2>6. WantedKept'
    BY <1>2, <1>3, <1>6, <2>3, <2>4, <2>5 DEF WantedKept
  <2>7. NothingWanted'
    BY <1>0, <1>2, <1>6, <2>1 DEF NothingWanted
  <2> QED BY <1>7, <2>6, <2>7 DEF Kept
<1>10. CASE m.op = "drop"
  <2>1. paused' = paused \ {m.e} /\ UNCHANGED <<active, wanted>> /\ m.e \in active
    BY <1>0, <1>5, <1>10 DEF WantedKept
  <2>2. Off' = Off /\ paused' = paused
    BY <1>4, <1>6, <1>10, <2>1 DEF Off, step
  <2>3. WantedKept' /\ NothingWanted'
    BY <1>0, <1>2, <1>3, <1>6, <2>1, <2>2 DEF WantedKept, NothingWanted
  <2> QED BY <1>7, <2>3 DEF Kept
<1> QED BY <1>3, <1>8, <1>9, <1>10

LEMMA ObeyStep ==
  ASSUME ObeyInv, Orderly, [Next]_vars
  PROVE  ObeyInv'
<1>1. SerialInv' /\ RequestMeetsNoCapture'
  BY SerialStep, NoCaptureStep DEF ObeyInv, SerialInv, Orderly
<1>2. CASE UNCHANGED <<registry, pending, cancelled, paused, req, todo, restore, loop, intent>>
  <2>1. Kept'
    BY <1>2 DEF ObeyInv, Kept, PausedConflict, WantedKept, NothingWanted, Off, registry, intent,
                PausedOnlyWhilePending, Conflicts
  <2> QED BY <1>1, <2>1 DEF ObeyInv, Kept
<1>3. CASE UNCHANGED vars \/ DeadlinePasses \/ CooldownEnds
  BY <1>2, <1>3 DEF vars, DeadlinePasses, CooldownEnds, registry, auto, intent
<1> QED BY <1>1, <1>3, RequestKept, TickKept, CommandKept, CmdStepKept DEF Next, ObeyInv, Kept

\* Between captures exactly the engines run that commands turned on and left
\* on, and after disable-all none runs until a command starts one: the pause of
\* engineRequestAutoPcap and the restore of autoPcapTick lose and revive none.
\* Besides turns of the tasks this needs that no command restarts running engines
\* (engineApplyWifiBand) and that none displaces another (foxhunterStart).
THEOREM CommandsObeyed == ASSUME Orderly PROVE Spec => []Obeyed
<1>1. Init => ObeyInv
  <2> SUFFICES ASSUME Init PROVE ObeyInv
    OBVIOUS
  <2>1. SerialInv /\ RequestMeetsNoCapture
    BY InitType DEF Init, SerialInv, Turns, TestedQuiet, CaptureOwnsRadio, ReqIdle,
                    RequestMeetsNoCapture
  <2>2. PausedConflict
    BY DEF Init, PausedConflict, PausedOnlyWhilePending, ReqIdle
  <2>3. WantedKept /\ NothingWanted
    BY DEF Init, WantedKept, NothingWanted, Off
  <2> QED BY <2>1, <2>2, <2>3 DEF ObeyInv
<1>2. ObeyInv /\ [Next]_vars => ObeyInv'
  BY ObeyStep
<1>3. ObeyInv => Obeyed
  <2> SUFFICES ASSUME ObeyInv PROVE Obeyed
    OBVIOUS
  <2>1. ASSUME Quiet PROVE active \ {PCAP} = wanted \ {PCAP}
    BY <2>1 DEF ObeyInv, PausedConflict, PausedOnlyWhilePending, WantedKept, Off, Quiet
  <2> QED BY <2>1 DEF ObeyInv, NothingWanted, Obeyed, QuietMatchesIntent, StopStaysStopped
<1> QED BY <1>1, <1>2, <1>3, PTL DEF Spec

=============================================================================
