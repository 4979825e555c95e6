--------------------------- MODULE EngineRegistry ---------------------------
(***************************************************************************)
(* The engine registry of a node (src/src/engine_registry.cpp): which scan *)
(* engines run, and the auto-PCAP state machine that pauses conflicting    *)
(* engines for a capture and puts them back afterwards.                    *)
(*                                                                         *)
(* Four FreeRTOS tasks touch the registry:                                 *)
(*   req  - detectionNotifyTask, inside engineRequestAutoPcap;             *)
(*   cmd  - a command task (engineCmdTask or the mesh RX worker);          *)
(*   loop - the Arduino loop, inside engineLoopAll / autoPcapTick;         *)
(*   any task that calls engineDisableAll.                                 *)
(* engineMux protects engineEnable, engineDisable, engineDisableAll and    *)
(* the whole of engineLoopAll, but NOT the auto-PCAP variables that        *)
(* engineRequestAutoPcap and engineProcessCommand read and write outside   *)
(* it: every statement group between two lock sections is a step here.     *)
(* Only the loop task keeps the mutex over several steps (loop # "idle").  *)
(***************************************************************************)
EXTENDS Naturals, FiniteSets

CONSTANTS
  Engines,      \* the registered engines, a subset of EngineIds
  Events,       \* the commands and faults that may happen in this instance
  DenyMasks,    \* the fan-out deny masks the manager may push
  Serialised    \* TRUE: no command overlaps an auto-PCAP request or restore;
                \* FALSE: the interleaving the code allows

DETECTOR   == 0
FLOCK_BLE  == 1
FLOCK_WIFI == 2
FOXHUNTER  == 3
SKYSPY     == 4
UNIPWN     == 5
WARDRIVE   == 6
PCAP       == 7
EngineIds  == 0..7

EventNames == {"enable", "disable", "disableAll", "band", "deny", "state",
               "autopcap", "pcapcfg", "pcapstop", "pcapfail"}

ASSUME EnginesAssumption == Engines \subseteq EngineIds /\ PCAP \in Engines
ASSUME EventsAssumption == Events \subseteq EventNames
ASSUME DenyAssumption == DenyMasks \subseteq SUBSET Engines
ASSUME SerialisedAssumption == Serialised \in BOOLEAN

VARIABLES
  active,       \* engines whose states[] entry is not ESTATE_DISABLED
  pcapUp,       \* pcapActive of the PCAP engine: a capture really runs
  mode,         \* pcapMode, "wifi" or "ble"
  pending,      \* autoPcapPending
  observed,     \* autoPcapObservedActive
  cancelled,    \* autoPcapUserCancelled
  paused,       \* autoPcapPausedMask
  deadline,     \* the auto-PCAP deadline has passed
  autoOn,       \* autoPcapEnabled
  cooldown,     \* autoPcapCooldownUntilMs lies in the future
  deny,         \* g_engineDenyMask
  req,          \* where detectionNotifyTask is in engineRequestAutoPcap
  todo,         \* the lock sections the command task still has to execute
  restore,      \* engines autoPcapTick still has to re-enable
  loop,         \* where the loop task is in autoPcapTick
  wanted,       \* history: engines that commands turned on and left on
  stopped       \* history: disable-all was the operator's last word

registry == <<active, pcapUp, mode, deny>>
auto     == <<pending, observed, cancelled, paused, deadline>>
config   == <<autoOn, cooldown>>
intent   == <<wanted, stopped>>
vars     == <<registry, auto, config, req, todo, restore, loop, intent>>

-----------------------------------------------------------------------------
(* Engine classes.                                                         *)

isWifiEngine(e) == e \in {FLOCK_WIFI, SKYSPY, WARDRIVE, PCAP}

isBleScanEngine(e) == e \in {FLOCK_BLE, UNIPWN, FOXHUNTER, DETECTOR, PCAP}

wifiCoexCompatible(a, b) ==
  {a, b} \subseteq {WARDRIVE, FLOCK_WIFI, SKYSPY, PCAP}

\* The engines that must not scan beside a capture on the given radio.
Conflicts(ble) ==
  {e \in Engines \ {PCAP} : isBleScanEngine(e) \/ (~ble /\ isWifiEngine(e))}

\* engineRequestAutoPcap accepts detections of these engines only.
TriggerEngines == {DETECTOR, FLOCK_BLE, FLOCK_WIFI, SKYSPY, UNIPWN}

-----------------------------------------------------------------------------
(* Starting and stopping one engine, inside engineMux.                     *)

\* Mutant: the gate looks at the running PCAP engine only.
RefusedMutant(act, pend, e) ==
  /\ e # PCAP
  /\ PCAP \in act
  /\ pcapUp /\ mode = "ble" => isBleScanEngine(e)

\* engineEnableImpl: an engine that is off is refused while PCAP owns the
\* radio; pcapActiveMode is neither radio while no capture really runs.
Refused(act, pend, e) ==
  /\ e # PCAP
  /\ PCAP \in act \/ pend
  /\ IF pcapUp /\ mode = "ble"
     THEN isBleScanEngine(e)
     ELSE isWifiEngine(e) \/ isBleScanEngine(e)

\* foxhunterStart stops the engines that share its radio, unless wardrive
\* already feeds it.
PausedByFoxhunter(act, e) ==
  IF e = FOXHUNTER /\ WARDRIVE \notin act
  THEN {DETECTOR, FLOCK_WIFI, SKYSPY}
  ELSE {}

\* The running set after engineEnableImpl has started engine e.
Started(act, e) ==
  LET handoff == {i \in act : /\ i # e
                              /\ isWifiEngine(e) /\ isWifiEngine(i)
                              /\ ~wifiCoexCompatible(e, i)}
  IN  ((act \ handoff) \ PausedByFoxhunter(act \ handoff, e)) \cup {e}

\* pcapStart may fail to allocate its buffers or its task: it then sets the
\* state to DISABLED itself, and engineEnableImpl overwrites that.
PcapStarts(e) ==
  IF e = PCAP
  THEN pcapUp' \in {TRUE} \cup {b \in {FALSE} : "pcapfail" \in Events}
  ELSE UNCHANGED pcapUp

engineEnable(e) ==
  IF e \in active \/ Refused(active, pending, e)
  THEN UNCHANGED <<active, pcapUp>>
  ELSE active' = Started(active, e) /\ PcapStarts(e)

engineDisable(e) ==
  /\ active' = active \ {e}
  /\ pcapUp' = (pcapUp /\ ~(e = PCAP /\ PCAP \in active))

MuxFree == loop = "idle"

-----------------------------------------------------------------------------
(* The states of the three tasks.                                          *)

ReqSteps  == {"idle", "config", "test", "mark", "stop", "publish", "arm",
              "start"}
LoopSteps == {"idle", "ending", "restoring"}

\* The steps a command is made of, each one lock section or one group of
\* unlocked assignments: start or stop an engine, take it out of the restore
\* mask, stop a running one to start it again.
Micro == [op : {"on", "off", "drop", "bounce", "again"}, e : Engines]
step(o, i) == [op |-> o, e |-> i]

\* The order in which a command's steps are executed: the restart after a
\* stop comes next, a band change follows its table, the others the ids.
BandTable == <<WARDRIVE, SKYSPY, PCAP, DETECTOR, FLOCK_WIFI, FOXHUNTER>>
Rank(m) ==
  CASE m.op = "again"  -> 0
    [] m.op = "bounce" -> CHOOSE i \in DOMAIN BandTable : BandTable[i] = m.e
    [] OTHER           -> m.e

ReqIdle == [pc |-> "idle", ble |-> FALSE, left |-> {}, cur |-> PCAP]

CmdReady == todo = {} /\ (Serialised => req.pc = "idle" /\ loop = "idle")
ReqReady == req.pc = "idle" /\ (Serialised => todo = {} /\ loop = "idle")
TickReady == loop = "idle" /\ (Serialised => todo = {} /\ req.pc = "idle")

Init ==
  /\ active = {} /\ pcapUp = FALSE /\ mode = "wifi" /\ deny = {}
  /\ pending = FALSE /\ observed = FALSE /\ cancelled = FALSE
  /\ paused = {} /\ deadline = TRUE
  /\ autoOn \in BOOLEAN /\ cooldown = FALSE
  /\ req = ReqIdle /\ todo = {} /\ restore = {} /\ loop = "idle"
  /\ wanted = {} /\ stopped = FALSE

-----------------------------------------------------------------------------
(* engineRequestAutoPcap, run by detectionNotifyTask for each detection.   *)

\* The radio a capture for this source uses; the others decide by channel.
CaptureRadios(src) ==
  {ble \in BOOLEAN : /\ src \in {FLOCK_BLE, UNIPWN} => ble
                     /\ src = FLOCK_WIFI => ~ble}

\* Mutant: the pending capture is not looked at.
RequestCheckBlind(src) ==
  /\ ReqReady
  /\ autoOn /\ PCAP \notin active /\ ~cooldown
  /\ \E ble \in CaptureRadios(src) :
       req' = [ReqIdle EXCEPT !.pc = "config", !.ble = ble]
  /\ UNCHANGED <<registry, auto, config, todo, restore, loop, intent>>

\* A queued detection may belong to an engine that is off by now; a
\* detection whose MAC was seen recently is dropped before this step.
RequestCheck(src) ==
  /\ ReqReady
  /\ autoOn /\ ~pending /\ PCAP \notin active /\ ~cooldown
  /\ \E ble \in CaptureRadios(src) :
       req' = [ReqIdle EXCEPT !.pc = "config", !.ble = ble]
  /\ UNCHANGED <<registry, auto, config, todo, restore, loop, intent>>

\* Mutant: the loop over the engines does not skip PCAP.
RequestConfigAll ==
  /\ req.pc = "config"
  /\ mode' = IF req.ble THEN "ble" ELSE "wifi"
  /\ paused' = {}
  /\ req' = [req EXCEPT !.pc = "test", !.left = Engines]
  /\ UNCHANGED <<active, pcapUp, deny, pending, observed, cancelled, deadline,
                 config, todo, restore, loop, intent>>

\* Mutant: the loop over the engines stops before WARDRIVE.
RequestConfigShort ==
  /\ req.pc = "config"
  /\ mode' = IF req.ble THEN "ble" ELSE "wifi"
  /\ paused' = {}
  /\ req' = [req EXCEPT !.pc = "test", !.left = Engines \ {WARDRIVE, PCAP}]
  /\ UNCHANGED <<active, pcapUp, deny, pending, observed, cancelled, deadline,
                 config, todo, restore, loop, intent>>

RequestConfig ==
  /\ req.pc = "config"
  /\ mode' = IF req.ble THEN "ble" ELSE "wifi"
  /\ paused' = {}
  /\ req' = [req EXCEPT !.pc = "test", !.left = Engines \ {PCAP}]
  /\ UNCHANGED <<active, pcapUp, deny, pending, observed, cancelled, deadline,
                 config, todo, restore, loop, intent>>

\* Reads states[i] without the mutex.
RequestTest ==
  /\ req.pc = "test" /\ req.left # {}
  /\ \E i \in req.left :
       /\ \A j \in req.left : i <= j
       /\ IF i \in active /\ i \in Conflicts(req.ble)
          THEN req' = [req EXCEPT !.pc = "mark", !.cur = i, !.left = @ \ {i}]
          ELSE req' = [req EXCEPT !.left = @ \ {i}]
  /\ UNCHANGED <<registry, auto, config, todo, restore, loop, intent>>

RequestMark ==
  /\ req.pc = "mark"
  /\ paused' = paused \cup {req.cur}
  /\ req' = [req EXCEPT !.pc = "stop"]
  /\ UNCHANGED <<registry, pending, observed, cancelled, deadline, config,
                 todo, restore, loop, intent>>

RequestStop ==
  /\ req.pc = "stop" /\ MuxFree
  /\ engineDisable(req.cur)
  /\ req' = [req EXCEPT !.pc = "test", !.cur = PCAP]
  /\ UNCHANGED <<mode, deny, auto, config, todo, restore, loop, intent>>

RequestPublish ==
  /\ req.pc = "test" /\ req.left = {}
  /\ pending' = TRUE /\ observed' = FALSE
  /\ req' = [req EXCEPT !.pc = "arm"]
  /\ UNCHANGED <<registry, cancelled, paused, deadline, config, todo, restore,
                 loop, intent>>

RequestArm ==
  /\ req.pc = "arm"
  /\ cancelled' = FALSE /\ deadline' = FALSE
  /\ req' = [req EXCEPT !.pc = "start"]
  /\ UNCHANGED <<registry, pending, observed, paused, config, todo, restore,
                 loop, intent>>

RequestStart ==
  /\ req.pc = "start" /\ MuxFree
  /\ engineEnable(PCAP)
  /\ req' = ReqIdle
  /\ UNCHANGED <<mode, deny, auto, config, todo, restore, loop, intent>>

-----------------------------------------------------------------------------
(* autoPcapTick, run by the loop task with engineMux held throughout.      *)

TickObserve ==
  /\ TickReady /\ pending /\ PCAP \in active /\ ~deadline
  /\ ~observed /\ observed' = TRUE
  /\ UNCHANGED <<registry, pending, cancelled, paused, deadline, config, req,
                 todo, restore, loop, intent>>

\* The deadline has passed: pcapStop may take two seconds.
TickStop ==
  /\ TickReady /\ pending /\ PCAP \in active /\ deadline
  /\ observed' = TRUE
  /\ engineDisable(PCAP)
  /\ loop' = "ending"
  /\ UNCHANGED <<mode, deny, pending, cancelled, paused, deadline, config, req,
                 todo, restore, intent>>

\* Mutant: the mask is read after it was cleared.
TickFinishLate ==
  /\ loop = "ending" \/ (TickReady /\ pending /\ PCAP \notin active)
  /\ observed \/ cancelled
  /\ restore' = {}
  /\ cooldown' \in IF cancelled THEN {cooldown} ELSE {cooldown, TRUE}
  /\ pending' = FALSE /\ observed' = FALSE /\ cancelled' = FALSE
  /\ paused' = {}
  /\ loop' = "restoring"
  /\ UNCHANGED <<registry, deadline, autoOn, req, todo, intent>>

\* PCAP is down: end the capture and take over the engines to restore.
TickFinish ==
  /\ loop = "ending" \/ (TickReady /\ pending /\ PCAP \notin active)
  /\ observed \/ cancelled
  /\ restore' = IF cancelled THEN {} ELSE paused
  /\ cooldown' \in IF cancelled THEN {cooldown} ELSE {cooldown, TRUE}
  /\ pending' = FALSE /\ observed' = FALSE /\ cancelled' = FALSE
  /\ paused' = {}
  /\ loop' = "restoring"
  /\ UNCHANGED <<registry, deadline, autoOn, req, todo, intent>>

TickRestore ==
  /\ loop = "restoring" /\ restore # {}
  /\ \E i \in restore :
       /\ \A j \in restore : i <= j
       /\ engineEnable(i)
       /\ restore' = restore \ {i}
  /\ UNCHANGED <<mode, deny, auto, config, req, todo, loop, intent>>

TickRelease ==
  /\ loop = "restoring" /\ restore = {}
  /\ loop' = "idle"
  /\ UNCHANGED <<registry, auto, config, req, todo, restore, intent>>

-----------------------------------------------------------------------------
(* Commands: engineProcessCommand, engineSetDenyMask, engineApplyWifiBand, *)
(* engineStateConfigApply, and the auto-PCAP and PCAP configuration.       *)

\* A successful enable also forgets that the engine was paused, after the
\* mutex was released.
CmdEnable(e) ==
  /\ "enable" \in Events /\ CmdReady /\ MuxFree
  /\ e \notin deny
  /\ engineEnable(e)
  /\ LET ok == e \in active'
     IN  /\ todo' = IF ok THEN {step("drop", e)} ELSE {}
         /\ wanted' = IF ok THEN (wanted \ (active \ active')) \cup {e}
                            ELSE wanted
         /\ stopped' = FALSE
  /\ UNCHANGED <<mode, deny, auto, config, req, restore, loop>>

\* Mutant: a disabled engine stays in the restore mask.
CmdDisableKeepsMask(e) ==
  /\ "disable" \in Events /\ CmdReady
  /\ IF e = PCAP /\ pending
     THEN /\ cancelled' = TRUE /\ paused' = {}
          /\ wanted' = wanted \ (paused \cup {e})
     ELSE UNCHANGED <<cancelled, paused>> /\ wanted' = wanted \ {e}
  /\ todo' = {step("off", e)}
  /\ UNCHANGED <<registry, pending, observed, deadline, config, req, restore,
                 loop, stopped>>

CmdDisable(e) ==
  /\ "disable" \in Events /\ CmdReady
  /\ IF e = PCAP /\ pending
     THEN /\ cancelled' = TRUE /\ paused' = {}
          /\ wanted' = wanted \ (paused \cup {e})
     ELSE /\ UNCHANGED cancelled /\ paused' = paused \ {e}
          /\ wanted' = wanted \ {e}
  /\ todo' = {step("off", e)}
  /\ UNCHANGED <<registry, pending, observed, deadline, config, req, restore,
                 loop, stopped>>

\* Mutant: disable-all ends the capture but keeps the restore mask.
engineDisableAllKeepsMask ==
  /\ "disableAll" \in Events /\ MuxFree
  /\ Serialised => CmdReady
  /\ active' = {} /\ pcapUp' = FALSE
  /\ pending' = FALSE /\ observed' = FALSE /\ cancelled' = FALSE
  /\ wanted' = {} /\ stopped' = TRUE
  /\ UNCHANGED <<mode, deny, paused, deadline, config, req, todo, restore, loop>>

\* Reached from a command, and from the disconnect and OTA paths of other
\* tasks, so it needs no idle command task.
engineDisableAll ==
  /\ "disableAll" \in Events /\ MuxFree
  /\ Serialised => CmdReady
  /\ active' = {} /\ pcapUp' = FALSE
  /\ pending' = FALSE /\ observed' = FALSE /\ cancelled' = FALSE
  /\ paused' = {}
  /\ wanted' = {} /\ stopped' = TRUE
  /\ UNCHANGED <<mode, deny, deadline, config, req, todo, restore, loop>>

\* Restarts the running WiFi users, in the order of the code's table.
CmdBand ==
  /\ "band" \in Events /\ CmdReady
  /\ todo' = {step("bounce", e) : e \in Engines \cap {BandTable[i] : i \in DOMAIN BandTable}}
  /\ UNCHANGED <<registry, auto, config, req, restore, loop, intent>>

\* A mask equal to the stored one is ignored.
CmdDeny(m) ==
  /\ "deny" \in Events /\ CmdReady
  /\ m # deny
  /\ deny' = m
  /\ todo' = {step("off", e) : e \in m}
  /\ wanted' = wanted \ (m \cap active)
  /\ UNCHANGED <<active, pcapUp, mode, auto, config, req, restore, loop,
                 stopped>>

\* The manager's engine-state message: a snapshot of the running engines is
\* compared with the desired ones. Paused engines count as not running.
CmdState(d) ==
  /\ "state" \in Events /\ CmdReady
  /\ LET desired == (d \ deny) \ {PCAP}
         current == active \ {PCAP}
     IN  /\ desired # current
         /\ todo' = {step("on", e) : e \in desired \ current}
                      \cup {step("off", e) : e \in current \ desired}
         /\ wanted' = wanted \ (current \ desired)
         /\ stopped' = (stopped /\ desired = {})
  /\ UNCHANGED <<registry, auto, config, req, restore, loop>>

\* The next step of the command in progress.
CmdStep ==
  \E m \in todo :
    /\ \A n \in todo : Rank(m) <= Rank(n)
    /\ m.op = "drop" \/ MuxFree
    /\ \/ /\ m.op \in {"on", "again"}
          /\ engineEnable(m.e)
          /\ todo' = todo \ {m} /\ UNCHANGED paused
          /\ wanted' = IF m.e \in active'
                       THEN (wanted \ (active \ active')) \cup {m.e}
                       ELSE wanted
       \/ /\ m.op = "off"
          /\ engineDisable(m.e)
          /\ todo' = todo \ {m} /\ UNCHANGED <<paused, wanted>>
       \/ /\ m.op = "drop"
          /\ paused' = paused \ {m.e}
          /\ todo' = todo \ {m} /\ UNCHANGED <<active, pcapUp, wanted>>
       \/ /\ m.op = "bounce"
          /\ engineDisable(m.e)
          /\ todo' = (todo \ {m})
                       \cup {step("again", e) : e \in {m.e} \cap active}
          /\ UNCHANGED <<paused, wanted>>
    /\ UNCHANGED <<mode, deny, pending, observed, cancelled, deadline, config,
                   req, restore, loop, stopped>>

\* engineSetAutoPcap, from the PCAP or the mesh configuration.
CmdAutoPcap ==
  /\ "autopcap" \in Events /\ CmdReady
  /\ autoOn' = ~autoOn
  /\ UNCHANGED <<registry, auto, cooldown, req, todo, restore, loop, intent>>

\* PCAP_CTRL_START only stores the radio, even while a capture runs.
CmdPcapConfig ==
  /\ "pcapcfg" \in Events /\ CmdReady
  /\ mode' \in {"wifi", "ble"} \ {mode}
  /\ UNCHANGED <<active, pcapUp, deny, auto, config, req, todo, restore, loop,
                 intent>>

\* PCAP_CTRL_STOP stops the engine without telling the auto-PCAP machine.
CmdPcapStop ==
  /\ "pcapstop" \in Events /\ CmdReady /\ MuxFree
  /\ engineDisable(PCAP) /\ PCAP \in active
  /\ UNCHANGED <<mode, deny, auto, config, req, todo, restore, loop, intent>>

-----------------------------------------------------------------------------
(* Time.                                                                   *)

DeadlinePasses ==
  /\ ~deadline /\ deadline' = TRUE
  /\ UNCHANGED <<registry, pending, observed, cancelled, paused, config, req,
                 todo, restore, loop, intent>>

\* The cooldown runs out, or is configured away.
CooldownEnds ==
  /\ cooldown /\ cooldown' = FALSE
  /\ UNCHANGED <<registry, auto, autoOn, req, todo, restore, loop, intent>>

-----------------------------------------------------------------------------

RequestStep ==
  \/ RequestConfig \/ RequestTest \/ RequestMark \/ RequestStop
  \/ RequestPublish \/ RequestArm \/ RequestStart

Tick ==
  \/ TickObserve \/ TickStop \/ TickFinish \/ TickRestore \/ TickRelease

Command ==
  \/ \E e \in Engines : CmdEnable(e) \/ CmdDisable(e)
  \/ engineDisableAll
  \/ CmdBand
  \/ \E m \in DenyMasks : CmdDeny(m)
  \/ \E d \in SUBSET Engines : CmdState(d)
  \/ CmdAutoPcap \/ CmdPcapConfig \/ CmdPcapStop

Next ==
  \/ \E src \in TriggerEngines \cap Engines : RequestCheck(src)
  \/ RequestStep
  \/ Tick
  \/ Command
  \/ CmdStep
  \/ DeadlinePasses
  \/ CooldownEnds

\* Every task that has begun an operation finishes it, time passes, and the
\* loop task is not starved of engineMux by a stream of commands.
Fairness ==
  /\ WF_vars(RequestStep) /\ WF_vars(CmdStep)
  /\ SF_vars(Tick) /\ WF_vars(DeadlinePasses)

Spec == Init /\ [][Next]_vars

FairSpec == Spec /\ Fairness

-----------------------------------------------------------------------------
(* Properties.                                                             *)

\* Types of the registry's variables; a capture runs only in the PCAP engine.
TypeOK ==
  /\ active \subseteq Engines /\ pcapUp \in BOOLEAN
  /\ mode \in {"wifi", "ble"} /\ deny \subseteq Engines
  /\ pending \in BOOLEAN /\ observed \in BOOLEAN /\ cancelled \in BOOLEAN
  /\ paused \subseteq Engines \ {PCAP} /\ deadline \in BOOLEAN
  /\ autoOn \in BOOLEAN /\ cooldown \in BOOLEAN
  /\ req \in [pc : ReqSteps, ble : BOOLEAN, left : SUBSET (Engines \ {PCAP}),
              cur : Engines]
  /\ req.pc \in {"mark", "stop"} => req.cur # PCAP
  /\ todo \subseteq Micro
  /\ restore \subseteq Engines \ {PCAP} /\ loop \in LoopSteps
  /\ wanted \subseteq Engines /\ stopped \in BOOLEAN

\* No restore mask outlives its capture: whatever the interleaving of the
\* request, the commands and the tick, engines are remembered as paused only
\* while a capture is pending or a request is on its way to publish one.
PausedOnlyWhilePending ==
  paused # {} => pending \/ req.pc \in {"test", "mark", "stop"}

\* The unlocked check of autoPcapPending is still good when the request
\* publishes: from the check to the publication no other capture is pending
\* (only detectionNotifyTask publishes).
RequestMeetsNoCapture ==
  req.pc \in {"config", "test", "mark", "stop"} => ~pending

\* From publication to the end of an auto-PCAP capture no step of any task
\* starts an engine on the radio the capture was given (engineEnableImpl's
\* "PCAP owns radio"), the restore of an earlier capture included.
CaptureKeepsRadio ==
  [][pending /\ pending' => (active' \ active) \cap Conflicts(TRUE) = {}]_vars

\* While an auto-PCAP capture is pending, no engine that shares its radio
\* runs: all of them were paused and none came back early.
CaptureOwnsRadio ==
  pending /\ req.pc = "idle" => active \cap Conflicts(mode = "ble") = {}

\* No task is in the middle of an operation and no capture is pending.
Quiet == req.pc = "idle" /\ todo = {} /\ loop = "idle" /\ ~pending

\* Between captures exactly the engines run that commands turned on and left
\* on: a capture loses no engine and revives none that was turned off while
\* it was paused (engineProcessCommand 0x00, engineDisableAll).
QuietMatchesIntent == Quiet => active \ {PCAP} = wanted \ {PCAP}

\* After disable-all no scan engine runs until a command starts one (the
\* on-device self test: "disable ALL -> must STAY disabled").
StopStaysStopped == stopped => active \subseteq {PCAP}

\* Every auto-PCAP capture ends.
CaptureEnds == pending ~> ~pending

\* A paused engine runs again, unless a command turned it off.
PausedResume ==
  \A e \in Engines : e \in paused ~> (e \in active \/ e \notin wanted)

\* What commands asked for outlives the captures: between them the engines
\* that run are the wanted ones, and disable-all lasts.
Obeyed == QuietMatchesIntent /\ StopStaysStopped

\* A capture gives back what it took: it ends, and each engine it paused runs
\* again unless a command turned it off meanwhile.
CaptureGivesBack == CaptureEnds /\ PausedResume

\* "WiFi exclusivity - force-stop conflicting WiFi engines, except
\* wardrive+flock_wifi" (the comment in engineEnableImpl).
WifiExclusivity ==
  \A e, f \in {i \in active : isWifiEngine(i)} :
     e # f => {e, f} = {WARDRIVE, FLOCK_WIFI}

=============================================================================
