------------------------------ MODULE FleetControl ------------------------------
(***************************************************************************)
(* How the engines of a fleet follow the app. The app tells the manager    *)
(* which engines it wants (ble_gatt.cpp, EngineControlCallbacks); the      *)
(* manager broadcasts that set every second (heartbeatTask in              *)
(* manager_main.cpp), deals the sky spy and the channel hoppers out to     *)
(* different nodes (mgrPushEngineDeny), and tears everything down when the *)
(* app has been gone for 30 s. A node follows unless a phone is connected  *)
(* to itself, and idles by itself when no active manager is heard          *)
(* (statusHeartbeatTask in main_unified.cpp). With offline scan on, both   *)
(* keep scanning without a phone and resume after a restart.               *)
(*                                                                         *)
(* Actors: the manager's BLE callbacks and its heartbeatTask, each node's  *)
(* BLE callbacks, its mesh receiver and its statusHeartbeatTask. A         *)
(* broadcast is heard at once or missed by a node: a later copy of the     *)
(* engine set cannot overtake an earlier one. An engine's own behaviour is *)
(* EngineRegistry; PCAP, which the engine set leaves out, is not here.     *)
(***************************************************************************)
EXTENDS Naturals, FiniteSets

CONSTANTS
  N,            \* nodes 1..N, numbered in the order of their ids
  Engines,      \* engines of this instance
  Wardrive, Skyspy,
  Offline,      \* offline scan, the same setting all over the fleet
  MaxCommands,  \* bound: commands of the phones
  MaxConnects,  \* bound: connections of the phones
  MaxLoss,      \* bound: nodes that miss a broadcast
  MaxRestarts,  \* bound: restarts of the manager and the nodes
  Faults        \* further faults of this instance, a subset of FaultNames

FaultNames == {"nodephone",   \* phones also connect to nodes,
               "nodecommand", \*   and switch their engines
               "noderestart",
               "silence",     \* heartbeats are missed until the sender
                              \* counts as gone
               "denyloss",    \* a node misses all tries of a deny mask
               "graceRace"}   \* the app comes back between the check of the
                              \* grace and the teardown

ASSUME BoundAssumption == {N, MaxCommands, MaxConnects, MaxLoss, MaxRestarts} \subseteq Nat
ASSUME EnginesAssumption == {Wardrive, Skyspy} \subseteq Engines /\ Wardrive # Skyspy
ASSUME OfflineAssumption == Offline \in BOOLEAN
ASSUME FaultsAssumption == Faults \subseteq FaultNames

VARIABLES
  \* the manager
  cmd,          \* mgrCommandedMask without PCAP
  phone,        \* phoneConnected
  gone,         \* mgrPhoneGoneMs # 0
  torn,         \* mgrTornDown
  active,       \* g_meshManagerActive, the role its heartbeats carry
  pc,           \* where heartbeatTask is
  saved,        \* mgr_mask in flash
  live,         \* liveNodes: the nodes heard within MESH_NODE_TIMEOUT_MS,
  seen,         \*   and active_engines of each
  dealt,        \* what mgrLastDenyHash stands for: each node's last deny mask
  \* the nodes
  on,           \* active engines
  deny,         \* g_engineDenyMask
  nphone,       \* phoneConnected
  ngone,        \* nodePhoneGoneMs # 0
  joined,       \* meshManagerJoined()
  managed,      \* wasManaged
  nsaved,       \* eng_mask in flash
  \* bounds
  commands, connects, losses, restarts

manager == <<cmd, phone, gone, torn, active, pc, saved, live, seen, dealt>>
node    == <<on, deny, nphone, ngone, joined, managed, nsaved>>
bounds  == <<commands, connects, losses, restarts>>
vars    == <<manager, node, bounds>>

Nodes   == 1..N
Hoppers == Engines \ {Skyspy}     \* kHopperMask
AllOff  == [n \in Nodes |-> {}]
None    == [n \in {} |-> {}]

Init ==
  /\ cmd = {} /\ phone = FALSE /\ gone = FALSE /\ torn = FALSE /\ active = TRUE
  /\ pc = "grace" /\ saved = {} /\ live = {} /\ seen = AllOff /\ dealt = None
  /\ on = AllOff /\ deny = AllOff /\ nsaved = AllOff
  /\ nphone = [n \in Nodes |-> FALSE] /\ ngone = [n \in Nodes |-> FALSE]
  /\ joined = [n \in Nodes |-> FALSE] /\ managed = [n \in Nodes |-> FALSE]
  /\ commands = 0 /\ connects = 0 /\ losses = 0 /\ restarts = 0

-----------------------------------------------------------------------------
(* What a node makes of a broadcast.                                       *)

Heard(missed) ==
  /\ losses + Cardinality(missed) <= MaxLoss
  /\ losses' = losses + Cardinality(missed)

\* A node with a phone of its own leaves its engines alone.
Follow(missed, engines) ==
  on' = [n \in Nodes |-> IF n \in missed \/ nphone[n] THEN on[n] ELSE engines[n]]

\* Mutant: the deny mask is forgotten.
HearStateAll(engines) ==
  \E missed \in SUBSET Nodes : Heard(missed) /\ Follow(missed, [n \in Nodes |-> engines])

\* MESH_PKT_CONFIG with the engine set: engineStateConfigApply.
HearState(engines) ==
  \E missed \in SUBSET Nodes :
    /\ Heard(missed)
    /\ Follow(missed, [n \in Nodes |-> engines \ deny[n]])

\* MESH_PKT_COMMAND: its sender counts as a manager from then on.
HearCommand(engines) ==
  \E missed \in SUBSET Nodes :
    /\ Heard(missed)
    /\ Follow(missed, engines)
    /\ joined' = [n \in Nodes |-> joined[n] \/ n \notin missed]

\* meshMarkNodesEngine.
Mark(e, isOn) ==
  seen' = [n \in Nodes |-> IF n \notin live THEN seen[n]
                           ELSE IF isOn THEN seen[n] \cup {e} ELSE seen[n] \ {e}]

-----------------------------------------------------------------------------
(* The manager's BLE callbacks.                                            *)

PhoneConnect ==
  /\ pc # "teardown" \/ "graceRace" \in Faults
  /\ ~phone /\ connects < MaxConnects /\ connects' = connects + 1
  /\ phone' = TRUE /\ gone' = FALSE /\ torn' = FALSE /\ active' = TRUE
  /\ UNCHANGED <<cmd, pc, saved, live, seen, dealt, node, commands, losses,
                 restarts>>

\* onDisconnect, with mgrDropWigleForOffline.
PhoneDisconnect ==
  /\ phone /\ phone' = FALSE /\ gone' = TRUE
  /\ IF Offline
     THEN /\ cmd' = cmd \ {Wardrive} /\ Mark(Wardrive, FALSE)
          /\ HearCommand([n \in Nodes |-> on[n] \ {Wardrive}])
     ELSE UNCHANGED <<cmd, seen, on, joined, losses>>
  /\ UNCHANGED <<torn, active, pc, saved, live, dealt, deny, nphone, ngone,
                 managed, nsaved, commands, connects, restarts>>

\* EngineControlCallbacks::onWrite. Enabling and disabling one engine only
\* changes the set that is pushed; disabling all is broadcast at once.
PhoneSet(e, isOn) ==
  /\ cmd' = (IF isOn THEN cmd \cup {e} ELSE cmd \ {e})
  /\ Mark(e, isOn)
  /\ UNCHANGED <<on, joined, losses>>

PhoneDisableAll ==
  /\ cmd' = {} /\ seen' = AllOff
  /\ HearCommand(AllOff)

PhoneCommand ==
  /\ phone /\ commands < MaxCommands /\ commands' = commands + 1
  /\ \/ \E e \in Engines, isOn \in BOOLEAN : PhoneSet(e, isOn)
     \/ PhoneDisableAll
  /\ UNCHANGED <<phone, gone, torn, active, pc, saved, live, dealt, deny,
                 nphone, ngone, managed, nsaved, connects, restarts>>

-----------------------------------------------------------------------------
(* The manager's heartbeatTask: bleGattReconcileEngines, step by step, then *)
(* bleGattMgrPersistOfflineTick.                                           *)

\* Mutant: offline scan is not looked at.
GraceIgnoresOffline ==
  /\ pc = "grace" /\ gone /\ ~phone /\ ~torn
  /\ pc' = "teardown" /\ UNCHANGED gone
  /\ UNCHANGED <<cmd, phone, torn, active, saved, live, seen, dealt, node, bounds>>

\* The grace of 30 s is over: with offline scan on nothing happens, else the
\* teardown follows.
GraceExpires ==
  /\ pc = "grace" /\ gone /\ ~phone /\ ~torn
  /\ IF Offline THEN gone' = FALSE /\ pc' = "deny"
                ELSE pc' = "teardown" /\ UNCHANGED gone
  /\ UNCHANGED <<cmd, phone, torn, active, saved, live, seen, dealt, node, bounds>>

GraceGoesOn ==
  /\ pc = "grace" /\ pc' = "deny"
  /\ UNCHANGED <<cmd, phone, gone, torn, active, saved, live, seen, dealt, node,
                 bounds>>

Teardown ==
  /\ pc = "teardown" /\ pc' = "deny"
  /\ torn' = TRUE /\ active' = FALSE /\ cmd' = {} /\ seen' = AllOff
  /\ HearCommand(AllOff)
  /\ UNCHANGED <<phone, gone, saved, live, dealt, deny, nphone, ngone, managed,
                 nsaved, commands, connects, restarts>>

\* mgrFanoutSkyspyNode and mgrNodeDenyMask: with sky spy and a hopper wanted
\* and two nodes there, the node with the lowest id gets the sky spy alone.
Denied(n) ==
  IF Skyspy \in cmd /\ cmd \cap Hoppers # {} /\ Cardinality(live) >= 2
  THEN IF \A m \in live : n <= m THEN Hoppers ELSE {Skyspy}
  ELSE {}

\* All nodes when a mask or the set of nodes has changed, else those whose
\* heartbeat shows a denied engine.
DenyTargets ==
  {n \in live : [m \in live |-> Denied(m)] # dealt \/ seen[n] \cap Denied(n) # {}}

\* mgrPushEngineDeny, and engineSetDenyMask on the nodes. A node with a phone
\* acknowledges but does not apply it. The three retries make up for a loss.
PushDeny ==
  /\ pc = "deny" /\ pc' = "state"
  /\ dealt' = [n \in live |-> Denied(n)]
  /\ \E missed \in SUBSET DenyTargets :
       LET apply == {n \in DenyTargets \ missed : ~nphone[n] /\ deny[n] # Denied(n)}
       IN /\ missed = {} \/ "denyloss" \in Faults
          /\ Heard(missed)
          /\ deny' = [n \in Nodes |-> IF n \in apply THEN Denied(n) ELSE deny[n]]
          /\ on' = [n \in Nodes |-> IF n \in apply THEN on[n] \ Denied(n) ELSE on[n]]
          /\ joined' = [n \in Nodes |-> joined[n] \/ DenyTargets \ missed # {}]
  /\ UNCHANGED <<cmd, phone, gone, torn, active, saved, live, seen, nphone,
                 ngone, managed, nsaved, commands, connects, restarts>>

\* mgrPushEngineState. Its 400 ms of settling only delay it.
PushState ==
  /\ pc = "state" /\ pc' = "wigle"
  /\ HearState(cmd)
  /\ UNCHANGED <<cmd, phone, gone, torn, active, saved, live, seen, dealt, deny,
                 nphone, ngone, joined, managed, nsaved, commands, connects,
                 restarts>>

\* mgrReconcileDropWigle.
DropWigle ==
  /\ pc = "wigle" /\ pc' = "save"
  /\ IF Wardrive \notin cmd /\ \E n \in live : Wardrive \in seen[n]
     THEN HearCommand([n \in Nodes |-> on[n] \ {Wardrive}])
     ELSE UNCHANGED <<on, joined, losses>>
  /\ UNCHANGED <<cmd, phone, gone, torn, active, saved, live, seen, dealt, deny,
                 nphone, ngone, managed, nsaved, commands, connects, restarts>>

Persist ==
  /\ pc = "save" /\ pc' = "grace"
  /\ saved' = IF Offline THEN cmd ELSE saved
  /\ UNCHANGED <<cmd, phone, gone, torn, active, live, seen, dealt, node, bounds>>

\* setup() after a reset, with bleGattMgrRestoreOffline.
MgrRestart ==
  /\ restarts < MaxRestarts /\ restarts' = restarts + 1
  /\ cmd' = IF Offline THEN saved \ {Wardrive} ELSE {}
  /\ phone' = FALSE /\ gone' = FALSE /\ torn' = FALSE /\ active' = TRUE
  /\ pc' = "grace" /\ live' = {} /\ seen' = AllOff /\ dealt' = None
  /\ UNCHANGED <<saved, node, commands, connects, losses>>

-----------------------------------------------------------------------------
(* Heartbeats.                                                             *)

\* From a node: recordLiveNode and bleGattMgrSyncNodeEngineState.
NodeHeartbeat(n) ==
  /\ live' = live \cup {n} /\ seen' = [seen EXCEPT ![n] = on[n]]
  /\ IF on[n] # cmd THEN HearState(cmd) ELSE UNCHANGED <<on, losses>>
  /\ UNCHANGED <<cmd, phone, gone, torn, active, pc, saved, dealt, deny, nphone,
                 ngone, joined, managed, nsaved, commands, connects, restarts>>

\* meshGetLiveNodes leaves out a node not heard for MESH_NODE_TIMEOUT_MS.
NodeSilent(n) ==
  /\ "silence" \in Faults
  /\ n \in live /\ losses < MaxLoss /\ losses' = losses + 1
  /\ live' = live \ {n}
  /\ UNCHANGED <<cmd, phone, gone, torn, active, pc, saved, seen, dealt, node,
                 commands, connects, restarts>>

\* From the manager: its role decides whether the node has a manager.
MgrHeartbeat(n) ==
  /\ joined' = [joined EXCEPT ![n] = active]
  /\ UNCHANGED <<manager, on, deny, nphone, ngone, managed, nsaved, bounds>>

\* meshManagerJoined: a manager not heard for MESH_MANAGER_TTL_MS is lost.
MgrSilent(n) ==
  /\ "silence" \in Faults
  /\ joined[n] /\ losses < MaxLoss /\ losses' = losses + 1
  /\ joined' = [joined EXCEPT ![n] = FALSE]
  /\ UNCHANGED <<manager, on, deny, nphone, ngone, managed, nsaved, commands,
                 connects, restarts>>

-----------------------------------------------------------------------------
(* A node's own doing.                                                     *)

\* Mutant: the watchdog does not look for a phone.
WatchdogBlind(n, mask) ==
  IF joined[n] # managed[n] /\ (joined[n] \/ ~Offline) THEN {} ELSE mask

\* The end of statusHeartbeatTask: a manager has come, or is lost.
Watchdog(n, mask) ==
  IF joined[n] # managed[n] /\ ~nphone[n] /\ (joined[n] \/ ~Offline)
  THEN {} ELSE mask

\* Mutant: the node does not remember that it has a manager.
TickForgets(n, expired) ==
  /\ expired => ngone[n] /\ ~nphone[n]
  /\ LET mask == IF expired /\ ~Offline THEN {} ELSE on[n] IN
     /\ nsaved' = IF Offline /\ ~joined[n] THEN [nsaved EXCEPT ![n] = mask]
                                           ELSE nsaved
     /\ on' = [on EXCEPT ![n] = Watchdog(n, mask)]
  /\ ngone' = [ngone EXCEPT ![n] = @ /\ ~expired]
  /\ UNCHANGED <<manager, deny, nphone, joined, managed, bounds>>

\* statusHeartbeatTask: bleGattNodeGraceTick, the saving of the engines, the
\* watchdog. expired: the phone has been gone for 30 s.
NodeTick(n, expired) ==
  /\ expired => ngone[n] /\ ~nphone[n]
  /\ LET mask == IF expired /\ ~Offline THEN {} ELSE on[n] IN
     /\ nsaved' = IF Offline /\ ~joined[n] THEN [nsaved EXCEPT ![n] = mask]
                                           ELSE nsaved
     /\ on' = [on EXCEPT ![n] = Watchdog(n, mask)]
  /\ ngone' = [ngone EXCEPT ![n] = @ /\ ~expired]
  /\ managed' = [managed EXCEPT ![n] = joined[n]]
  /\ UNCHANGED <<manager, deny, nphone, joined, bounds>>

NodePhoneConnect(n) ==
  /\ "nodephone" \in Faults
  /\ ~nphone[n] /\ connects < MaxConnects /\ connects' = connects + 1
  /\ nphone' = [nphone EXCEPT ![n] = TRUE] /\ ngone' = [ngone EXCEPT ![n] = FALSE]
  /\ UNCHANGED <<manager, on, deny, joined, managed, nsaved, commands, losses,
                 restarts>>

\* nodePhoneDisconnected.
NodePhoneDisconnect(n) ==
  /\ nphone[n] /\ nphone' = [nphone EXCEPT ![n] = FALSE]
  /\ ngone' = [ngone EXCEPT ![n] = TRUE]
  /\ on' = IF Offline THEN [on EXCEPT ![n] = @ \ {Wardrive}] ELSE on
  /\ UNCHANGED <<manager, deny, joined, managed, nsaved, bounds>>

\* engineProcessCommand on behalf of the node's phone.
NodePhoneCommand(n) ==
  /\ "nodecommand" \in Faults
  /\ nphone[n] /\ commands < MaxCommands /\ commands' = commands + 1
  /\ \E e \in Engines :
       \/ e \notin deny[n] /\ on' = [on EXCEPT ![n] = @ \cup {e}]
       \/ on' = [on EXCEPT ![n] = @ \ {e}]
  /\ UNCHANGED <<manager, deny, nphone, ngone, joined, managed, nsaved, connects,
                 losses, restarts>>

\* setup() after a reset: with offline scan on, the engines that can spool
\* resume.
NodeRestart(n) ==
  /\ "noderestart" \in Faults
  /\ restarts < MaxRestarts /\ restarts' = restarts + 1
  /\ on' = [on EXCEPT ![n] = IF Offline THEN nsaved[n] \ {Wardrive} ELSE {}]
  /\ deny' = [deny EXCEPT ![n] = {}]
  /\ nphone' = [nphone EXCEPT ![n] = FALSE] /\ ngone' = [ngone EXCEPT ![n] = FALSE]
  /\ joined' = [joined EXCEPT ![n] = FALSE]
  /\ managed' = [managed EXCEPT ![n] = FALSE]
  /\ UNCHANGED <<manager, nsaved, commands, connects, losses>>

-----------------------------------------------------------------------------

heartbeatTask ==
  GraceExpires \/ GraceGoesOn \/ Teardown \/ PushDeny \/ PushState \/ DropWigle
  \/ Persist

Next ==
  \/ PhoneConnect \/ PhoneDisconnect \/ PhoneCommand
  \/ heartbeatTask \/ MgrRestart
  \/ \E n \in Nodes :
       \/ NodeHeartbeat(n) \/ NodeSilent(n) \/ MgrHeartbeat(n) \/ MgrSilent(n)
       \/ \E expired \in BOOLEAN : NodeTick(n, expired)
       \/ NodePhoneConnect(n) \/ NodePhoneDisconnect(n) \/ NodePhoneCommand(n)
       \/ NodeRestart(n)

\* The periodic tasks go round, heartbeats get through again and again, and
\* thirty seconds pass at last. Nothing is asked of phones.
Fairness ==
  /\ WF_vars(heartbeatTask) /\ SF_vars(GraceExpires)
  /\ \A n \in Nodes :
       /\ WF_vars(NodeHeartbeat(n)) /\ WF_vars(MgrHeartbeat(n))
       /\ WF_vars(NodeTick(n, FALSE)) /\ SF_vars(NodeTick(n, TRUE))

Spec == Init /\ [][Next]_vars /\ Fairness

-----------------------------------------------------------------------------
(* Properties.                                                             *)

Masks == [Nodes -> SUBSET Engines]
Flags == [Nodes -> BOOLEAN]

\* Types of the manager's and the nodes' variables.
TypeOK ==
  /\ {cmd, saved} \subseteq SUBSET Engines
  /\ {phone, gone, torn, active} \subseteq BOOLEAN
  /\ pc \in {"grace", "deny", "state", "wigle", "save"} \cup
            (IF Offline THEN {} ELSE {"teardown"})
  /\ live \subseteq Nodes /\ dealt \in UNION {[s -> SUBSET Engines] : s \in SUBSET Nodes}
  /\ {seen, on, deny, nsaved} \subseteq Masks
  /\ {nphone, ngone, joined, managed} \subseteq Flags

\* Nobody but its own phone switches the engines of a node that has one: not
\* the manager's pushes, not its commands, not the watchdog, not the grace.
PhoneOwnsNode ==
  [][\A n \in Nodes : nphone[n] /\ nphone'[n] /\ on'[n] # on[n]
       => NodePhoneCommand(n)]_vars

\* Every node without a phone ends up with what the app last asked for,
\* less its share of the fan-out, whatever broadcasts were missed and
\* whatever was restarted ("a heartbeat that disagrees later re-reveals
\* genuine drift").
FleetFollows ==
  \A n \in Nodes :
    <>[](~nphone[n]) => <>[](on[n] = cmd \ Denied(n))

\* Without offline scan and with all phones gone for good the whole fleet
\* goes idle ("nodes will self-idle").
FleetIdles ==
  <>[](~phone /\ \A n \in Nodes : ~nphone[n]) => <>[](on = AllOff)

\* The fleet does what the app asked for last, and nothing once all apps are
\* gone.
FleetObeys == FleetFollows /\ FleetIdles

\* With offline scan, an engine that was saved stays commanded while the app
\* is away, except wardriving: neither the grace nor a restart ends it
\* ("keep scanning ... survives a reboot with no phone attached").
OfflineKeepsTargets ==
  [][Offline /\ ~phone /\ ~phone' /\ saved = cmd =>
       cmd \ {Wardrive} \subseteq cmd']_vars

=================================================================================
