-------------------------- MODULE FleetControlProofs --------------------------
(***************************************************************************)
(* What FleetControl never does, proved for every number of nodes, every   *)
(* set of engines, either setting of offline scan and all faults: types,   *)
(* the phone's hold on its node, and the targets that survive offline.     *)
(***************************************************************************)
EXTENDS FleetControl, TLAPS

\* Who may switch engines of the node n in a step of the action it stands
\* in: nobody while its phone stays connected.
LeavesOwned == \A n \in Nodes : nphone[n] /\ nphone'[n] => on'[n] = on[n]

\* What the broadcasts do to the running engines, whoever missed them.
LEMMA FollowType ==
  ASSUME NEW missed, NEW engines \in Masks, on \in Masks, Follow(missed, engines)
  PROVE  on' \in Masks /\ \A n \in Nodes : nphone[n] => on'[n] = on[n]
BY DEF Follow, Masks

LEMMA HearStateType ==
  ASSUME NEW engines \in SUBSET Engines, TypeOK, HearState(engines)
  PROVE  on' \in Masks /\ \A n \in Nodes : nphone[n] => on'[n] = on[n]
<1>1. [n \in Nodes |-> engines \ deny[n]] \in Masks /\ on \in Masks
  BY DEF TypeOK, Masks
<1> QED BY <1>1, FollowType DEF HearState

LEMMA HearCommandType ==
  ASSUME NEW engines \in Masks, TypeOK, HearCommand(engines)
  PROVE  /\ on' \in Masks /\ joined' \in Flags
         /\ \A n \in Nodes : nphone[n] => on'[n] = on[n]
<1>1. on \in Masks /\ joined \in Flags
  BY DEF TypeOK
<1>2. PICK missed \in SUBSET Nodes :
         /\ Follow(missed, engines)
         /\ joined' = [n \in Nodes |-> joined[n] \/ n \notin missed]
  BY DEF HearCommand
<1>3. joined' \in Flags
  BY <1>2 DEF Flags
<1> QED BY <1>1, <1>2, <1>3, FollowType

LEMMA Dropped ==
  ASSUME NEW lost, TypeOK
  PROVE  [n \in Nodes |-> on[n] \ lost] \in Masks
BY DEF TypeOK, Masks

LEMMA AllOffType == AllOff \in Masks
BY DEF AllOff, Masks

LEMMA MarkType ==
  ASSUME NEW e \in Engines, NEW isOn, TypeOK, Mark(e, isOn)
  PROVE  seen' \in Masks
BY DEF TypeOK, Mark, Masks

LEMMA DeniedType ==
  ASSUME NEW n \in Nodes
  PROVE  Denied(n) \in SUBSET Engines
BY EnginesAssumption DEF Denied, Hoppers

LEMMA WatchdogType ==
  ASSUME NEW n \in Nodes, NEW mask \in SUBSET Engines
  PROVE  Watchdog(n, mask) \in SUBSET Engines
BY DEF Watchdog

-----------------------------------------------------------------------------

LEMMA InitType == Init => TypeOK
<1> SUFFICES ASSUME Init PROVE TypeOK
  OBVIOUS
<1>1. None \in UNION {[s -> SUBSET Engines] : s \in SUBSET Nodes}
  <2>1. None \in [{} -> SUBSET Engines] /\ {} \in SUBSET Nodes
    BY DEF None
  <2> QED BY <2>1
<1>2. {nphone, ngone, joined, managed} \subseteq Flags
  BY DEF Init, Flags
<1> QED BY <1>1, <1>2, AllOffType DEF Init, TypeOK

\* One step of an action keeps the types, and leaves the engines of a node
\* with a phone alone unless it is that phone's command.
LEMMA PhoneKeeps ==
  ASSUME TypeOK, PhoneConnect \/ PhoneDisconnect \/ PhoneCommand
  PROVE  TypeOK' /\ LeavesOwned
<1> USE DEF manager, node, bounds
<1>1. CASE PhoneConnect
  <2>1. UNCHANGED <<on, seen, deny, nsaved, nphone, ngone, joined, managed, cmd,
                    saved, pc, live, dealt>>
    BY <1>1 DEF PhoneConnect
  <2>2. {phone', gone', torn', active'} \subseteq BOOLEAN
    BY <1>1 DEF PhoneConnect, TypeOK
  <2> QED BY <2>1, <2>2 DEF TypeOK, LeavesOwned
<1>2. CASE PhoneDisconnect
  <2>1. /\ UNCHANGED <<torn, active, pc, saved, live, dealt, deny, nphone, ngone,
                       managed, nsaved>>
        /\ {phone', gone'} \subseteq BOOLEAN
    BY <1>2 DEF PhoneDisconnect
  <2>2. CASE Offline
    <3>1. cmd' = cmd \ {Wardrive} /\ Mark(Wardrive, FALSE)
          /\ HearCommand([n \in Nodes |-> on[n] \ {Wardrive}])
      BY <1>2, <2>2 DEF PhoneDisconnect
    <3>2. /\ on' \in Masks /\ joined' \in Flags
          /\ \A n \in Nodes : nphone[n] => on'[n] = on[n]
      BY <3>1, Dropped, HearCommandType
    <3>3. seen' \in Masks
      BY <3>1, MarkType, EnginesAssumption
    <3> QED BY <2>1, <3>1, <3>2, <3>3 DEF TypeOK, LeavesOwned
  <2>3. CASE ~Offline
    <3>1. UNCHANGED <<cmd, seen, on, joined>>
      BY <1>2, <2>3 DEF PhoneDisconnect
    <3> QED BY <2>1, <3>1 DEF TypeOK, LeavesOwned
  <2> QED BY <2>2, <2>3
<1>3. CASE PhoneCommand
  <2>1. UNCHANGED <<phone, gone, torn, active, pc, saved, live, dealt, deny,
                    nphone, ngone, managed, nsaved>>
    BY <1>3 DEF PhoneCommand
  <2>2. ASSUME NEW e \in Engines, NEW isOn \in BOOLEAN, PhoneSet(e, isOn)
        PROVE  TypeOK' /\ LeavesOwned
    <3>1. seen' \in Masks /\ UNCHANGED <<on, joined>>
      BY <2>2, MarkType DEF PhoneSet
    <3>2. cmd' \in SUBSET Engines
      BY <2>2 DEF PhoneSet, TypeOK
    <3> QED BY <2>1, <3>1, <3>2 DEF TypeOK, LeavesOwned
  <2>3. CASE PhoneDisableAll
    <3>1. cmd' = {} /\ seen' \in Masks /\ HearCommand(AllOff)
      BY <2>3, AllOffType DEF PhoneDisableAll
    <3>2. /\ on' \in Masks /\ joined' \in Flags
          /\ \A n \in Nodes : nphone[n] => on'[n] = on[n]
      BY <3>1, AllOffType, HearCommandType
    <3> QED BY <2>1, <3>1, <3>2 DEF TypeOK, LeavesOwned
  <2> QED BY <1>3, <2>2, <2>3 DEF PhoneCommand
<1> QED BY <1>1, <1>2, <1>3

LEMMA TaskKeeps ==
  ASSUME TypeOK, heartbeatTask \/ MgrRestart
  PROVE  TypeOK' /\ LeavesOwned
<1> USE DEF manager, node, bounds
<1>1. CASE GraceExpires \/ GraceGoesOn \/ Persist
  <2>1. UNCHANGED <<on, seen, deny, nsaved, nphone, ngone, joined, managed, cmd,
                    phone, torn, active, live, dealt>>
    BY <1>1 DEF GraceExpires, GraceGoesOn, Persist
  <2>2. /\ gone' \in BOOLEAN /\ saved' \in SUBSET Engines
        /\ pc' \in {"grace", "deny", "state", "wigle", "save"} \cup
                   (IF Offline THEN {} ELSE {"teardown"})
    BY <1>1 DEF GraceExpires, GraceGoesOn, Persist, TypeOK
  <2> QED BY <2>1, <2>2 DEF TypeOK, LeavesOwned
<1>2. CASE Teardown
  <2>1. /\ UNCHANGED <<phone, gone, saved, live, dealt, deny, nphone, ngone,
                       managed, nsaved>>
        /\ cmd' = {} /\ seen' \in Masks /\ HearCommand(AllOff) /\ pc' = "deny"
        /\ torn' \in BOOLEAN /\ active' \in BOOLEAN
    BY <1>2, AllOffType DEF Teardown
  <2>2. /\ on' \in Masks /\ joined' \in Flags
        /\ \A n \in Nodes : nphone[n] => on'[n] = on[n]
    BY <2>1, AllOffType, HearCommandType
  <2> QED BY <2>1, <2>2 DEF TypeOK, LeavesOwned
<1>3. CASE PushDeny
  <2>1. /\ UNCHANGED <<cmd, phone, gone, torn, active, saved, live, seen, nphone,
                       ngone, managed, nsaved>>
        /\ dealt' = [n \in live |-> Denied(n)] /\ pc' = "state"
    BY <1>3 DEF PushDeny
  <2>2. dealt' \in UNION {[s -> SUBSET Engines] : s \in SUBSET Nodes}
    <3>1. live \in SUBSET Nodes
      BY DEF TypeOK
    <3>2. dealt' \in [live -> SUBSET Engines]
      BY <2>1, <3>1, DeniedType
    <3> QED BY <3>1, <3>2
  <2>3. PICK apply \in SUBSET Nodes, missed \in SUBSET DenyTargets :
          /\ \A n \in apply : ~nphone[n]
          /\ deny' = [n \in Nodes |-> IF n \in apply THEN Denied(n) ELSE deny[n]]
          /\ on' = [n \in Nodes |-> IF n \in apply THEN on[n] \ Denied(n) ELSE on[n]]
          /\ joined' = [n \in Nodes |-> joined[n] \/ DenyTargets \ missed # {}]
    <3>1. DenyTargets \subseteq Nodes
      BY DEF DenyTargets, TypeOK
    <3>2. PICK missed \in SUBSET DenyTargets :
            LET apply == {n \in DenyTargets \ missed : ~nphone[n] /\ deny[n] # Denied(n)}
            IN /\ deny' = [n \in Nodes |-> IF n \in apply THEN Denied(n) ELSE deny[n]]
               /\ on' = [n \in Nodes |-> IF n \in apply THEN on[n] \ Denied(n) ELSE on[n]]
               /\ joined' = [n \in Nodes |-> joined[n] \/ DenyTargets \ missed # {}]
      BY <1>3 DEF PushDeny
    <3> DEFINE apply == {n \in DenyTargets \ missed : ~nphone[n] /\ deny[n] # Denied(n)}
    <3>3. apply \in SUBSET Nodes /\ \A n \in apply : ~nphone[n]
      BY <3>1
    <3> QED BY <3>2, <3>3
  <2>4. deny' \in Masks /\ on' \in Masks /\ joined' \in Flags
    BY <2>3, DeniedType DEF TypeOK, Masks, Flags
  <2>5. \A n \in Nodes : nphone[n] => on'[n] = on[n]
    BY <2>3
  <2> QED BY <2>1, <2>2, <2>4, <2>5 DEF TypeOK, LeavesOwned
<1>4. CASE PushState
  <2>1. /\ UNCHANGED <<cmd, phone, gone, torn, active, saved, live, seen, dealt,
                       deny, nphone, ngone, joined, managed, nsaved>>
        /\ HearState(cmd) /\ pc' = "wigle"
    BY <1>4 DEF PushState
  <2>2. on' \in Masks /\ \A n \in Nodes : nphone[n] => on'[n] = on[n]
    BY <2>1, HearStateType DEF TypeOK
  <2> QED BY <2>1, <2>2 DEF TypeOK, LeavesOwned
<1>5. CASE DropWigle
  <2>1. /\ UNCHANGED <<cmd, phone, gone, torn, active, saved, live, seen, dealt,
                       deny, nphone, ngone, managed, nsaved>>
        /\ pc' = "save"
        /\ \/ UNCHANGED <<on, joined>>
           \/ HearCommand([n \in Nodes |-> on[n] \ {Wardrive}])
    BY <1>5 DEF DropWigle
  <2>2. /\ on' \in Masks /\ joined' \in Flags
        /\ \A n \in Nodes : nphone[n] => on'[n] = on[n]
    <3>1. CASE UNCHANGED <<on, joined>>
      BY <3>1 DEF TypeOK
    <3>2. CASE HearCommand([n \in Nodes |-> on[n] \ {Wardrive}])
      BY <3>2, Dropped, HearCommandType
    <3> QED BY <2>1, <3>1, <3>2
  <2> QED BY <2>1, <2>2 DEF TypeOK, LeavesOwned
<1>6. CASE MgrRestart
  <2>1. /\ UNCHANGED <<saved, on, deny, nphone, ngone, joined, managed, nsaved>>
        /\ phone' = FALSE /\ gone' = FALSE /\ torn' = FALSE /\ active' = TRUE
        /\ cmd' \in SUBSET Engines /\ seen' = AllOff /\ pc' = "grace" /\ live' = {}
    BY <1>6 DEF MgrRestart, TypeOK
  <2>2. dealt' \in [{} -> SUBSET Engines]
    BY <1>6 DEF MgrRestart, None
  <2> QED BY <2>1, <2>2, AllOffType DEF TypeOK, LeavesOwned
<1> QED BY <1>1, <1>2, <1>3, <1>4, <1>5, <1>6 DEF heartbeatTask

\* The same for the heartbeats and for what the node n does by itself.
LEMMA NodeKeeps ==
  ASSUME TypeOK, NEW n \in Nodes,
         \/ NodeHeartbeat(n) \/ NodeSilent(n) \/ MgrHeartbeat(n) \/ MgrSilent(n)
         \/ \E expired \in BOOLEAN : NodeTick(n, expired)
         \/ NodePhoneConnect(n) \/ NodePhoneDisconnect(n) \/ NodeRestart(n)
  PROVE  TypeOK' /\ LeavesOwned
<1> USE DEF manager, node, bounds
<1>1. CASE NodeHeartbeat(n)
  <2>1. /\ UNCHANGED <<cmd, phone, gone, torn, active, pc, saved, dealt, deny,
                       nphone, ngone, joined, managed, nsaved>>
        /\ live' \subseteq Nodes
        /\ HearState(cmd) \/ UNCHANGED on
    BY <1>1 DEF NodeHeartbeat, TypeOK
  <2>2. seen' \in Masks
    BY <1>1 DEF NodeHeartbeat, TypeOK, Masks
  <2>3. on' \in Masks /\ \A m \in Nodes : nphone[m] => on'[m] = on[m]
    BY <2>1, HearStateType DEF TypeOK
  <2> QED BY <2>1, <2>2, <2>3 DEF TypeOK, LeavesOwned
<1>2. CASE NodeSilent(n)
  BY <1>2 DEF NodeSilent, TypeOK, LeavesOwned
<1>3. CASE MgrHeartbeat(n) \/ MgrSilent(n)
  <2>1. UNCHANGED <<manager, on, deny, nphone, ngone, managed, nsaved>>
    BY <1>3 DEF MgrHeartbeat, MgrSilent
  <2>2. joined' \in Flags
    BY <1>3 DEF MgrHeartbeat, MgrSilent, TypeOK, Flags
  <2> QED BY <2>1, <2>2 DEF TypeOK, LeavesOwned
<1>4. ASSUME NEW expired \in BOOLEAN, NodeTick(n, expired)
      PROVE  TypeOK' /\ LeavesOwned
  <2> DEFINE mask == IF expired /\ ~Offline THEN {} ELSE on[n]
  <2>1. mask \in SUBSET Engines
    BY DEF TypeOK, Masks
  <2>2. /\ UNCHANGED <<manager, deny, nphone, joined>>
        /\ expired => ~nphone[n]
        /\ nsaved' = nsaved \/ nsaved' = [nsaved EXCEPT ![n] = mask]
        /\ on' = [on EXCEPT ![n] = Watchdog(n, mask)]
        /\ ngone' = [ngone EXCEPT ![n] = @ /\ ~expired]
        /\ managed' = [managed EXCEPT ![n] = joined[n]]
    BY <1>4 DEF NodeTick
  <2>3. nphone[n] => Watchdog(n, mask) = on[n]
    BY <2>2 DEF Watchdog
  <2> HIDE DEF mask
  <2>4. on' \in Masks /\ nsaved' \in Masks
    <3>1. on \in Masks /\ nsaved \in Masks /\ Watchdog(n, mask) \in SUBSET Engines
      BY <2>1, WatchdogType DEF TypeOK
    <3>2. on' \in Masks
      BY <2>2, <3>1 DEF Masks
    <3>3. nsaved' \in Masks
      <4>1. CASE nsaved' = nsaved
        BY <3>1, <4>1
      <4>2. CASE nsaved' = [nsaved EXCEPT ![n] = mask]
        BY <2>1, <3>1, <4>2 DEF Masks
      <4> QED BY <2>2, <4>1, <4>2
    <3> QED BY <3>2, <3>3
  <2>5. \A m \in Nodes : nphone[m] => on'[m] = on[m]
    BY <2>2, <2>3 DEF TypeOK, Masks
  <2>6. ngone' \in Flags /\ managed' \in Flags
    BY <2>2 DEF TypeOK, Flags
  <2> QED BY <2>2, <2>4, <2>5, <2>6 DEF TypeOK, LeavesOwned
<1>5. CASE NodePhoneConnect(n)
  <2>1. UNCHANGED <<manager, on, deny, joined, managed, nsaved>>
    BY <1>5 DEF NodePhoneConnect
  <2>2. nphone' \in Flags /\ ngone' \in Flags
    BY <1>5 DEF NodePhoneConnect, TypeOK, Flags
  <2> QED BY <2>1, <2>2 DEF TypeOK, LeavesOwned
<1>6. CASE NodePhoneDisconnect(n)
  <2>1. UNCHANGED <<manager, deny, joined, managed, nsaved>>
    BY <1>6 DEF NodePhoneDisconnect
  <2>2. nphone' \in Flags /\ ngone' \in Flags /\ ~nphone'[n]
    BY <1>6 DEF NodePhoneDisconnect, TypeOK, Flags
  <2>3. on' \in Masks /\ \A m \in Nodes \ {n} : on'[m] = on[m]
    BY <1>6 DEF NodePhoneDisconnect, TypeOK, Masks
  <2> QED BY <2>1, <2>2, <2>3 DEF TypeOK, LeavesOwned
<1>7. CASE NodeRestart(n)
  <2>1. UNCHANGED <<manager, nsaved>>
    BY <1>7 DEF NodeRestart
  <2>2. {nphone', ngone', joined', managed'} \subseteq Flags /\ ~nphone'[n]
    BY <1>7 DEF NodeRestart, TypeOK, Flags
  <2>3. on' \in Masks /\ deny' \in Masks /\ \A m \in Nodes \ {n} : on'[m] = on[m]
    BY <1>7 DEF NodeRestart, TypeOK, Masks
  <2> QED BY <2>1, <2>2, <2>3 DEF TypeOK, LeavesOwned
<1> QED BY <1>1, <1>2, <1>3, <1>4, <1>5, <1>6, <1>7

LEMMA CommandKeeps ==
  ASSUME TypeOK, NEW n \in Nodes, NodePhoneCommand(n)
  PROVE  TypeOK' /\ \A m \in Nodes \ {n} : on'[m] = on[m]
<1>1. UNCHANGED <<manager, deny, nphone, ngone, joined, managed, nsaved>>
  BY DEF NodePhoneCommand
<1>2. on' \in Masks /\ \A m \in Nodes \ {n} : on'[m] = on[m]
  BY DEF NodePhoneCommand, TypeOK, Masks
<1> QED BY <1>1, <1>2 DEF TypeOK, manager

\* Together: whatever happens, and whoever does it.
LEMMA StepKeeps ==
  ASSUME TypeOK, [Next]_vars
  PROVE  /\ TypeOK'
         /\ \A n \in Nodes : nphone[n] /\ nphone'[n] /\ on'[n] # on[n]
                               => NodePhoneCommand(n)
<1>1. ASSUME NEW n \in Nodes, NodePhoneCommand(n)
      PROVE  /\ TypeOK'
             /\ \A m \in Nodes : on'[m] # on[m] => NodePhoneCommand(m)
  <2>1. TypeOK' /\ \A m \in Nodes \ {n} : on'[m] = on[m]
    BY <1>1, CommandKeeps
  <2> QED BY <1>1, <2>1
<1>2. CASE UNCHANGED vars
  BY <1>2 DEF vars, manager, node, TypeOK
<1>3. CASE TypeOK' /\ LeavesOwned
  BY <1>3 DEF LeavesOwned
<1>4. CASE PhoneConnect \/ PhoneDisconnect \/ PhoneCommand
  BY <1>3, <1>4, PhoneKeeps
<1>5. CASE heartbeatTask \/ MgrRestart
  BY <1>3, <1>5, TaskKeeps
<1>6. ASSUME NEW n \in Nodes,
         \/ NodeHeartbeat(n) \/ NodeSilent(n) \/ MgrHeartbeat(n) \/ MgrSilent(n)
         \/ \E expired \in BOOLEAN : NodeTick(n, expired)
         \/ NodePhoneConnect(n) \/ NodePhoneDisconnect(n) \/ NodeRestart(n)
      PROVE  TypeOK' /\ LeavesOwned
  BY <1>6, NodeKeeps
<1> QED BY <1>1, <1>2, <1>3, <1>4, <1>5, <1>6 DEF Next

-----------------------------------------------------------------------------

\* The manager's and the nodes' variables keep their types; in particular
\* the teardown is never reached with offline scan on.
THEOREM TypeCorrect == Spec => []TypeOK
<1>1. TypeOK /\ [Next]_vars => TypeOK'
  BY StepKeeps
<1> QED BY InitType, <1>1, PTL DEF Spec

\* While a phone stays connected to a node, none of the manager's pushes and
\* commands, no watchdog and no grace switches an engine of that node.
THEOREM PhoneKeepsNode == Spec => PhoneOwnsNode
<1>1. TypeOK /\ [Next]_vars =>
        [\A n \in Nodes : nphone[n] /\ nphone'[n] /\ on'[n] # on[n]
           => NodePhoneCommand(n)]_vars
  BY StepKeeps
<1> QED BY TypeCorrect, <1>1, PTL DEF Spec, PhoneOwnsNode

\* With offline scan on, what was saved stays commanded while the app is
\* away, except wardriving: the grace ends in nothing, and a restart takes
\* up the saved set.
THEOREM OfflineTargetsKept == Spec => OfflineKeepsTargets
<1>1. TypeOK /\ [Next]_vars =>
        [Offline /\ ~phone /\ ~phone' /\ saved = cmd => cmd \ {Wardrive} \subseteq cmd']_vars
  <2> SUFFICES ASSUME TypeOK, Next, Offline, ~phone, ~phone', saved = cmd
               PROVE  cmd \ {Wardrive} \subseteq cmd'
    BY DEF vars
  <2>1. pc # "teardown"
    BY DEF TypeOK
  <2>2. ~PhoneConnect /\ ~PhoneDisconnect /\ ~PhoneCommand /\ ~Teardown
    BY <2>1 DEF PhoneConnect, PhoneDisconnect, PhoneCommand, Teardown
  <2>3. CASE MgrRestart
    BY <2>3 DEF MgrRestart
  <2>4. CASE GraceExpires \/ GraceGoesOn \/ PushDeny \/ PushState \/ DropWigle \/ Persist
    BY <2>4 DEF GraceExpires, GraceGoesOn, PushDeny, PushState, DropWigle, Persist
  <2>5. ASSUME NEW n \in Nodes,
          \/ NodeHeartbeat(n) \/ NodeSilent(n) \/ MgrHeartbeat(n) \/ MgrSilent(n)
          \/ \E expired \in BOOLEAN : NodeTick(n, expired)
          \/ NodePhoneConnect(n) \/ NodePhoneDisconnect(n) \/ NodePhoneCommand(n)
          \/ NodeRestart(n)
        PROVE  cmd' = cmd
    BY <2>5 DEF NodeHeartbeat, NodeSilent, MgrHeartbeat, MgrSilent, NodeTick,
                NodePhoneConnect, NodePhoneDisconnect, NodePhoneCommand,
                NodeRestart, manager
  <2> QED BY <2>2, <2>3, <2>4, <2>5 DEF Next, heartbeatTask
<1> QED BY TypeCorrect, <1>1, PTL DEF Spec, OfflineKeepsTargets

=============================================================================
