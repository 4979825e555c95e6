---------------------------- MODULE MCNodeManaged ----------------------------
(***************************************************************************)
(* What the people around a fleet do to its nodes: the lists these work    *)
(* by, the network a node joins, the firmware it gets and the detections   *)
(* they collect from it (FleetLists, WifiStation, DeviceUpdate, DetSpool)  *)
(* side by side.  They share no variable, so one of them runs in each      *)
(* behaviour, and the others rest in one of their initial states.          *)
(***************************************************************************)
EXTENDS MCFleetLists, MCWifiStation, MCDeviceUpdate, MCDetSpool

ThreeKeys == {k1, k2, k3}

VARIABLE part
managedVars == <<part, listVars, staVars, updVars, vars>>

ManagedInit ==
  /\ part \in {"lists", "station", "update", "spool"}
  /\ StaInit /\ UpdInit /\ Init
  \* A node elsewhere has been sent the empty lists, so nothing repeats them.
  /\ \/ part = "lists" /\ ListInit
     \/ /\ part # "lists"
        /\ ListsEmpty /\ lastCount = 0 /\ lastWatch = [n \in Nodes |-> << >>]
  \* Networks, roles and images are chosen where there are any.
  /\ part # "station" => creds = NoNet
  /\ part # "update" => role = "node" /\ ImageIn(0) = CHOOSE i \in Own : TRUE

ManagedNext ==
  \/ part = "lists" /\ ListNext /\ UNCHANGED <<part, staVars, updVars, vars>>
  \/ part = "station" /\ StaNext /\ UNCHANGED <<part, listVars, updVars, vars>>
  \/ part = "update" /\ UpdNext /\ UNCHANGED <<part, listVars, staVars, vars>>
  \/ part = "spool" /\ Next /\ UNCHANGED <<part, listVars, staVars, updVars>>

\* Where a part rests none of its fair actions is enabled.
ManagedFairness == ListFairness /\ StaFairness /\ UpdFairness

ManagedSpec == ManagedInit /\ [][ManagedNext]_managedVars /\ ManagedFairness
=============================================================================
