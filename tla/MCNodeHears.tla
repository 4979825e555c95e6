----------------------------- MODULE MCNodeHears -----------------------------
(***************************************************************************)
(* What a node does with what it hears: PcapBuffers, DroneTable and        *)
(* Detections side by side.  They share no variable, so one of them runs   *)
(* in each behaviour, and the others rest in their initial states: every   *)
(* interleaving of two of them projects to one of each.                    *)
(***************************************************************************)
EXTENDS MCPcapBuffers, MCDroneTable, MCDetections

VARIABLE part
hearVars == <<part, vars, droneVars, detVars>>

HearInit ==
  /\ part \in {"capture", "drones", "detections"}
  /\ Init /\ DroneInit /\ DetInit
  \* The scene is chosen where there is one.
  /\ part # "detections" =>
       /\ scene = CHOOSE s \in Scenes : TRUE
       /\ ~wardriving

HearNext ==
  \/ part = "capture" /\ Next /\ UNCHANGED <<part, droneVars, detVars>>
  \/ part = "drones" /\ DroneNext /\ UNCHANGED <<part, vars, detVars>>
  \/ part = "detections" /\ DetNext /\ UNCHANGED <<part, vars, droneVars>>

\* Where the capture does not run nothing of it is enabled.
HearSpec == HearInit /\ [][HearNext]_hearVars /\ Fairness
=============================================================================
