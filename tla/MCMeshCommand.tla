----------------------------- MODULE MCMeshCommand -----------------------------
(* Instances of MeshCommand for TLC.                                       *)
EXTENDS MeshCommand

CONSTANTS n1, n2, gatt, heartbeat

TwoNodes   == {n1, n2}
OneCaller  == {gatt}
TwoCallers == {gatt, heartbeat}

OneThree == {1, 3}
NoFaults    == {}
NoSwitch == {}
Overrun   == {"overrun"}
QuickRestart == {"quick"}
UsualFaults == {"restart"}
================================================================================
