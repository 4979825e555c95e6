----------------------------- MODULE MCFleetControl -----------------------------
(* Instances of FleetControl for TLC.                                      *)
EXTENDS FleetControl

CONSTANTS w, s

BothEngines == {w, s}

NoFaults   == {}
DenyLoss   == {"denyloss"}
Restarts   == {"noderestart", "silence"}
GraceRace  == {"graceRace"}
AllFaults  == {"nodephone", "nodecommand", "noderestart", "silence"}
=================================================================================
