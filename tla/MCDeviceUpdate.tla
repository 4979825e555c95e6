--------------------------- MODULE MCDeviceUpdate ---------------------------
(* Instances of DeviceUpdate for TLC.                                      *)
EXTENDS DeviceUpdate
OwnImages   == {"v1", "v2"}
NodeImages  == {"n1"}
=============================================================================
