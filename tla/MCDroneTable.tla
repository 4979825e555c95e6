---------------------------- MODULE MCDroneTable ----------------------------
(* Instances of DroneTable for TLC.                                        *)
EXTENDS DroneTable, TLC
CONSTANTS u1, u2, m1, m2, m3

TwoUavs == {u1, u2}
\* u1 changes its address, u2 keeps it.
Changing == (u1 :> {m1, m2}) @@ (u2 :> {m3})
Fixed == (u1 :> {m1}) @@ (u2 :> {m3})

AnyParts == {{"id"}, {"id", "data"}, {"data"}}
=============================================================================
