------------------------------ MODULE MCDetSpool ------------------------------
(* Instances of DetSpool for TLC.                                          *)
EXTENDS DetSpool, TLC

CONSTANTS k1, k2, k3, k4

\* Two slots and four keys: refreshes, a full table and repeated evictions.
FourKeys == {k1, k2, k3, k4}
Symmetry == Permutations(FourKeys)

NoFaults   == {}
CrashOnly  == {"crash"}
OpenFails  == {"openfail"}
===============================================================================
