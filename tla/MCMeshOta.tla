------------------------------- MODULE MCMeshOta -------------------------------
(* Instances of MeshOta for TLC.                                           *)
EXTENDS MeshOta, TLC

CONSTANTS n1, n2

OneNode  == {n1}
TwoNodes == {n1, n2}
Symmetry == Permutations(TwoNodes)

NoFaults    == {}
RelayTimeout == {"timeout"}
EveryFault == FaultNames
================================================================================
