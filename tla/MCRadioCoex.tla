---------------------------- MODULE MCRadioCoex ----------------------------
(* Instances of RadioCoex for TLC.                                         *)
EXTENDS RadioCoex

BothRadios == {Radios}
WithOrWithoutBle == {Radios, {"wifi"}}
AnyRadios  == (SUBSET Radios) \ {{}}
=============================================================================
