----------------------------- MODULE MCFleetLists -----------------------------
(* Instances of FleetLists for TLC.                                        *)
EXTENDS FleetLists
ShortIgnored == {{}, {"i"}, {"j"}}
AnyWatched == {<< >>, <<"a">>, <<"b">>, <<"a", "b">>}
AtNodes    == {"ignore"}
AtNodesToo == {"ignore", "watch"}
=============================================================================
