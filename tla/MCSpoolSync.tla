------------------------------ MODULE MCSpoolSync ------------------------------
(* Instances of SpoolSync for TLC.                                         *)
EXTENDS SpoolSync

NoFaults   == {}
MidImport  == {"midimport"}
LiveEvents == {"live"}
DbFailure  == {"dbfail"}
================================================================================
