--------------------------- MODULE MCPcapBuffers ---------------------------
(* Instances of PcapBuffers for TLC.                                       *)
EXTENDS PcapBuffers

NoMemory == {"alloc", "task"}
Slow     == {"slow"}
Impatient == {"timeout"}
=============================================================================
