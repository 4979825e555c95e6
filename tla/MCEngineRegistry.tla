------------------------- MODULE MCEngineRegistry -------------------------
(* Instances of EngineRegistry for TLC.                                    *)
EXTENDS EngineRegistry

\* A BLE scanner, a WiFi sniffer, the wardriver and PCAP: a BLE capture
\* pauses the first only, a WiFi capture all three.
ScanEngines == {FLOCK_BLE, FLOCK_WIFI, WARDRIVE, PCAP}

\* The detector triggers captures on either radio and is what the foxhunter
\* displaces.
FoxEngines == {DETECTOR, FOXHUNTER, PCAP}

TwoEngines == {DETECTOR, WARDRIVE, PCAP}

\* What the manager sends a node beside a hopper: nothing denied, or the
\* hopping engines.
HopperMasks == {{}, {FLOCK_WIFI, WARDRIVE}}
OneMask     == {{}, {DETECTOR}}
NoMasks     == {}

AllEvents   == EventNames
AppCommands == {"enable", "disable", "disableAll", "deny", "state", "autopcap"}
BandCommands == {"enable", "band"}
FewCommands == {"enable", "disable", "disableAll"}
Switches    == {"enable", "disable"}
============================================================================
