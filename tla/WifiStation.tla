---------------------------- MODULE WifiStation ----------------------------
(***************************************************************************)
(* The WiFi station of a node (src/src/wifi_ota_handler.cpp): the phone    *)
(* turns it on and off and changes the network over BLE, the update task   *)
(* joins on its own and waits, an engine that scans takes the radio away,  *)
(* and the driver reports what happens to the link some time later.        *)
(*                                                                         *)
(* The driver is external.  link is its state; status is WiFi.status(),    *)
(* which changes with the event that is delivered, not with the link.      *)
(***************************************************************************)
EXTENDS Naturals, Sequences

CONSTANTS
  Nets,        \* networks the phone may name
  MeshRuns,    \* the mesh uses the radio as well
  Impatient,   \* the phone and the engines act while the update task joins
  MaxWrites,   \* bound: writes of the phone
  MaxScans,    \* bound: engines that scan
  MaxJoins,    \* bound: joins of the update task
  MaxDrops,    \* bound: times the network goes away
  MaxReports    \* bound: events not yet delivered

VARIABLES
  enabled, creds,   \* "sta_en" and "ssid" in NVS
  wanted,           \* g_staWanted
  connected,        \* g_staConnected
  ssid,             \* g_staSsid
  link,             \* what the driver does
  wifiOn,           \* WiFi.mode() is not WIFI_OFF
  status,           \* WiFi.status() = WL_CONNECTED
  events,           \* reported by the driver, not yet delivered
  joiner,           \* where the update task is in joinStation
  scanning,         \* an engine listens to WiFi
  writes, scans, joins, drops

staBounds == <<writes, scans, joins, drops>>
flags == <<wanted, connected, ssid>>
staVars == <<enabled, creds, flags, link, wifiOn, status, events, joiner, scanning, staBounds>>

NoNet == "none"

ASSUME NetsAssumption == NoNet \notin Nets
ASSUME RadioAssumption == MeshRuns \in BOOLEAN
ASSUME ReportsAssumption == MaxReports \in Nat

Down == [st |-> "down", net |-> NoNet]
Out  == [pc |-> "out", net |-> NoNet]

StaInit ==
  /\ enabled = FALSE /\ creds \in Nets \cup {NoNet}
  /\ wanted = FALSE /\ connected = FALSE /\ ssid = NoNet
  /\ link = Down /\ wifiOn = MeshRuns /\ status = FALSE /\ events = << >>
  /\ joiner = Out /\ scanning = FALSE
  /\ writes = 0 /\ scans = 0 /\ joins = 0 /\ drops = 0

-----------------------------------------------------------------------------
(* The driver.                                                             *)

Room == Len(events) < MaxReports

\* A link or an attempt that ends is reported.
Ended == IF link.st = "down" THEN events ELSE Append(events, "lost")

\* WiFi.begin(): an attempt for the same network goes on.
Begin(n) ==
  /\ wifiOn' = TRUE
  /\ IF link.net = n /\ link.st # "down"
     THEN UNCHANGED <<link, events>>
     ELSE link' = [st |-> "joining", net |-> n] /\ events' = Ended

\* WiFi.disconnect()
Leave == link' = [link EXCEPT !.st = "down"] /\ events' = Ended

Joined ==
  /\ link.st = "joining" /\ Room
  /\ link' = [link EXCEPT !.st = "up"] /\ events' = Append(events, "got")
  /\ UNCHANGED <<enabled, creds, flags, wifiOn, status, joiner, scanning, staBounds>>

NotJoined ==
  /\ link.st = "joining" /\ Room
  /\ Leave
  /\ UNCHANGED <<enabled, creds, flags, wifiOn, status, joiner, scanning, staBounds>>

Dropped ==
  /\ link.st = "up" /\ Room /\ drops < MaxDrops /\ drops' = drops + 1
  /\ Leave
  /\ UNCHANGED <<enabled, creds, flags, wifiOn, status, joiner, scanning, writes, scans, joins>>

\* Nothing comes between the look of the update task at the status and what it
\* stores, unless the instance says so.
Undisturbed == Impatient \/ joiner.pc # "seen"

\* Mutant: a station that is wanted is not taken up again.
ReconnectMutant == UNCHANGED link

\* WiFi.reconnect(); a radio that is off stays so.
Reconnect ==
  link' = IF wanted /\ wifiOn /\ link.st = "down" THEN [link EXCEPT !.st = "joining"] ELSE link

\* Mutant: the flag is left as it is.
LostMutant == Reconnect /\ UNCHANGED connected

Lost == Reconnect /\ connected' = FALSE

wifiEvent ==
  /\ events # << >> /\ Undisturbed
  /\ events' = Tail(events)
  /\ status' = (Head(events) = "got")
  /\ \/ Head(events) = "got" /\ connected' = TRUE /\ UNCHANGED link
     \/ Head(events) = "lost" /\ Lost
  /\ UNCHANGED <<enabled, creds, wanted, ssid, wifiOn, joiner, scanning, staBounds>>

-----------------------------------------------------------------------------
(* What the phone asks for.                                                *)

\* The network the station is on already.
Current(n) == connected /\ n = ssid

\* wifiOtaLoadCreds
Known(n) == n # NoNet

wifiStaConnectAsync(n) ==
  \/ /\ ~Known(n) \/ Current(n)
     /\ UNCHANGED <<flags, link, wifiOn, events>>
  \/ /\ Known(n) /\ ~Current(n)
     /\ wanted' = TRUE /\ ssid' = n
     /\ Begin(n)
     /\ UNCHANGED connected

\* An attempt that is not through yet is not broken off.
wifiStaDisconnect ==
  /\ wanted' = FALSE
  /\ \/ /\ connected \/ status
        /\ Leave /\ wifiOn' = FALSE
        /\ connected' = FALSE /\ ssid' = NoNet
     \/ /\ ~connected /\ ~status
        /\ UNCHANGED <<connected, ssid, link, wifiOn, events>>

Write ==
  /\ writes < MaxWrites /\ writes' = writes + 1 /\ Room
  /\ Impatient \/ joiner = Out
  /\ UNCHANGED <<status, joiner, scanning, scans, joins, drops>>

\* WifiConfigCallbacks: on, off and wipe, or a network; and the two commands
\* of SystemControlCallbacks.
TurnOn   == enabled' = TRUE /\ wifiStaConnectAsync(creds) /\ UNCHANGED creds
TurnOff  == enabled' = FALSE /\ wifiStaDisconnect /\ UNCHANGED creds
Wipe     == enabled' \in {enabled, FALSE} /\ creds' = NoNet /\ wifiStaDisconnect
Hang     == wifiStaDisconnect /\ UNCHANGED <<enabled, creds>>
SetNet(n) == creds' = n /\ enabled' = TRUE /\ wifiStaConnectAsync(n)

PhoneWrites ==
  /\ Write
  /\ TurnOn \/ TurnOff \/ Wipe \/ Hang \/ \E n \in Nets : SetNet(n)

-----------------------------------------------------------------------------
(* The update task.                                                        *)

\* wifiStaConnect up to the wait of joinStation.
joinStation ==
  /\ joins < MaxJoins /\ joins' = joins + 1 /\ Room
  /\ joiner = Out /\ ~(connected /\ status)
  /\ enabled /\ Known(creds) /\ ~Current(creds)
  /\ wanted' = TRUE /\ Begin(creds)
  /\ joiner' = [pc |-> "wait", net |-> creds]
  /\ UNCHANGED <<enabled, creds, connected, ssid, status, scanning, writes, scans, drops>>

JoinSees ==
  /\ joiner.pc = "wait" /\ status
  /\ joiner' = [joiner EXCEPT !.pc = "seen"]
  /\ UNCHANGED <<enabled, creds, flags, link, wifiOn, status, events, scanning, staBounds>>

JoinEnds ==
  /\ joiner.pc = "seen"
  /\ joiner' = Out /\ connected' = TRUE /\ ssid' = joiner.net
  /\ UNCHANGED <<enabled, creds, wanted, link, wifiOn, status, events, scanning, staBounds>>

\* The station stays wanted.
JoinTimeout ==
  /\ joiner.pc = "wait" /\ ~status
  /\ joiner' = Out
  /\ UNCHANGED <<enabled, creds, flags, link, wifiOn, status, events, scanning, staBounds>>

-----------------------------------------------------------------------------
(* Engines.                                                                *)

Released == wanted' = FALSE /\ connected' = FALSE /\ ssid' = NoNet

\* The first engine that registers for frames.
wifiStaReleaseForScan ==
  /\ ~scanning /\ scans < MaxScans /\ scans' = scans + 1 /\ Room
  /\ Impatient \/ joiner = Out
  /\ scanning' = TRUE /\ wifiOn' = TRUE
  /\ \/ /\ wanted \/ connected \/ status
        /\ Leave /\ Released
     \/ /\ ~wanted /\ ~connected /\ ~status
        /\ UNCHANGED <<link, events, flags>>
  /\ UNCHANGED <<enabled, creds, status, joiner, writes, joins, drops>>

\* The last engine stops: without a mesh the radio is off.
StopScan ==
  /\ scanning /\ Room
  /\ Impatient \/ joiner = Out
  /\ scanning' = FALSE /\ wifiOn' = MeshRuns
  /\ Leave
  /\ UNCHANGED <<enabled, creds, flags, status, joiner, staBounds>>

StaNext ==
  \/ Joined \/ NotJoined \/ Dropped \/ wifiEvent
  \/ PhoneWrites
  \/ joinStation \/ JoinSees \/ JoinEnds \/ JoinTimeout
  \/ wifiStaReleaseForScan \/ StopScan

\* Events are delivered, and a network that is tried again and again answers
\* at some point; the update task waits 20 s at most.
StaFairness ==
  /\ WF_staVars(wifiEvent) /\ SF_staVars(Joined)
  /\ WF_staVars(JoinSees) /\ WF_staVars(JoinEnds) /\ WF_staVars(JoinTimeout)

StaSpec == StaInit /\ [][StaNext]_staVars /\ StaFairness
-----------------------------------------------------------------------------
(* Properties.                                                             *)

Delivered == events = << >> /\ joiner = Out

\* Types; a station that is up has been told which network.
StaTypeOK ==
  /\ {enabled, wanted, connected, wifiOn, status, scanning} \subseteq BOOLEAN
  /\ {creds, ssid, link.net, joiner.net} \subseteq Nets \cup {NoNet}
  /\ link.st \in {"down", "joining", "up"} 
  /\ link.st # "down" => link.net # NoNet
  /\ Len(events) <= MaxReports + 1
  /\ joiner.pc \in {"out", "wait", "seen"}

\* What the phone is shown (g_staConnected) is the state of the link as soon
\* as all events are delivered, although four tasks write the flag.
FlagTellsLink == Delivered => connected = (link.st = "up") /\ status = connected

\* The station is on the network the phone named last, and shows no other name;
\* it shows none after a join that took longer than the update task waited.
OnAskedNet ==
  Delivered /\ wanted /\ link.st = "up" => link.net = creds /\ ssid \in {creds, NoNet}

\* What the phone is told of the station is true: the flag, the network, the
\* name.
StationTrue == StaTypeOK /\ FlagTellsLink /\ OnAskedNet

\* A station that is wanted comes up, or is not wanted any more: no path leaves
\* it down with nobody to take it up again (wifiEvent, joinStation's timeout).
WantedComesUp == wanted ~> (link.st = "up" \/ ~wanted)

\* A station that was turned off is not up.
OffIsOff == Delivered /\ ~enabled => link.st # "up"

\* Turning the station off leaves the mesh its radio.
MeshHasRadio == MeshRuns => wifiOn
=============================================================================
