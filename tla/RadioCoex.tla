----------------------------- MODULE RadioCoex -----------------------------
(***************************************************************************)
(* How the scan engines of a node share its two radios                     *)
(* (src/src/radio_coex.cpp, src/src/ble_coex.cpp and the start, stop, loop *)
(* and config callbacks in src/src/engines).                               *)
(*                                                                         *)
(* An engine that runs registers a parser with the WiFi sniffer and a      *)
(* callback with the one BLE scan.  WARDRIVE is the host of DETECTOR,      *)
(* FLOCK_BLE and FLOCK_WIFI: while it runs they are taken off the radios   *)
(* and it feeds them.  engineMux makes enable, disable, disable-all and    *)
(* the loop exclusive; a config handler that stops and restarts its        *)
(* engine runs outside it, so the two halves are two steps here.           *)
(*                                                                         *)
(* The whole of the radio is one record, and a callback of an engine an    *)
(* operator on it, so that one callback may call another as the code does. *)
(***************************************************************************)
EXTENDS Naturals, FiniteSets, Sequences

CONSTANTS
  Engines,      \* the engines of this node
  MeshOn,       \* meshIsEnabled(): WiFi stays up when an engine stops
  Changes,      \* the engines whose radio choice may be configured
  WardriveMasks,\* the radios WARDRIVE may be configured to use
  MaxConfigured,\* bound: engines configured away from their default
  Remode,       \* a capture that runs may be configured to the other radio
  Serialised    \* TRUE: nothing comes between the halves of a config restart

Radios == {"wifi", "ble"}

EngineIds == {"DETECTOR", "FLOCK_BLE", "FLOCK_WIFI", "FOXHUNTER", "SKYSPY",
              "UNIPWN", "WARDRIVE", "PCAP"}
NoEngine  == "none"

ASSUME EnginesAssumption == Engines \subseteq EngineIds
ASSUME SwitchesAssumption == {MeshOn, Remode, Serialised} \subseteq BOOLEAN
ASSUME BoundAssumption == MaxConfigured \in Nat
ASSUME MasksAssumption ==
  Changes \subseteq EngineIds /\ WardriveMasks \subseteq (SUBSET Radios) \ {{}}

VARIABLES
  radio,        \* the registry's states and both radios, see Radio
  restarting    \* the engine a config handler has stopped, not yet restarted

vars == <<radio, restarting>>

Radio ==
  [state   : SUBSET Engines,            \* states[e] # ESTATE_DISABLED
   on      : SUBSET Engines,            \* the engine's own scanning flag
   wifi    : SUBSET Engines,            \* g_parsers of the WiFi sniffer
   ble     : SUBSET Engines,            \* g_cbs of the BLE scan
   promisc : BOOLEAN,                   \* promiscuous mode is on
   scan    : BOOLEAN,                   \* the BLE scan runs
   own     : SUBSET {"DETECTOR", "FOXHUNTER"},   \* their wifiActive flags
   mask    : [EngineIds -> SUBSET Radios],         \* the configured radios
   sig     : BOOLEAN,                   \* DETECTOR has a WiFi signature on
   wdScan  : BOOLEAN,                   \* pWardriveScan # nullptr
   elapsed : 0..2,                      \* since lastBleScan: 0 scan time left,
                                        \* 1 scan time over, 2 interval over
   pcapScan: BOOLEAN]                   \* pPcapScan # nullptr

\* The radios an engine starts with.
Default(e) ==
  CASE e \in {"FLOCK_BLE", "UNIPWN"}  -> {"ble"}
    [] e \in {"FLOCK_WIFI", "PCAP"}   -> {"wifi"}
    [] OTHER                          -> Radios

\* Callback cb of one engine after the other, in registry order.
ForEach(cb(_, _), s) ==
  LET t == cb(cb(cb(cb(s, "DETECTOR"), "FLOCK_BLE"), "FLOCK_WIFI"), "FOXHUNTER")
  IN  cb(cb(cb(cb(t, "SKYSPY"), "UNIPWN"), "WARDRIVE"), "PCAP")

Wants(s, e) ==
  s.mask[e] \ (IF e = "DETECTOR" /\ ~s.sig THEN {"wifi"} ELSE {})

Hosted == {"DETECTOR", "FLOCK_BLE", "FLOCK_WIFI"}
Hosting(s) == "WARDRIVE" \in s.state

-----------------------------------------------------------------------------
(* The two tables and what a change of them does to the radio.             *)

\* wifiCoexRegister: only the first parser switches promiscuous mode on.
wifiCoexRegister(s, e) ==
  LET after == s.wifi \cup {e}
  IN  [s EXCEPT !.wifi = after, !.promisc = @ \/ after = {e}]

wifiCoexUnregister(s, e) ==
  LET after == s.wifi \ {e}
  IN  [s EXCEPT !.wifi = after, !.promisc = @ /\ after # {}]

bleCoexRegister(s, e) == [s EXCEPT !.ble = @ \cup {e}]

bleCoexUnregister(s, e) ==
  LET after == s.ble \ {e}
  IN  [s EXCEPT !.ble = after, !.scan = @ /\ after # {}]

bleCoexEnsureScanning(s) == [s EXCEPT !.scan = @ \/ s.ble # {}]

\* WiFi.mode(WIFI_OFF) of a stopping engine; the mesh keeps WiFi up.
wifiOff(s) == [s EXCEPT !.promisc = @ /\ MeshOn]

Take(s, e, R) ==
  LET t == IF "ble" \in R THEN bleCoexRegister(s, e) ELSE s
  IN  IF "wifi" \in R THEN wifiCoexRegister(t, e) ELSE t

\* DETECTOR and FOXHUNTER remember that they took the WiFi radio themselves.
TakeOwn(s, e) ==
  LET t == Take(s, e, Wants(s, e))
  IN  IF "wifi" \in Wants(s, e) THEN [t EXCEPT !.own = @ \cup {e}] ELSE t

-----------------------------------------------------------------------------
(* What WARDRIVE does to the engines it hosts: suspend TRUE when it starts,*)
(* FALSE when it stops.                                                    *)

flockWifiHostSuspend(s, suspend) ==
  IF suspend THEN wifiCoexUnregister(s, "FLOCK_WIFI")
  ELSE IF "FLOCK_WIFI" \in s.on
       THEN Take(s, "FLOCK_WIFI", s.mask["FLOCK_WIFI"]) ELSE s

\* FLOCK_BLE comes back without a look at its radio gate.
flockBleHostSuspend(s, suspend) ==
  IF suspend THEN bleCoexUnregister(s, "FLOCK_BLE")
  ELSE IF "FLOCK_BLE" \in s.on THEN bleCoexRegister(s, "FLOCK_BLE") ELSE s

detectorHostSuspend(s, suspend) ==
  IF suspend THEN bleCoexUnregister(wifiCoexUnregister(s, "DETECTOR"), "DETECTOR")
  ELSE IF "DETECTOR" \in s.on THEN TakeOwn(s, "DETECTOR") ELSE s

Hosts(s, suspend) ==
  detectorHostSuspend(
    flockBleHostSuspend(flockWifiHostSuspend(s, suspend), suspend), suspend)

-----------------------------------------------------------------------------
(* Stopping an engine.                                                     *)

ownerStop(s, e) ==
  LET t == IF e \in s.own
           THEN wifiOff(wifiCoexUnregister([s EXCEPT !.own = @ \ {e}], e))
           ELSE s
  IN  bleCoexUnregister(t, e)

detectorStop(s)  == ownerStop(s, "DETECTOR")
foxhunterStop(s) == ownerStop(s, "FOXHUNTER")
flockBleStop(s)  == bleCoexUnregister(s, "FLOCK_BLE")
unipwnStop(s)    == bleCoexUnregister(s, "UNIPWN")

\* A hosted FLOCK_WIFI has no parser of its own to take back.
flockWifiStop(s) ==
  IF Hosting(s) THEN s ELSE wifiOff(wifiCoexUnregister(s, "FLOCK_WIFI"))

\* skyspyStop stops the shared scan, whoever else needs it.
skyspyStop(s) ==
  wifiCoexUnregister([bleCoexUnregister(s, "SKYSPY") EXCEPT !.scan = FALSE],
                     "SKYSPY")

wardriveStop(s) ==
  LET a == IF s.wdScan
           THEN [bleCoexUnregister(s, "WARDRIVE")
                 EXCEPT !.scan = FALSE, !.wdScan = FALSE, !.elapsed = 2]
           ELSE s
      b == wifiOff(wifiCoexUnregister(a, "WARDRIVE"))
  IN  Hosts([b EXCEPT !.state = @ \ {"WARDRIVE"}], FALSE)

\* pcapStop leaves the radio of the current mode, whatever it started on.
pcapStop(s) ==
  LET a == IF s.mask["PCAP"] = {"wifi"}
           THEN wifiCoexUnregister(s, "PCAP")
           ELSE [bleCoexUnregister(s, "PCAP")
                 EXCEPT !.scan = @ /\ ~s.pcapScan, !.pcapScan = FALSE]
  IN  [(IF "PCAP" \in s.on THEN a ELSE s) EXCEPT !.state = @ \ {"PCAP"}]

Stop(s, e) ==
  LET t == CASE e = "DETECTOR"   -> detectorStop(s)
             [] e = "FLOCK_BLE"  -> flockBleStop(s)
             [] e = "FLOCK_WIFI" -> flockWifiStop(s)
             [] e = "FOXHUNTER"  -> foxhunterStop(s)
             [] e = "SKYSPY"     -> skyspyStop(s)
             [] e = "UNIPWN"     -> unipwnStop(s)
             [] e = "WARDRIVE"   -> wardriveStop(s)
             [] e = "PCAP"       -> pcapStop(s)
  IN  [t EXCEPT !.on = @ \ {e}]

\* engineDisableImpl
engineDisable(s, e) ==
  IF e \in s.state THEN [Stop(s, e) EXCEPT !.state = @ \ {e}] ELSE s

-----------------------------------------------------------------------------
(* Starting an engine.                                                     *)

\* The engines below are passive while WARDRIVE feeds them.
detectorStart(s)  == IF Hosting(s) THEN s ELSE TakeOwn(s, "DETECTOR")
flockBleStart(s)  ==
  IF Hosting(s) THEN s ELSE Take(s, "FLOCK_BLE", s.mask["FLOCK_BLE"])
flockWifiStart(s) ==
  IF Hosting(s) THEN s ELSE Take(s, "FLOCK_WIFI", s.mask["FLOCK_WIFI"])

\* Mutant: the engines FOXHUNTER displaces are only marked as off.
FoxhunterMutant(s) ==
  IF Hosting(s) THEN s
  ELSE TakeOwn([s EXCEPT !.state = @ \ {"DETECTOR", "FLOCK_WIFI", "SKYSPY"}], "FOXHUNTER")

\* FOXHUNTER switches the engines off that would hop its radio away.
foxhunterStart(s) ==
  IF Hosting(s) THEN s
  ELSE LET rid == engineDisable(engineDisable(engineDisable(s, "DETECTOR"),
                                              "FLOCK_WIFI"), "SKYSPY")
       IN  TakeOwn(rid, "FOXHUNTER")

skyspyStart(s) == Take(s, "SKYSPY", s.mask["SKYSPY"])
unipwnStart(s) == bleCoexRegister(s, "UNIPWN")

wardriveStart(s) ==
  LET t == Take(s, "WARDRIVE", s.mask["WARDRIVE"])
  IN  Hosts([t EXCEPT !.wdScan  = @ \/ "ble" \in s.mask["WARDRIVE"],
                      !.elapsed = 2,
                      !.state   = @ \cup {"WARDRIVE"}], TRUE)

pcapStart(s) ==
  LET ble == s.mask["PCAP"] = {"ble"}
      t   == Take(s, "PCAP", s.mask["PCAP"])
  IN  IF "PCAP" \in s.on THEN s
      ELSE [t EXCEPT !.scan = @ \/ ble, !.pcapScan = @ \/ ble,
                     !.state = @ \cup {"PCAP"}]

Start(s, e) ==
  LET t == CASE e = "DETECTOR"   -> detectorStart(s)
             [] e = "FLOCK_BLE"  -> flockBleStart(s)
             [] e = "FLOCK_WIFI" -> flockWifiStart(s)
             [] e = "FOXHUNTER"  -> foxhunterStart(s)
             [] e = "SKYSPY"     -> skyspyStart(s)
             [] e = "UNIPWN"     -> unipwnStart(s)
             [] e = "WARDRIVE"   -> wardriveStart(s)
             [] e = "PCAP"       -> pcapStart(s)
  IN  [t EXCEPT !.on = @ \cup {e}]

\* engineEnableImpl refuses an engine that would disturb a capture; SKYSPY
\* does not count as a BLE engine there.
Refused(s, e) ==
  /\ e # "PCAP" /\ "PCAP" \in s.state
  /\ "PCAP" \in s.on /\ s.mask["PCAP"] = {"ble"} => e \notin {"SKYSPY", "WARDRIVE", "FLOCK_WIFI"}

engineEnable(s, e) ==
  IF e \in s.state \/ Refused(s, e) THEN s
  ELSE [Start(s, e) EXCEPT !.state = @ \cup {e}]

\* The restart of an engine that uses WiFi, if it runs when its turn comes.
Bounce(s, e) == IF e \in s.state THEN engineEnable(engineDisable(s, e), e) ELSE s

-----------------------------------------------------------------------------
Init ==
  /\ radio = [state |-> {}, on |-> {}, wifi |-> {}, ble |-> {},
              promisc |-> FALSE, scan |-> FALSE, own |-> {},
              mask |-> [e \in EngineIds |-> Default(e)], sig |-> TRUE,
              wdScan |-> FALSE, elapsed |-> 2, pcapScan |-> FALSE]
  /\ restarting = NoEngine

Idle == Serialised => restarting = NoEngine

Enable(e) ==
  /\ Idle /\ e \notin radio.state /\ ~Refused(radio, e)
  /\ radio' = engineEnable(radio, e)
  /\ UNCHANGED restarting

Disable(e) ==
  /\ Idle /\ e \in radio.state
  /\ radio' = engineDisable(radio, e)
  /\ UNCHANGED restarting

\* Everything stops, in registry order, and then any scan left over.
engineDisableAll ==
  /\ Idle /\ radio.state # {}
  /\ radio' = [ForEach(engineDisable, radio) EXCEPT !.state = {}, !.scan = FALSE]
  /\ UNCHANGED restarting

engineApplyWifiBand ==
  /\ Idle
  /\ LET t == Bounce(Bounce(Bounce(radio, "WARDRIVE"), "SKYSPY"), "PCAP")
     IN  radio' = Bounce(Bounce(Bounce(t, "DETECTOR"), "FLOCK_WIFI"), "FOXHUNTER")
  /\ UNCHANGED restarting

WithinBound(s) ==
  Cardinality({e \in EngineIds : s.mask[e] # Default(e)}) <= MaxConfigured

\* A choice of other radios for engine e: one that runs is stopped and, in a
\* second step, started again.
Choose(e, m) ==
  LET s == [radio EXCEPT !.mask[e] = m]
  IN  /\ Idle /\ restarting = NoEngine
      /\ e \in Changes /\ m # radio.mask[e]
      /\ WithinBound(s)
      /\ IF e \in radio.on
         THEN radio' = Stop(s, e) /\ restarting' = e
         ELSE radio' = s /\ UNCHANGED restarting

detectorConfig  == \E m \in (SUBSET Radios) \ {{}} : Choose("DETECTOR", m)
skyspyConfig    == \E m \in (SUBSET Radios) \ {{}} : Choose("SKYSPY", m)
flockBleConfig  == \E m \in {{}, {"ble"}}         : Choose("FLOCK_BLE", m)
flockWifiConfig == \E m \in {{}, {"wifi"}}        : Choose("FLOCK_WIFI", m)
wardriveConfig  == \E m \in WardriveMasks         : Choose("WARDRIVE", m)

\* pcapConfig only notes the mode, also while a capture runs.
pcapConfig ==
  LET s == [radio EXCEPT !.mask["PCAP"] = Radios \ @]
  IN  /\ Idle /\ "PCAP" \in Changes /\ WithinBound(s)
      /\ "PCAP" \in radio.on => Remode
      /\ radio' = s
      /\ UNCHANGED restarting

\* A hosted DETECTOR is not restarted.
detectorSetSigMask ==
  LET s == [radio EXCEPT !.sig = ~@]
  IN  /\ Idle /\ restarting = NoEngine /\ "DETECTOR" \in Changes
      /\ IF "DETECTOR" \in radio.on /\ ~Hosting(radio)
         THEN radio' = Stop(s, "DETECTOR") /\ restarting' = "DETECTOR"
         ELSE radio' = s /\ UNCHANGED restarting

Restart ==
  /\ restarting # NoEngine
  /\ radio' = Start(radio, restarting)
  /\ restarting' = NoEngine

\* Mutant: the scan is left to FOXHUNTER.
ScanLoopMutant(s, e) ==
  IF "ble" \in s.mask[e] /\ "FOXHUNTER" \in s.on THEN bleCoexEnsureScanning(s) ELSE s

\* Under WARDRIVE the engines leave the scan to its duty cycle.
scanLoop(s, e) ==
  IF "ble" \in s.mask[e] /\ ~Hosting(s) THEN bleCoexEnsureScanning(s) ELSE s

\* The scan is started when the interval and stopped when the duration is
\* over; an interval counts only from a start that this function made.
wardriveLoop(s) ==
  IF ~s.wdScan \/ "ble" \notin s.mask["WARDRIVE"] THEN s
  ELSE IF s.elapsed = 2 /\ ~s.scan THEN [s EXCEPT !.scan = TRUE, !.elapsed = 0]
  ELSE IF s.elapsed > 0 THEN [s EXCEPT !.scan = FALSE] ELSE s

detectorLoop(s) == scanLoop(s, "DETECTOR")
flockBleLoop(s) == scanLoop(s, "FLOCK_BLE")
skyspyLoop(s)   == scanLoop(s, "SKYSPY")
unipwnLoop(s)   == scanLoop(s, "UNIPWN")

\* FOXHUNTER ensures the scan also beside WARDRIVE.
foxhunterLoop(s) == bleCoexEnsureScanning(s)

Loop(s, e) ==
  CASE e = "DETECTOR"  -> detectorLoop(s)
    [] e = "FLOCK_BLE" -> flockBleLoop(s)
    [] e = "FOXHUNTER" -> foxhunterLoop(s)
    [] e = "SKYSPY"    -> skyspyLoop(s)
    [] e = "UNIPWN"    -> unipwnLoop(s)
    [] e = "WARDRIVE"  -> wardriveLoop(s)
    [] OTHER           -> s

\* An engine's turn in the loop, in which none starts or stops.
Turn(s, e) == IF e \in radio.state \cap radio.on THEN Loop(s, e) ELSE s

engineLoopAll ==
  /\ radio' = ForEach(Turn, radio)
  /\ radio' # radio
  /\ UNCHANGED restarting

\* The times of WARDRIVE's duty cycle go by.
Tick ==
  /\ radio.wdScan /\ radio.elapsed < 2
  /\ radio' = [radio EXCEPT !.elapsed = @ + 1]
  /\ UNCHANGED restarting

\* A phone connects: the scan stops to free the radio for it.
onConnect ==
  /\ radio' = [radio EXCEPT !.scan = FALSE]
  /\ UNCHANGED restarting

Next ==
  \/ \E e \in Engines : Enable(e) \/ Disable(e)
  \/ detectorConfig \/ skyspyConfig \/ flockBleConfig \/ flockWifiConfig
  \/ wardriveConfig \/ pcapConfig \/ detectorSetSigMask \/ Restart
  \/ engineDisableAll \/ engineApplyWifiBand
  \/ engineLoopAll \/ Tick \/ onConnect

\* The loop task keeps turning and a config handler returns.
Fairness == WF_vars(Restart) /\ WF_vars(engineLoopAll) /\ WF_vars(Tick)

Spec == Init /\ [][Next]_vars /\ Fairness
-----------------------------------------------------------------------------
(* Who hops the WiFi channel.                                              *)

\* wifiCoexShouldHop: the first engine of this list that runs, whether or not
\* it has a WiFi channel to hop; any engine if none of them runs.
wifiCoexShouldHop(e) ==
  LET runs == SelectSeq(<<"FOXHUNTER", "WARDRIVE", "PCAP", "DETECTOR", "FLOCK_WIFI">>,
                        LAMBDA i : i \in radio.state)
  IN  runs = <<>> \/ e = Head(runs)

\* The engines whose loop changes the channel when it is their turn to.
Hoppers ==
  {e \in radio.state \cap radio.on :
     CASE e = "DETECTOR"   -> e \in radio.own /\ ~Hosting(radio)
       [] e = "FLOCK_WIFI" -> "wifi" \in radio.mask[e] /\ ~Hosting(radio)
       [] e = "FOXHUNTER"  -> e \in radio.own
       [] e \in {"SKYSPY", "WARDRIVE", "PCAP"} -> "wifi" \in radio.mask[e]
       [] OTHER            -> FALSE}

-----------------------------------------------------------------------------
(* Properties.                                                             *)

\* The registry's states, the radio record and the pending restart keep
\* their types.
TypeOK == radio \in Radio /\ restarting \in Engines \cup {NoEngine}

Settled == restarting = NoEngine

\* The sniffer is on exactly while an engine has a parser registered: an
\* engine that stops never takes the WiFi radio from one that still runs.
SnifferListens == radio.promisc <=> radio.wifi # {}

\* Nothing that was stopped still hears: only engines that run are in the
\* tables, and the registry agrees with the engines about which ones run.
NoGhosts == Settled =>
  /\ radio.on = radio.state
  /\ radio.wifi \cup radio.ble \subseteq radio.on

\* No advertisement or frame is counted twice: an engine that WARDRIVE feeds
\* has no callback of its own, in whatever order the two were started,
\* configured or restarted.
HostedEnginesStayOff ==
  Hosting(radio) => Hosted \cap (radio.wifi \cup radio.ble) = {}

\* A radio engine e was told to use, or is fed from by WARDRIVE.
Hears(e, r) ==
  \/ e \in (IF r = "wifi" THEN radio.wifi ELSE radio.ble)
  \/ /\ Hosting(radio) /\ e \in Hosted \cup {"FOXHUNTER"}
     /\ r \in radio.mask["WARDRIVE"]

\* The gaps the code leaves: a hosted engine hears only what WARDRIVE is told
\* to hear, and FOXHUNTER started under WARDRIVE has no radio of its own, also
\* after WARDRIVE has stopped.
Gap(e, r) ==
  \/ e = "FOXHUNTER" /\ e \notin radio.own
  \/ e \in Hosted /\ Hosting(radio) /\ r \notin radio.mask["WARDRIVE"]

\* Apart from these gaps every engine that runs hears on all the radios
\* configured for it, after any sequence of starts, stops and configurations.
EveryEngineHears == Settled =>
  \A e \in radio.on : \A r \in Wants(radio, e) : Hears(e, r) \/ Gap(e, r)

\* Every hosted engine hears on all its radios (false: the second gap).
HostedHear == Settled =>
  \A e \in radio.on \cap Hosted : \A r \in Wants(radio, e) : Hears(e, r)

\* FOXHUNTER hears on both radios (false: it is not among the engines that take
\* their radios back when WARDRIVE stops).
FoxhunterHears == Settled /\ "FOXHUNTER" \in radio.on =>
  \A r \in Radios : Hears("FOXHUNTER", r)

\* An engine uses no radio it was told to leave alone (FLOCK_BLE apart).
UsesChosenRadios == Settled =>
  /\ \A e \in radio.wifi : "wifi" \in Wants(radio, e)
  /\ \A e \in radio.ble \ {"FLOCK_BLE"} : "ble" \in Wants(radio, e)

\* The radios follow the engines after any sequence of starts, stops and
\* configurations: the sniffer is on for the engines that need it, nothing
\* stopped hears, nothing is heard twice, everybody hears on the radios
\* configured for it and on no other.
RadiosFollowEngines ==
  /\ TypeOK /\ SnifferListens /\ NoGhosts
  /\ HostedEnginesStayOff /\ EveryEngineHears /\ UsesChosenRadios

\* flock_ble.cpp:143 "radio-gated off": with its gate closed FLOCK_BLE has no
\* callback; it gets one when WARDRIVE stops.
FlockGateHolds == Settled /\ "FLOCK_BLE" \in radio.ble => radio.mask["FLOCK_BLE"] # {}

ScanAwaited ==
  /\ Hosting(radio) => "FOXHUNTER" \notin radio.on /\ radio.wdScan
  /\ \E e \in (radio.ble \cap radio.on) \ {"PCAP"} : "ble" \in Wants(radio, e)

\* As long as an engine other than a capture waits for advertisements the scan
\* comes back after a phone's connection, another engine's stop or a pause of
\* the duty cycle, unless WARDRIVE runs without BLE or beside FOXHUNTER.
ScanComesBack == ScanAwaited ~> (~ScanAwaited \/ radio.scan)

\* The scan also outlives a turn of the loop when FOXHUNTER and WARDRIVE run
\* together: it does not, since each turn of the loop starts and stops it.
ScanRunsUnderBoth ==
  LET both == "WARDRIVE" \in radio.ble /\ "FOXHUNTER" \in radio.on
  IN  both ~> (~both \/ radio.scan)

\* README.md: "wildcard probe per hop".  When FLOCK_WIFI has the sniffer some
\* engine changes the channel: not so beside a DETECTOR that has no WiFi
\* signature, which keeps the turn without a channel to hop.
SomeoneHops == Settled /\ "FLOCK_WIFI" \in radio.wifi =>
  \E e \in Hoppers : wifiCoexShouldHop(e)
============================================================================
