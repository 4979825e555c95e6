------------------------------ MODULE DroneTable ------------------------------
(***************************************************************************)
(* The drones SKYSPY tracks (src/src/engines/skyspy.cpp): a fixed table    *)
(* filled by the BLE callback, which knows a drone by the UAV ID it sends, *)
(* and by the WiFi callback, which knows it by its address only, and swept *)
(* by the loop.  A BLE drone may change its address, and it may send its   *)
(* position in a message without its ID.                                   *)
(*                                                                         *)
(* Of what a message carries only two things are kept: the UAV ID, and     *)
(* whose position, pilot and so on the optional fields of a slot hold.     *)
(* Each callback is one step; pushDetection is where the model ends.       *)
(***************************************************************************)
EXTENDS Naturals, FiniteSets

CONSTANTS
  Uavs,        \* drones, by the UAV ID they send
  BleFrom,     \* the addresses each sends from over BLE: a function on Uavs
  WifiFrom,    \* and over WiFi
  BleSends,    \* what a BLE message may carry: sets of "id" and "data"
  Interleaved, \* a drone whose address is new may send data right after another
               \* one was named
  MaxUavs,     \* MAX_UAVS, the slots of the table
  RediscoverAfter, \* engineGetRediscoverMs(), in ticks
  Expiry,      \* the 30 s of the loop, in ticks
  MaxClock,    \* bound: ticks
  MaxRuns,     \* bound: starts of the engine
  MaxTaken     \* bound: slots taken over from a drone as none was free

VARIABLES
  scanning,    \* the engine runs
  drones,      \* drones[]
  lastBle,     \* g_lastBleDrone, 0 for none
  clock,       \* millis()
  runs,        \* starts so far
  taken,       \* slots taken over so far
  report,      \* the last event pushed
  reported,    \* history: when each drone was reported last
  lastNamed    \* history: the drone of the last BLE message with an ID

droneVars == <<scanning, drones, lastBle, clock, runs, taken, report, reported, lastNamed>>

NoUav == "none"
Slots == 1..MaxUavs
\* METHOD_ODID_NAN and METHOD_ODID_BEACON differ in how a frame is read only.
Methods == {"ble", "wifi"}
Addresses(u) == BleFrom[u] \cup WifiFrom[u]
DroneMacs == UNION {Addresses(u) : u \in Uavs}

ASSUME UavsAssumption == NoUav \notin Uavs
ASSUME DroneBounds ==
  /\ MaxUavs \in Nat \ {0} /\ RediscoverAfter \in Nat \ {0}
  /\ MaxClock \in Nat \ {0} /\ MaxRuns \in Nat /\ MaxTaken \in Nat
\* No two drones send from one address.
ASSUME AddressesAssumption ==
  \A u, v \in Uavs : u # v => Addresses(u) \cap Addresses(v) = {}

\* data: whose position, pilot and operator the slot holds.
Empty == [active |-> FALSE, mac |-> NoUav, uav |-> NoUav, data |-> NoUav,
          seen |-> 0, pushed |-> 0]
Nothing == [mac |-> NoUav, uav |-> NoUav, data |-> NoUav, how |-> "none"]

DroneInit ==
  /\ scanning = FALSE /\ drones = [i \in Slots |-> Empty] /\ lastBle = 0
  /\ clock = 1 /\ runs = 0 /\ taken = 0 /\ report = Nothing
  /\ reported = [u \in Uavs |-> 0] /\ lastNamed = NoUav

-----------------------------------------------------------------------------
(* Finding a slot.                                                         *)

First(S) == CHOOSE i \in S : \A j \in S : i <= j

ByMac(m) == {i \in Slots : drones[i].active /\ drones[i].mac = m}
ByUav(u) == {i \in Slots : drones[i].active /\ drones[i].uav = u}
Free     == {i \in Slots : ~drones[i].active}

\* The comment at the last line says "Overwrite oldest": it is slot 0.
findOrAllocDrone(m) ==
  IF ByMac(m) # {} THEN First(ByMac(m))
  ELSE IF Free # {} THEN First(Free)
  ELSE 1

Overwrites(m) == ByMac(m) = {} /\ Free = {}

Count(m) ==
  /\ Overwrites(m) => taken < MaxTaken
  /\ taken' = IF Overwrites(m) THEN taken + 1 ELSE taken

\* A free slot is cleared; one that is taken over keeps all it holds.
Claim(i, m) ==
  IF drones[i].active THEN drones[i]
  ELSE [Empty EXCEPT !.mac = m, !.active = TRUE]

\* applyOdidData: what the message carries replaces what the slot holds.
applyOdidData(d, u, parts) ==
  [d EXCEPT !.uav  = IF "id" \in parts THEN u ELSE @,
            !.data = IF "data" \in parts THEN u ELSE @,
            !.seen = clock]

\* A drone is due once per RediscoverAfter; 0 stands for never.
Due(d) == d.pushed = 0 \/ clock - d.pushed >= RediscoverAfter

Push(d, how) ==
  /\ report' = [mac |-> d.mac, uav |-> d.uav, data |-> d.data, how |-> how]
  /\ reported' = [reported EXCEPT ![d.uav] = clock]

\* Mutant: every message starts the interval again.
PushMutant(i, d, how) ==
  /\ drones' = [drones EXCEPT ![i] = [d EXCEPT !.pushed = clock]]
  /\ IF Due(d) THEN Push(d, how) ELSE UNCHANGED <<report, reported>>

pushDroneDetection(i, d, how) ==
  \/ /\ Due(d)
     /\ drones' = [drones EXCEPT ![i] = [d EXCEPT !.pushed = clock]]
     /\ Push(d, how)
  \/ /\ ~Due(d)
     /\ drones' = [drones EXCEPT ![i] = d]
     /\ UNCHANGED <<report, reported>>

-----------------------------------------------------------------------------
(* The callbacks.                                                          *)

\* A message with an ID: the drone is known by it, whatever its address.
BleNamed(u, m, parts) ==
  LET i == IF ByUav(u) # {} THEN First(ByUav(u)) ELSE findOrAllocDrone(m)
      d == IF ByUav(u) # {} THEN [drones[i] EXCEPT !.mac = m] ELSE Claim(i, m)
  IN  /\ pushDroneDetection(i, applyOdidData(d, u, parts), "ble")
      /\ IF ByUav(u) = {} THEN Count(m) ELSE UNCHANGED taken
      /\ lastBle' = i /\ lastNamed' = u

\* One without: the slot of its address, or the drone named last.
BleUnnamed(u, m, parts) ==
  LET i == IF ByMac(m) # {} THEN First(ByMac(m)) ELSE lastBle
  IN  /\ i # 0 /\ drones[i].active
      /\ Interleaved \/ ByMac(m) # {} \/ u = lastNamed
      /\ pushDroneDetection(i, applyOdidData(drones[i], u, parts), "ble")
      /\ UNCHANGED <<lastBle, taken, lastNamed>>

onBleResult(u, m, parts) ==
  /\ scanning /\ m \in BleFrom[u]
  /\ \/ "id" \in parts /\ BleNamed(u, m, parts)
     \/ "id" \notin parts /\ BleUnnamed(u, m, parts)
  /\ UNCHANGED <<scanning, clock, runs>>

\* wifiCallback: a frame without a plausible ID is left out at once.
onWifiFrame(u, m, parts) ==
  /\ scanning /\ m \in WifiFrom[u]
  /\ "id" \in parts
  /\ LET i == findOrAllocDrone(m)
     IN  pushDroneDetection(i, applyOdidData(Claim(i, m), u, parts), "wifi")
  /\ Count(m)
  /\ UNCHANGED <<scanning, lastBle, clock, runs, lastNamed>>

-----------------------------------------------------------------------------
(* The loop and the life of the engine.                                    *)

Stale(i) == drones[i].active /\ clock - drones[i].seen > Expiry

\* Mutant: the drone named last is not forgotten with its slot.
ExpireMutant ==
  /\ drones' = [i \in Slots |-> IF Stale(i) THEN [drones[i] EXCEPT !.active = FALSE]
                                            ELSE drones[i]]
  /\ lastBle' = lastBle

Expire ==
  /\ drones' = [i \in Slots |-> IF Stale(i) THEN [drones[i] EXCEPT !.active = FALSE]
                                            ELSE drones[i]]
  /\ lastBle' = IF lastBle # 0 /\ Stale(lastBle) THEN 0 ELSE lastBle

\* Every turn of the loop; time passes between turns.
skyspyLoop ==
  /\ scanning /\ \E i \in Slots : Stale(i)
  /\ Expire
  /\ UNCHANGED <<scanning, clock, runs, taken, report, reported, lastNamed>>

skyspyStart ==
  /\ ~scanning /\ runs < MaxRuns
  /\ scanning' = TRUE /\ runs' = runs + 1
  /\ UNCHANGED <<drones, lastBle, clock, taken, report, reported, lastNamed>>

\* The table stays as it is, and nobody sweeps it until the next start.
skyspyStop ==
  /\ scanning /\ runs < MaxRuns
  /\ scanning' = FALSE
  /\ UNCHANGED <<drones, lastBle, clock, runs, taken, report, reported, lastNamed>>

Pass ==
  /\ clock < MaxClock
  /\ clock' = clock + 1
  /\ UNCHANGED <<scanning, drones, lastBle, runs, taken, report, reported, lastNamed>>

DroneNext ==
  \/ \E u \in Uavs, m \in DroneMacs :
       \/ \E parts \in BleSends : onBleResult(u, m, parts)
       \/ \E parts \in {{"id"}, {"id", "data"}} : onWifiFrame(u, m, parts)
  \/ skyspyLoop \/ skyspyStart \/ skyspyStop \/ Pass

DroneSpec == DroneInit /\ [][DroneNext]_droneVars

-----------------------------------------------------------------------------
(* Properties.                                                             *)

\* Every slot has the type the code gives it, and a report is a slot's.
DroneTypeOK ==
  /\ scanning \in BOOLEAN /\ lastBle \in 0..MaxUavs
  /\ clock \in 1..MaxClock /\ runs \in 0..MaxRuns /\ taken \in 0..MaxTaken
  /\ drones \in [Slots -> [active : BOOLEAN, mac : DroneMacs \cup {NoUav},
                           uav : Uavs \cup {NoUav}, data : Uavs \cup {NoUav},
                           seen : 0..MaxClock, pushed : 0..MaxClock]]
  /\ report.how \in Methods \cup {"none"} /\ reported \in [Uavs -> 0..MaxClock]
  /\ lastNamed \in Uavs \cup {NoUav}
  /\ \A i \in Slots : drones[i].active => drones[i].uav # NoUav

\* A report gives the position and the pilot of the drone it names, from an
\* address that drone sends from: slots are handed on between drones and
\* drones found by three different keys (findOrAllocDrone,
\* findActiveDroneByUavId, findActiveDroneByMac).
ReportIsOwn ==
  report # Nothing =>
    /\ report.data \in {report.uav, NoUav}
    /\ report.mac \in Addresses(report.uav)

\* The slot a message without an ID falls back to (g_lastBleDrone) is in use
\* and holds the drone that was named last over BLE, although the loop and
\* the WiFi callback free and fill slots in between.
LastIsNamed ==
  lastBle # 0 => drones[lastBle].active /\ drones[lastBle].uav = lastNamed

\* A drone that is heard is reported: no message of it comes RediscoverAfter or
\* more after its last report without making one, however often its slot and
\* its address changed in between (lastPushed of each slot).
HeardIsReported ==
  \A i \in Slots :
    drones[i].active => drones[i].seen - reported[drones[i].uav] < RediscoverAfter

\* Every report is true of the drone it names, and the pointer to the slot of
\* the drone named last is too.
ReportsTrue == DroneTypeOK /\ ReportIsOwn /\ LastIsNamed

\* A drone that changes its BLE address stays one drone as long as it is
\* heard over BLE only: its slots are found by UAV ID.
OneSlotPerUav ==
  \A i, j \in Slots :
    drones[i].active /\ drones[j].active /\ drones[i].uav = drones[j].uav => i = j
=============================================================================
