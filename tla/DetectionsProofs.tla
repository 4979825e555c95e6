---------------------------- MODULE DetectionsProofs ----------------------------
(***************************************************************************)
(* What a node makes of what it hears, proved for all drones, devices,     *)
(* sizes of the tables and rings and for all lengths of the cooldowns: the *)
(* table of SKYSPY, and the way of a detection from the callbacks to the   *)
(* phone.                                                                  *)
(***************************************************************************)
EXTENDS Detections, DroneTable, WellFoundedInduction, FiniteSetTheorems, TLAPS

-----------------------------------------------------------------------------
(* The drones of SKYSPY.                                                   *)

DroneTypes ==
  /\ scanning \in BOOLEAN /\ lastBle \in 0..MaxUavs
  /\ clock \in 1..MaxClock /\ runs \in 0..MaxRuns /\ taken \in 0..MaxTaken
  /\ drones \in [Slots -> [active : BOOLEAN, mac : DroneMacs \cup {NoUav},
                           uav : Uavs \cup {NoUav}, data : Uavs \cup {NoUav},
                           seen : 0..MaxClock, pushed : 0..MaxClock]]
  /\ report.how \in Methods \cup {"none"} /\ reported \in [Uavs -> 0..MaxClock]
  /\ lastNamed \in Uavs \cup {NoUav}

\* A slot in use belongs to a drone, from which its address comes, and has been
\* pushed no later than that drone was reported.
SlotsOwned ==
  \A i \in Slots : drones[i].active =>
    /\ drones[i].uav \in Uavs /\ drones[i].mac \in Addresses(drones[i].uav)
    /\ drones[i].pushed <= reported[drones[i].uav]

\* Nothing is later than the clock.
Past == \A u \in Uavs : reported[u] <= clock

DroneInv == DroneTypes /\ SlotsOwned /\ Past /\ HeardIsReported

\* What a slot holds of a position is its drone's.
DataIsOwn == \A i \in Slots : drones[i].active => drones[i].data \in {drones[i].uav, NoUav}

OwnInv == DataIsOwn /\ ReportIsOwn /\ LastIsNamed

DroneRecords == [active : BOOLEAN, mac : DroneMacs \cup {NoUav},
                 uav : Uavs \cup {NoUav}, data : Uavs \cup {NoUav},
                 seen : 0..MaxClock, pushed : 0..MaxClock]

\* The first of a set of numbers is the least of them.
LEMMA FirstIsOne ==
  ASSUME NEW S, S \subseteq Nat, S # {}
  PROVE  First(S) \in S /\ \A n \in S : First(S) <= n
  <1> DEFINE R == StrictSubsetOrdering(Nat)
             Below == {0..n-1 : n \in S}
  <1>1. Below \subseteq FiniteSubsetsOf(Nat) /\ Below # {}
    <2>1. \A n \in S : IsFiniteSet(0..n-1) /\ 0..n-1 \subseteq Nat
      BY FS_Interval
    <2> QED  BY <2>1 DEF FiniteSubsetsOf
  <1>2. IsWellFoundedOn(R, FiniteSubsetsOf(Nat))
    BY FS_StrictSubsetOrderingWellFounded
  <1> HIDE DEF R, Below
  <1>3. PICK b \in Below : \A c \in Below : <<c, b>> \notin R
    BY <1>1, <1>2, WFMin
  <1>4. PICK m \in S : b = 0..m-1
    BY <1>3 DEF Below
  <1>5. ASSUME NEW j \in S, ~(m <= j) PROVE FALSE
    <2>1. 0..j-1 \in Below
      BY DEF Below
    <2>2. 0..j-1 \subseteq b /\ 0..j-1 # b /\ b \subseteq Nat
      <3>1. j \in Nat /\ m \in Nat /\ j < m
        BY <1>5
      <3>2. j \in b /\ j \notin 0..j-1
        BY <1>4, <3>1
      <3> QED  BY <1>4, <3>1, <3>2
    <2> QED  BY <1>3, <2>1, <2>2 DEF R, StrictSubsetOrdering
  <1> QED  BY <1>4, <1>5 DEF First

LEMMA DroneInitInv == DroneInit => DroneInv /\ OwnInv
  <1> SUFFICES ASSUME DroneInit PROVE DroneInv /\ OwnInv
    OBVIOUS
  <1>1. DroneTypes
    <2>1. Empty \in DroneRecords
      BY DroneBounds DEF Empty, DroneRecords
    <2>2. drones \in [Slots -> DroneRecords]
      BY <2>1 DEF DroneInit
    <2>3. reported \in [Uavs -> 0..MaxClock]
      BY DroneBounds DEF DroneInit
    <2>4. /\ scanning \in BOOLEAN /\ lastBle \in 0..MaxUavs
          /\ clock \in 1..MaxClock /\ runs \in 0..MaxRuns /\ taken \in 0..MaxTaken
      <3>1. 0 \in 0..MaxUavs /\ 1 \in 1..MaxClock /\ 0 \in 0..MaxRuns /\ 0 \in 0..MaxTaken
        BY DroneBounds
      <3> QED  BY <3>1, Zenon DEF DroneInit
    <2>5. report.how \in Methods \cup {"none"} /\ lastNamed \in Uavs \cup {NoUav}
      BY DEF DroneInit, Nothing
    <2> QED  BY <2>2, <2>3, <2>4, <2>5 DEF DroneTypes, DroneRecords
  <1>2. \A i \in Slots : ~drones[i].active
    BY DEF DroneInit, Empty
  <1>3. SlotsOwned /\ HeardIsReported /\ DataIsOwn
    BY <1>2 DEF SlotsOwned, HeardIsReported, DataIsOwn
  <1>4. Past /\ ReportIsOwn /\ LastIsNamed
    BY DEF DroneInit, Past, ReportIsOwn, LastIsNamed
  <1> QED  BY <1>1, <1>3, <1>4 DEF DroneInv, OwnInv

\* The sets a slot is looked for in.
LEMMA SlotSets ==
  ASSUME NEW m, NEW u
  PROVE  /\ ByMac(m) \subseteq Slots /\ ByUav(u) \subseteq Slots /\ Free \subseteq Slots
         /\ Slots \subseteq Nat
  BY DroneBounds DEF ByMac, ByUav, Free, Slots

\* Where a message goes: to a slot of the drone itself, or to a free one.
LEMMA SlotFound ==
  ASSUME DroneInv, NEW u \in Uavs, NEW m \in Addresses(u), ~Overwrites(m)
  PROVE  /\ findOrAllocDrone(m) \in Slots
         /\ \/ ~drones[findOrAllocDrone(m)].active
            \/ /\ drones[findOrAllocDrone(m)].active
               /\ drones[findOrAllocDrone(m)].mac = m /\ drones[findOrAllocDrone(m)].uav = u
  <1>1. CASE ByMac(m) # {}
    <2>1. findOrAllocDrone(m) \in ByMac(m)
      BY <1>1, SlotSets, FirstIsOne DEF findOrAllocDrone
    <2>2. PICK i \in Slots : i = findOrAllocDrone(m) /\ drones[i].active /\ drones[i].mac = m
      BY <2>1 DEF ByMac
    <2>3. drones[i].uav \in Uavs /\ m \in Addresses(drones[i].uav)
      BY <2>2 DEF DroneInv, SlotsOwned
    <2>4. drones[i].uav = u
      BY <2>3, AddressesAssumption
    <2> QED  BY <2>2, <2>4
  <1>2. CASE ByMac(m) = {} /\ Free # {}
    <2>1. findOrAllocDrone(m) \in Free
      BY <1>2, SlotSets, FirstIsOne DEF findOrAllocDrone
    <2> QED  BY <2>1 DEF Free
  <1> QED  BY <1>1, <1>2 DEF Overwrites

\* What a slot holds after a message, and what the phone is told then.
LEMMA PushKeeps ==
  ASSUME DroneInv, NEW i \in Slots, NEW d \in DroneRecords, NEW how \in Methods,
         d.active, d.uav \in Uavs, d.mac \in Addresses(d.uav), d.seen = clock,
         d.pushed <= reported[d.uav],
         pushDroneDetection(i, d, how),
         UNCHANGED <<scanning, clock, runs>>, taken' \in 0..MaxTaken,
         lastBle' \in 0..MaxUavs, lastNamed' \in Uavs \cup {NoUav}
  PROVE  /\ DroneInv'
         /\ \A j \in Slots \ {i} : drones'[j] = drones[j]
         /\ drones'[i].active /\ drones'[i].uav = d.uav /\ drones'[i].data = d.data
         /\ \/ report' = report
            \/ report'.uav = d.uav /\ report'.mac = d.mac /\ report'.data = d.data
  <1>1. /\ clock \in 1..MaxClock /\ drones \in [Slots -> DroneRecords]
        /\ reported \in [Uavs -> 0..MaxClock] /\ report.how \in Methods \cup {"none"}
        /\ MaxClock \in Nat
    BY DroneBounds DEF DroneInv, DroneTypes, DroneRecords
  <1>2. PICK e \in DroneRecords :
          /\ drones' = [drones EXCEPT ![i] = e]
          /\ e.active /\ e.uav = d.uav /\ e.mac = d.mac /\ e.data = d.data /\ e.seen = clock
          /\ \/ e.pushed = clock /\ reported' = [reported EXCEPT ![d.uav] = clock]
                /\ report' = [mac |-> d.mac, uav |-> d.uav, data |-> d.data, how |-> how]
             \/ /\ e.pushed = d.pushed /\ ~Due(d) /\ UNCHANGED <<report, reported>>
    <2>1. CASE Due(d) /\ drones' = [drones EXCEPT ![i] = [d EXCEPT !.pushed = clock]] /\ Push(d, how)
      <3> DEFINE e == [d EXCEPT !.pushed = clock]
      <3>1. clock \in 0..MaxClock
        BY <1>1
      <3>2. /\ e \in DroneRecords
            /\ e.active /\ e.uav = d.uav /\ e.mac = d.mac /\ e.data = d.data /\ e.seen = clock
            /\ e.pushed = clock
        BY <3>1 DEF DroneRecords
      <3> HIDE DEF e
      <3>3. drones' = [drones EXCEPT ![i] = e]
        BY <2>1 DEF e
      <3> QED  BY <2>1, <3>2, <3>3 DEF Push
    <2>2. CASE ~Due(d) /\ drones' = [drones EXCEPT ![i] = d] /\ UNCHANGED <<report, reported>>
      BY <2>2
    <2> QED  BY <2>1, <2>2 DEF pushDroneDetection
  <1>3. /\ drones'[i] = e /\ \A j \in Slots \ {i} : drones'[j] = drones[j]
        /\ drones' \in [Slots -> DroneRecords]
    BY <1>1, <1>2
  <1>4. /\ reported' \in [Uavs -> 0..MaxClock]
        /\ \A u \in Uavs : reported[u] <= reported'[u] /\ reported'[u] <= clock
    BY <1>1, <1>2 DEF DroneInv, Past
  <1>5. e.pushed <= reported'[d.uav] /\ clock - reported'[d.uav] < RediscoverAfter
    <2>1. CASE e.pushed = clock /\ reported' = [reported EXCEPT ![d.uav] = clock]
      BY <1>1, <2>1, DroneBounds
    <2>2. CASE e.pushed = d.pushed /\ ~Due(d) /\ UNCHANGED <<report, reported>>
      <3>1. d.pushed \in Nat /\ clock \in Nat /\ reported[d.uav] \in Nat /\ RediscoverAfter \in Nat
        BY <1>1, DroneBounds DEF DroneRecords
      <3>2. ~(clock - d.pushed >= RediscoverAfter)
        BY <2>2 DEF Due
      <3> QED  BY <2>2, <3>1, <3>2
    <2> QED  BY <1>2, <2>1, <2>2
  <1>6. DroneTypes'
    <2>1. report'.how \in Methods \cup {"none"}
      BY <1>1, <1>2
    <2> QED  BY <1>3, <1>4, <2>1 DEF DroneInv, DroneTypes, DroneRecords
  <1>7. ASSUME NEW j \in Slots, drones'[j].active
        PROVE  /\ drones'[j].uav \in Uavs /\ drones'[j].mac \in Addresses(drones'[j].uav)
               /\ drones'[j].pushed <= reported'[drones'[j].uav]
               /\ drones'[j].seen - reported'[drones'[j].uav] < RediscoverAfter
    <2>1. CASE j = i
      BY <1>2, <1>3, <1>5, <2>1
    <2>2. CASE j # i
      <3>1. drones'[j] = drones[j] /\ drones[j] \in DroneRecords
        BY <1>1, <1>3, <2>2
      <3>2. /\ drones[j].uav \in Uavs /\ drones[j].mac \in Addresses(drones[j].uav)
            /\ drones[j].pushed <= reported[drones[j].uav]
            /\ drones[j].seen - reported[drones[j].uav] < RediscoverAfter
        BY <1>7, <3>1 DEF DroneInv, SlotsOwned, HeardIsReported
      <3>3. /\ drones[j].pushed \in Nat /\ drones[j].seen \in Nat /\ RediscoverAfter \in Nat
            /\ reported[drones[j].uav] \in Nat /\ reported'[drones[j].uav] \in Nat
            /\ reported[drones[j].uav] <= reported'[drones[j].uav]
        BY <1>1, <1>4, <3>1, <3>2, DroneBounds DEF DroneRecords
      <3> QED  BY <3>1, <3>2, <3>3
    <2> QED  BY <2>1, <2>2
  <1>8. SlotsOwned' /\ HeardIsReported' /\ Past'
    BY <1>4, <1>7 DEF SlotsOwned, HeardIsReported, Past
  <1> QED  BY <1>2, <1>3, <1>6, <1>8 DEF DroneInv

\* What a message changes in a slot.
LEMMA DataApplied ==
  ASSUME DroneInv, NEW d \in DroneRecords, NEW u \in Uavs, NEW parts
  PROVE  /\ applyOdidData(d, u, parts) \in DroneRecords
         /\ applyOdidData(d, u, parts).active = d.active
         /\ applyOdidData(d, u, parts).mac = d.mac
         /\ applyOdidData(d, u, parts).uav = (IF "id" \in parts THEN u ELSE d.uav)
         /\ applyOdidData(d, u, parts).data = (IF "data" \in parts THEN u ELSE d.data)
         /\ applyOdidData(d, u, parts).seen = clock
         /\ applyOdidData(d, u, parts).pushed = d.pushed
  <1>1. clock \in 0..MaxClock
    BY DroneBounds DEF DroneInv, DroneTypes
  <1> QED  BY <1>1 DEF applyOdidData, DroneRecords

\* A slot found by address, as its drone takes it.
LEMMA ClaimFacts ==
  ASSUME DroneInv, NEW u \in Uavs, NEW m \in Addresses(u), NEW i \in Slots,
         ~drones[i].active \/ (drones[i].active /\ drones[i].mac = m /\ drones[i].uav = u)
  PROVE  /\ Claim(i, m) \in DroneRecords /\ Claim(i, m).active /\ Claim(i, m).mac = m
         /\ Claim(i, m).pushed <= reported[u]
         /\ DataIsOwn => Claim(i, m).data \in {u, NoUav}
  <1>1. CASE drones[i].active /\ drones[i].mac = m /\ drones[i].uav = u
    <2>1. Claim(i, m) = drones[i] /\ drones[i] \in DroneRecords
      BY <1>1 DEF Claim, DroneInv, DroneTypes, DroneRecords
    <2>2. drones[i].pushed <= reported[u]
      BY <1>1 DEF DroneInv, SlotsOwned
    <2> QED  BY <1>1, <2>1, <2>2 DEF DataIsOwn
  <1>2. CASE ~drones[i].active
    <2>1. Claim(i, m) = [Empty EXCEPT !.mac = m, !.active = TRUE]
      BY <1>2 DEF Claim
    <2>2. m \in DroneMacs
      BY DEF DroneMacs
    <2>3. /\ Claim(i, m) \in DroneRecords /\ Claim(i, m).active /\ Claim(i, m).mac = m
          /\ Claim(i, m).pushed = 0 /\ Claim(i, m).data = NoUav
      <3>1. Claim(i, m) = [active |-> TRUE, mac |-> m, uav |-> NoUav, data |-> NoUav,
                           seen |-> 0, pushed |-> 0]
        BY <2>1 DEF Empty
      <3>2. 0 \in 0..MaxClock
        BY DroneBounds
      <3> QED  BY <2>2, <3>1, <3>2 DEF DroneRecords
    <2>4. 0 <= reported[u]
      BY DroneBounds DEF DroneInv, DroneTypes
    <2> QED  BY <2>3, <2>4
  <1> QED  BY <1>1, <1>2
\* A message of a drone that goes to a slot of its own.
LEMMA MessageKeeps ==
  ASSUME DroneInv, NEW u \in Uavs, NEW parts, NEW how \in Methods,
         NEW i \in Slots, NEW d \in DroneRecords,
         d.active, d.mac \in Addresses(u), d.pushed <= reported[u],
         "id" \in parts \/ d.uav = u, drones[i].active => drones[i].uav = u,
         pushDroneDetection(i, applyOdidData(d, u, parts), how),
         UNCHANGED <<scanning, clock, runs>>, taken' \in 0..MaxTaken,
         \/ lastBle' = i /\ lastNamed' = u
         \/ UNCHANGED <<lastBle, lastNamed>>
  PROVE  /\ DroneInv'
         /\ OwnInv /\ d.data \in {u, NoUav} => OwnInv'
  <1> DEFINE e == applyOdidData(d, u, parts)
  <1>1. /\ e \in DroneRecords /\ e.active /\ e.mac \in Addresses(u) /\ e.uav = u
        /\ e.data \in {u, d.data} /\ e.seen = clock /\ e.pushed <= reported[e.uav]
    BY DataApplied
  <1> HIDE DEF e
  <1>2. lastBle' \in 0..MaxUavs /\ lastNamed' \in Uavs \cup {NoUav}
    BY DroneBounds DEF DroneInv, DroneTypes, Slots
  <1>3. /\ DroneInv'
        /\ \A j \in Slots \ {i} : drones'[j] = drones[j]
        /\ drones'[i].active /\ drones'[i].uav = u /\ drones'[i].data = e.data
        /\ \/ report' = report
           \/ report'.uav = u /\ report'.mac = e.mac /\ report'.data = e.data
    <2>1. pushDroneDetection(i, e, how)
      BY DEF e
    <2> QED  BY <1>1, <1>2, <2>1, PushKeeps
  <1>4. ASSUME OwnInv, d.data \in {u, NoUav} PROVE OwnInv'
    <2>1. e.data \in {u, NoUav}
      BY <1>1, <1>4
    <2>2. DataIsOwn'
      BY <1>3, <1>4, <2>1 DEF OwnInv, DataIsOwn
    <2>3. ReportIsOwn'
      BY <1>1, <1>3, <1>4, <2>1 DEF OwnInv, ReportIsOwn
    <2>4. LastIsNamed'
      <3>1. CASE lastBle' = i /\ lastNamed' = u
        BY <1>3, <3>1 DEF LastIsNamed
      <3>2. CASE UNCHANGED <<lastBle, lastNamed>>
        <4>1. ASSUME lastBle # 0 PROVE lastBle \in Slots
          BY <4>1, DroneBounds DEF DroneInv, DroneTypes, Slots
        <4>2. ASSUME lastBle # 0
              PROVE  drones'[lastBle].active /\ drones'[lastBle].uav = lastNamed
          BY <1>3, <1>4, <4>1, <4>2 DEF OwnInv, LastIsNamed
        <4> QED  BY <3>2, <4>2 DEF LastIsNamed
      <3> QED  BY <3>1, <3>2
    <2> QED  BY <2>2, <2>3, <2>4 DEF OwnInv
  <1> QED  BY <1>3, <1>4

\* Nobody's slot is taken over as long as the table is large enough.
LEMMA TableSuffices ==
  ASSUME DroneInv, MaxTaken = 0, NEW m, Count(m)
  PROVE  ~Overwrites(m) /\ taken' \in 0..MaxTaken
  <1>1. taken = 0
    BY DEF DroneInv, DroneTypes
  <1> QED  BY <1>1 DEF Count

LEMMA NamedKeeps ==
  ASSUME DroneInv, MaxTaken = 0, NEW u \in Uavs, NEW m \in BleFrom[u], NEW parts,
         "id" \in parts, BleNamed(u, m, parts), UNCHANGED <<scanning, clock, runs>>
  PROVE  DroneInv' /\ (OwnInv => OwnInv')
  <1>1. m \in Addresses(u) /\ m \in DroneMacs /\ "ble" \in Methods
    BY DEF Addresses, DroneMacs, Methods
  <1>2. CASE ByUav(u) # {}
    <2> DEFINE i == First(ByUav(u))
               d == [drones[i] EXCEPT !.mac = m]
    <2>1. i \in Slots /\ drones[i].active /\ drones[i].uav = u
      <3>1. i \in ByUav(u)
        BY <1>2, SlotSets, FirstIsOne
      <3> QED  BY <3>1 DEF ByUav
    <2>2. /\ pushDroneDetection(i, applyOdidData(d, u, parts), "ble") /\ taken' = taken
          /\ lastBle' = i /\ lastNamed' = u
      BY <1>2 DEF BleNamed
    <2> HIDE DEF i
    <2>3. drones[i] \in DroneRecords /\ drones[i].pushed <= reported[u]
      BY <2>1 DEF DroneInv, DroneTypes, DroneRecords, SlotsOwned
    <2>4. /\ d \in DroneRecords /\ d.active /\ d.mac = m /\ d.data = drones[i].data
          /\ d.pushed <= reported[u]
      BY <1>1, <2>1, <2>3 DEF DroneRecords
    <2> HIDE DEF d
    <2>5. taken' \in 0..MaxTaken
      BY <2>2 DEF DroneInv, DroneTypes
    <2>6. OwnInv => d.data \in {u, NoUav}
      BY <2>1, <2>4 DEF OwnInv, DataIsOwn
    <2> QED  BY <1>1, <2>1, <2>2, <2>4, <2>5, <2>6, MessageKeeps
  <1>3. CASE ByUav(u) = {}
    <2> DEFINE i == findOrAllocDrone(m)
               d == Claim(i, m)
    <2>1. /\ pushDroneDetection(i, applyOdidData(d, u, parts), "ble") /\ Count(m)
          /\ lastBle' = i /\ lastNamed' = u
      BY <1>3 DEF BleNamed
    <2>2. ~Overwrites(m) /\ taken' \in 0..MaxTaken
      BY <2>1, TableSuffices
    <2>3. /\ i \in Slots
          /\ \/ ~drones[i].active
             \/ drones[i].active /\ drones[i].mac = m /\ drones[i].uav = u
      BY <1>1, <2>2, SlotFound
    <2> HIDE DEF i
    <2>4. /\ d \in DroneRecords /\ d.active /\ d.mac = m /\ d.pushed <= reported[u]
          /\ DataIsOwn => d.data \in {u, NoUav}
      BY <1>1, <2>3, ClaimFacts
    <2> HIDE DEF d
    <2>5. OwnInv => d.data \in {u, NoUav}
      BY <2>4 DEF OwnInv
    <2> QED  BY <1>1, <2>1, <2>2, <2>3, <2>4, <2>5, MessageKeeps
  <1> QED  BY <1>2, <1>3

LEMMA WifiKeeps ==
  ASSUME DroneInv, MaxTaken = 0, NEW u \in Uavs, NEW m, NEW parts, onWifiFrame(u, m, parts)
  PROVE  DroneInv' /\ (OwnInv => OwnInv')
  <1> DEFINE i == findOrAllocDrone(m)
             d == Claim(i, m)
  <1>1. /\ m \in Addresses(u) /\ "id" \in parts /\ "wifi" \in Methods
        /\ pushDroneDetection(i, applyOdidData(d, u, parts), "wifi") /\ Count(m)
        /\ UNCHANGED <<scanning, clock, runs, lastBle, lastNamed>>
    BY DEF onWifiFrame, Addresses, Methods
  <1>2. ~Overwrites(m) /\ taken' \in 0..MaxTaken
    BY <1>1, TableSuffices
  <1>3. /\ i \in Slots
        /\ \/ ~drones[i].active
           \/ drones[i].active /\ drones[i].mac = m /\ drones[i].uav = u
    BY <1>1, <1>2, SlotFound
  <1> HIDE DEF i
  <1>4. /\ d \in DroneRecords /\ d.active /\ d.mac = m /\ d.pushed <= reported[u]
        /\ DataIsOwn => d.data \in {u, NoUav}
    BY <1>1, <1>3, ClaimFacts
  <1> HIDE DEF d
  <1>5. OwnInv => d.data \in {u, NoUav}
    BY <1>4 DEF OwnInv
  <1> QED  BY <1>1, <1>2, <1>3, <1>4, <1>5, MessageKeeps

\* A message without an ID goes to a slot of the drone, or to the one named last.
LEMMA UnnamedKeeps ==
  ASSUME DroneInv, NEW u \in Uavs, NEW m \in BleFrom[u], NEW parts, "id" \notin parts,
         BleUnnamed(u, m, parts), UNCHANGED <<scanning, clock, runs>>
  PROVE  DroneInv' /\ (OwnInv /\ ~Interleaved => OwnInv')
  <1> DEFINE i == IF ByMac(m) # {} THEN First(ByMac(m)) ELSE lastBle
             d == drones[i]
             e == applyOdidData(d, u, parts)
  <1>1. /\ i # 0 /\ d.active /\ (Interleaved \/ ByMac(m) # {} \/ u = lastNamed)
        /\ pushDroneDetection(i, e, "ble") /\ UNCHANGED <<lastBle, taken, lastNamed>>
    BY DEF BleUnnamed
  <1>2. i \in Slots /\ (ByMac(m) # {} => d.mac = m)
    <2>1. CASE ByMac(m) # {}
      <3>1. i \in ByMac(m)
        BY <2>1, SlotSets, FirstIsOne
      <3> QED  BY <3>1 DEF ByMac
    <2>2. CASE ByMac(m) = {}
      BY <1>1, <2>2, DroneBounds DEF DroneInv, DroneTypes, Slots
    <2> QED  BY <2>1, <2>2
  <1>3. ASSUME OwnInv, ~Interleaved PROVE d.uav = u
    <2>1. CASE ByMac(m) # {}
      <3>1. m \in Addresses(u) /\ d.uav \in Uavs /\ m \in Addresses(d.uav)
        BY <1>1, <1>2, <2>1 DEF DroneInv, SlotsOwned, Addresses
      <3> QED  BY <3>1, AddressesAssumption
    <2>2. CASE ByMac(m) = {}
      BY <1>1, <1>3, <2>2 DEF OwnInv, LastIsNamed
    <2> QED  BY <2>1, <2>2
  <1> HIDE DEF i
  <1>4. /\ d \in DroneRecords /\ d.uav \in Uavs /\ d.mac \in Addresses(d.uav)
        /\ d.pushed <= reported[d.uav] /\ "ble" \in Methods
    BY <1>1, <1>2 DEF DroneInv, DroneTypes, DroneRecords, SlotsOwned, Methods
  <1>5. /\ lastBle' \in 0..MaxUavs /\ lastNamed' \in Uavs \cup {NoUav} /\ taken' \in 0..MaxTaken
    BY <1>1 DEF DroneInv, DroneTypes
  <1>6. DroneInv'
    <2>1. /\ e \in DroneRecords /\ e.active /\ e.mac = d.mac /\ e.uav = d.uav
          /\ e.seen = clock /\ e.pushed = d.pushed
      BY <1>1, <1>4, DataApplied
    <2> HIDE DEF e, d
    <2> QED  BY <1>1, <1>2, <1>4, <1>5, <2>1, PushKeeps
  <1>7. ASSUME OwnInv, ~Interleaved PROVE OwnInv'
    <2>1. d.data \in {u, NoUav} /\ d.uav = u
      BY <1>1, <1>2, <1>3, <1>7 DEF OwnInv, DataIsOwn
    <2>2. drones[i].active => drones[i].uav = u
      BY <2>1
    <2> HIDE DEF d
    <2> QED  BY <1>1, <1>2, <1>4, <1>5, <1>7, <2>1, <2>2, MessageKeeps DEF e
  <1> QED  BY <1>6, <1>7

\* Sweeping frees the slot named last together with the pointer to it.
LEMMA LoopKeeps ==
  ASSUME DroneInv, skyspyLoop
  PROVE  DroneInv' /\ (OwnInv => OwnInv')
  <1>1. /\ UNCHANGED <<scanning, clock, runs, taken, report, reported, lastNamed>>
        /\ drones' = [i \in Slots |-> IF Stale(i) THEN [drones[i] EXCEPT !.active = FALSE]
                                                  ELSE drones[i]]
        /\ lastBle' = IF lastBle # 0 /\ Stale(lastBle) THEN 0 ELSE lastBle
    BY DEF skyspyLoop, Expire
  <1>2. drones \in [Slots -> DroneRecords] /\ lastBle \in 0..MaxUavs
    BY DEF DroneInv, DroneTypes, DroneRecords
  <1>3. ASSUME NEW i \in Slots
        PROVE  drones'[i] \in DroneRecords /\ (drones'[i].active => drones'[i] = drones[i])
               /\ (~Stale(i) => drones'[i] = drones[i])
    BY <1>1, <1>2 DEF DroneRecords
  <1>4. drones' \in [Slots -> DroneRecords]
    <2>1. drones' = [i \in Slots |-> drones'[i]]
      BY <1>1
    <2> QED  BY <1>3, <2>1
  <1>5. lastBle' \in 0..MaxUavs
    BY <1>1, <1>2, DroneBounds
  <1>6. DroneTypes'
    BY <1>1, <1>4, <1>5 DEF DroneInv, DroneTypes, DroneRecords
  <1>7. SlotsOwned' /\ HeardIsReported' /\ Past'
    BY <1>1, <1>3 DEF DroneInv, SlotsOwned, HeardIsReported, Past
  <1>8. ASSUME OwnInv PROVE OwnInv'
    <2>1. DataIsOwn' /\ ReportIsOwn'
      BY <1>1, <1>3, <1>8 DEF OwnInv, DataIsOwn, ReportIsOwn
    <2>2. ASSUME lastBle' # 0
          PROVE  drones'[lastBle'].active /\ drones'[lastBle'].uav = lastNamed'
      <3>1. lastBle' = lastBle /\ ~Stale(lastBle) /\ lastBle \in Slots
        BY <1>1, <1>2, <2>2, DroneBounds DEF Slots
      <3>2. drones'[lastBle] = drones[lastBle]
        BY <1>3, <3>1
      <3> QED  BY <1>1, <1>8, <2>2, <3>1, <3>2 DEF OwnInv, LastIsNamed
    <2> QED  BY <2>1, <2>2 DEF OwnInv, LastIsNamed
  <1> QED  BY <1>6, <1>7, <1>8 DEF DroneInv

LEMMA LifeKeeps ==
  ASSUME DroneInv, skyspyStart \/ skyspyStop \/ Pass \/ UNCHANGED droneVars
  PROVE  DroneInv' /\ (OwnInv => OwnInv')
  <1>1. UNCHANGED <<drones, lastBle, taken, report, reported, lastNamed>>
    BY DEF skyspyStart, skyspyStop, Pass, droneVars
  <1>2. clock' \in 1..MaxClock /\ runs' \in 0..MaxRuns /\ scanning' \in BOOLEAN /\ clock <= clock'
    <2>1. /\ clock \in 1..MaxClock /\ runs \in 0..MaxRuns /\ scanning \in BOOLEAN
          /\ MaxClock \in Nat /\ MaxRuns \in Nat
      BY DroneBounds DEF DroneInv, DroneTypes
    <2>2. CASE skyspyStart
      <3>1. scanning' \in BOOLEAN /\ UNCHANGED clock
        BY <2>2, Zenon DEF skyspyStart
      <3>2. runs < MaxRuns /\ runs' = runs + 1
        BY <2>2, Zenon DEF skyspyStart
      <3>3. runs' \in 0..MaxRuns
        BY <2>1, <3>2
      <3> QED  BY <2>1, <3>1, <3>3
    <2>3. CASE skyspyStop
      <3>1. scanning' \in BOOLEAN /\ clock' = clock /\ runs' = runs
        BY <2>3, Zenon DEF skyspyStop
      <3> QED  BY <2>1, <3>1
    <2>4. CASE Pass
      <3>1. scanning' \in BOOLEAN /\ runs' = runs
        BY <2>1, <2>4, Zenon DEF Pass
      <3>2. clock < MaxClock /\ clock' = clock + 1
        BY <2>4, Zenon DEF Pass
      <3>3. clock' \in 1..MaxClock /\ clock <= clock'
        BY <2>1, <3>2
      <3> QED  BY <2>1, <3>1, <3>3
    <2>5. CASE UNCHANGED droneVars
      BY <2>1, <2>5 DEF droneVars
    <2> QED  BY <2>2, <2>3, <2>4, <2>5
  <1>3. DroneTypes'
    BY <1>1, <1>2 DEF DroneInv, DroneTypes
  <1>4. Past'
    BY <1>1, <1>2, DroneBounds DEF DroneInv, DroneTypes, Past
  <1>5. SlotsOwned' /\ HeardIsReported' /\ (OwnInv => OwnInv')
    BY <1>1 DEF DroneInv, SlotsOwned, HeardIsReported, OwnInv, DataIsOwn, ReportIsOwn, LastIsNamed
  <1> QED  BY <1>3, <1>4, <1>5 DEF DroneInv

LEMMA DroneStepKeeps ==
  ASSUME DroneInv, MaxTaken = 0, [DroneNext]_droneVars
  PROVE  DroneInv' /\ (OwnInv /\ ~Interleaved => OwnInv')
  <1>1. ASSUME NEW u \in Uavs, NEW m, NEW parts, onBleResult(u, m, parts)
        PROVE  DroneInv' /\ (OwnInv /\ ~Interleaved => OwnInv')
    <2>1. m \in BleFrom[u] /\ UNCHANGED <<scanning, clock, runs>>
      BY <1>1 DEF onBleResult
    <2>2. CASE "id" \in parts /\ BleNamed(u, m, parts)
      BY <2>1, <2>2, NamedKeeps
    <2>3. CASE "id" \notin parts /\ BleUnnamed(u, m, parts)
      BY <2>1, <2>3, UnnamedKeeps
    <2> QED  BY <1>1, <2>2, <2>3 DEF onBleResult
  <1> QED
    BY <1>1, WifiKeeps, LoopKeeps, LifeKeeps DEF DroneNext

LEMMA DroneTypesOK == DroneInv => DroneTypeOK
  <1>1. ASSUME DroneInv, NEW i \in Slots, drones[i].active PROVE drones[i].uav # NoUav
    BY <1>1, UavsAssumption DEF DroneInv, SlotsOwned
  <1> QED  BY <1>1 DEF DroneInv, DroneTypes, DroneTypeOK

\* A drone that is heard is reported: no message of it comes RediscoverAfter or
\* more after its last report without making one, although its slot is found by
\* three keys and freed in between (skyspy.cpp, lastPushed).  That takes a table
\* that has a slot for every drone around (DroneFull shows why).
THEOREM DronesAreReported ==
  ASSUME MaxTaken = 0 PROVE DroneSpec => []HeardIsReported
  <1>1. DroneInit => DroneInv
    BY DroneInitInv
  <1>2. DroneInv /\ [DroneNext]_droneVars => DroneInv'
    BY DroneStepKeeps
  <1>3. DroneInv => HeardIsReported
    BY DEF DroneInv
  <1> QED  BY <1>1, <1>2, <1>3, PTL DEF DroneSpec

\* A report gives the position and an address of the drone it names, and the
\* pointer to the drone named last is right (g_lastBleDrone), if besides no
\* other drone sends a position between a drone's ID and its position.
THEOREM DroneReportsAreTrue ==
  ASSUME MaxTaken = 0, ~Interleaved PROVE DroneSpec => []ReportsTrue
  <1> DEFINE Inv == DroneInv /\ OwnInv
  <1>1. DroneInit => Inv
    BY DroneInitInv
  <1>2. Inv /\ [DroneNext]_droneVars => Inv'
    BY DroneStepKeeps
  <1>3. Inv => ReportsTrue
    BY DroneTypesOK DEF OwnInv, ReportsTrue
  <1> QED  BY <1>1, <1>2, <1>3, PTL DEF DroneSpec
-----------------------------------------------------------------------------
(* From the callbacks to the phone.                                        *)

Engines == {"FLOCK_BLE", "FLOCK_WIFI", "DETECTOR", "FOXHUNTER", "UNIPWN", "WARDRIVE"}
Devices == Macs \ {NoMac}
Targets == Devices \X {1, 2}
Kinds == {"flock", "watch", "target", "robot", "deauth", "probe", "axon", "flipper", "glasses",
          "fleet", "device", "network"}
DetEvents == [eng : Engines, mac : Devices, ble : BOOLEAN, what : Kinds \cup {"tracker"}]

RingsOf(K) == [at : Seq([key : K, ts : 0..MaxTime]), head : 1..RingSize]
Entries(r) == {r.at[i] : i \in DOMAIN r.at}

\* A ring holds each key once, with a time that has been.
RingOK(r) ==
  /\ Len(r.at) <= RingSize
  /\ \A i, j \in DOMAIN r.at : r.at[i].key = r.at[j].key => i = j
  /\ \A x \in Entries(r) : x.ts <= ticks

TagRecords == [mac : Devices \cup {NoMac}, first : 0..MaxTime, seen : 0..MaxTime,
               hits : 0..TagHits, alerted : BOOLEAN]
Presences == [first : 0..MaxTime, seen : 0..MaxTime, hits : 0..TagHits, alerts : 0..2]
Storms == [start : 0..MaxTime, count : 0..StormFrames, alert : 0..MaxTime]
Times == 0..MaxTime \cup {Never}
Reports == [eng : Engines \cup {"none"}, loud : BOOLEAN, silence : Times, gap : Times]

DetTypes ==
  /\ scene \in Scenes /\ wardriving \in BOOLEAN
  /\ rings \in [RingNames -> RingsOf(Devices)] /\ notified \in RingsOf(Targets)
  /\ tags \in [1..TagSlots -> TagRecords] /\ presence \in [Macs -> Presences]
  /\ storm \in Storms /\ queue \in Seq(DetEvents) /\ Len(queue) <= QueueDepth
  /\ quiet \in BOOLEAN /\ ticks \in Boot..MaxTime /\ writes \in 0..MaxWrites
  /\ heard \subseteq Devices \X Classes
  /\ told \in [Macs -> [Classes -> Times]] /\ excused \in [Macs -> [Classes -> Times]]
  /\ lastChime \in 0..MaxTime /\ beeped \in Times /\ last \in Reports

RingsSound == (\A r \in RingNames : RingOK(rings[r])) /\ RingOK(notified)

\* Nothing the task did is later than the clock, and what it remembers having
\* told it told.
TimesSound ==
  /\ \A m \in Macs, c \in Classes : told[m][c] = Never \/ told[m][c] <= ticks
  /\ \A m \in Macs, c \in Classes : excused[m][c] = Never \/ excused[m][c] <= ticks
  /\ \A x \in Entries(notified) :
       told[x.key[1]][x.key[2]] # Never /\ x.ts <= told[x.key[1]][x.key[2]]

BeepSound ==
  \/ lastChime = 0 /\ beeped = Never
  \/ lastChime = beeped /\ lastChime # 0 /\ lastChime <= ticks

\* The classes of engines an entry of a ring keeps back: those of the ring; that
\* of WARDRIVE keeps back FLOCK_BLE as well.
FlockSeen(m) == "FLOCK_BLE" \in Active /\ \E a \in scene.adverts : a.mac = m /\ LooksFlock(a)

KeptBack(r, m) ==
  IF r \in {"flockBle", "flockWifi", "wdFlock"} THEN {1}
  ELSE IF r = "wdWifi" THEN {3}
  ELSE IF r = "wdBle" THEN {3} \cup (IF FlockSeen(m) THEN {1} ELSE {})
  ELSE {2}

Carries(q, m, c) == \E i \in DOMAIN q : q[i].mac = m /\ engineClass(q[i].eng) = c

\* Since t the device is on its way to the phone, or was told, or withheld, at
\* most NotifyCooldown earlier.
Answered(m, c, t) ==
  \/ Carries(queue, m, c)
  \/ told[m][c] # Never /\ t - told[m][c] < NotifyCooldown
  \/ excused[m][c] # Never /\ t - excused[m][c] < NotifyCooldown

Viewed(m, c) == Carries(queue, m, c) \/ Within(told[m][c]) \/ Within(excused[m][c])

RingsAnswered ==
  \A r \in RingNames : \A x \in Entries(rings[r]) : \A c \in KeptBack(r, x.key) :
    Answered(x.key, c, x.ts)

HeardViewed == \A h \in heard : Viewed(h[1], h[2])

ViewInv == RingsAnswered /\ HeardViewed

\* Every target that was told is still in the ring of the task.
TellsKept ==
  \A k \in Targets : told[k[1]][k[2]] # Never =>
    \E x \in Entries(notified) : x.key = k /\ x.ts = told[k[1]][k[2]]

\* A storm in an open window has been alerted when it began, or shortly before.
StormSound(s) ==
  /\ s.start <= ticks /\ s.alert <= ticks
  /\ s.count >= StormFrames => s.alert > 0 /\ s.start <= s.alert + StormCooldown

\* A tag that is around has a slot of its own, which knows the same of it.
Live(p) == p.hits > 0 /\ ticks - p.seen <= TagStale
Follows == "DETECTOR" \in Active /\ "tracker" \in SigMask
FindMy == {a.mac : a \in {b \in scene.adverts : "findMy" \in b.has}}
Matches(t, p) ==
  /\ t.hits = p.hits /\ t.hits > 0 /\ t.first = p.first /\ t.seen = p.seen
  /\ t.alerted <=> p.alerts = 1
Tracks(t, m) == t.mac = m /\ Matches(t, presence[m])

SlotsTrack ==
  /\ \A i \in 1..TagSlots : Live(tags[i]) => tags[i].mac \in FindMy /\ Tracks(tags[i], tags[i].mac)
  /\ \A i, j \in 1..TagSlots :
       Live(tags[i]) /\ Live(tags[j]) /\ tags[i].mac = tags[j].mac => i = j
  /\ \A m \in Macs : Live(presence[m]) => \E i \in 1..TagSlots : Live(tags[i]) /\ tags[i].mac = m

TagsSound ==
  /\ \A m \in Macs : presence[m].seen <= ticks /\ presence[m].first <= ticks
  /\ Follows => SlotsTrack
  /\ ~Follows => \A m \in Macs : presence[m].alerts = 0
  /\ TagsAlertOnce

AlarmInv == TargetsBeep /\ StormSound(storm) /\ TagsSound

DetInv == DetTypes /\ RingsSound /\ TimesSound /\ BeepSound

LEMMA DetNumbers ==
  /\ RingSize \in Nat \ {0} /\ Rediscover \in Nat \ {0} /\ NotifyCooldown \in Nat \ {0}
  /\ ChimeGap \in Nat \ {0} /\ StormFrames \in Nat \ {0} /\ TagSlots \in Nat \ {0}
  /\ TagHits \in Nat \ {0} /\ Boot \in Nat \ {0}
  /\ StormCooldown \in Nat /\ TagPersist \in Nat /\ TagStale \in Nat /\ QueueDepth \in Nat
  /\ IsrReserve \in Nat /\ MaxTime \in Nat /\ MaxWrites \in Nat
  /\ Boot <= MaxTime /\ NotifyCooldown <= MaxTime /\ Never = MaxTime + 1
  BY SizesAssumption DEF Never

-----------------------------------------------------------------------------
(* Rings.                                                                  *)

NewEntry(k) == [key |-> k, ts |-> ticks]

LEMMA SeqFacts ==
  ASSUME NEW S, NEW q \in Seq(S)
  PROVE  DOMAIN q = 1..Len(q) /\ Len(q) \in Nat /\ \A i \in 1..Len(q) : q[i] \in S
  OBVIOUS

LEMMA EntriesFacts ==
  ASSUME NEW K, NEW r \in RingsOf(K)
  PROVE  /\ r.at \in Seq([key : K, ts : 0..MaxTime]) /\ r.head \in 1..RingSize
         /\ DOMAIN r.at = 1..Len(r.at) /\ Len(r.at) \in Nat
         /\ Entries(r) \subseteq [key : K, ts : 0..MaxTime]
         /\ \A x : x \in Entries(r) <=> \E i \in 1..Len(r.at) : x = r.at[i]
  <1>1. r.at \in Seq([key : K, ts : 0..MaxTime]) /\ r.head \in 1..RingSize
    BY DEF RingsOf
  <1>2. DOMAIN r.at = 1..Len(r.at) /\ Len(r.at) \in Nat
        /\ \A i \in 1..Len(r.at) : r.at[i] \in [key : K, ts : 0..MaxTime]
    BY <1>1, SeqFacts
  <1> QED  BY <1>1, <1>2 DEF Entries

LEMMA CoolingFacts ==
  ASSUME NEW K, NEW r \in RingsOf(K), NEW k, NEW cd
  PROVE  Cooling(r, k, cd) <=> \E x \in Entries(r) : x.key = k /\ ticks - x.ts < cd
  BY EntriesFacts DEF Cooling, Entries

\* What a ring holds after an address was let through: that address, with this
\* time, and of the others all, or all but the one whose place it took.
RenewedRight(K, r, k, n) ==
  /\ n \in RingsOf(K) /\ RingOK(n)
  /\ NewEntry(k) \in Entries(n)
  /\ Entries(n) \subseteq Entries(r) \cup {NewEntry(k)}
  /\ Len(r.at) < RingSize \/ (\E x \in Entries(r) : x.key = k)
       => \A x \in Entries(r) : x.key # k => x \in Entries(n)

LEMMA RenewedKnown ==
  ASSUME NEW K, NEW r \in RingsOf(K), RingOK(r), NEW k \in K, ticks \in 0..MaxTime,
         \E i \in DOMAIN r.at : r.at[i].key = k
  PROVE  RenewedRight(K, r, k, Renewed(r, k))
  <1> DEFINE E == [key : K, ts : 0..MaxTime]
             q == r.at
             e == NewEntry(k)
             p == [i \in DOMAIN q |-> IF q[i].key = k THEN e ELSE q[i]]
             n == [at |-> p, head |-> r.head]
  <1>1. q \in Seq(E) /\ DOMAIN q = 1..Len(q) /\ Len(q) \in Nat /\ r.head \in 1..RingSize
        /\ \A i \in 1..Len(q) : q[i] \in E
    BY EntriesFacts
  <1>2. e \in E /\ e.key = k /\ e.ts = ticks
    BY DEF NewEntry
  <1>3. Renewed(r, k) = n
    BY DEF Renewed, NewEntry, RingsOf
  <1> HIDE DEF E, e
  <1>4. /\ p \in Seq(E) /\ Len(p) = Len(q) /\ DOMAIN p = 1..Len(q)
        /\ \A i \in 1..Len(q) : p[i] = IF q[i].key = k THEN e ELSE q[i]
    BY <1>1, <1>2
  <1>5. \A i \in 1..Len(q) : p[i].key = q[i].key
    BY <1>2, <1>4
  <1> HIDE DEF p
  <1>6. n.at = p /\ n \in RingsOf(K)
    BY <1>1, <1>4 DEF RingsOf, E
  <1>7. Entries(n) = {p[i] : i \in 1..Len(q)} /\ Entries(r) = {q[i] : i \in 1..Len(q)}
    BY <1>1, <1>4 DEF Entries
  <1> HIDE DEF n
  <1>8. RingOK(n)
    <2>1. \A i, j \in 1..Len(q) : q[i].key = q[j].key => i = j
      BY <1>1 DEF RingOK
    <2>2. \A x \in Entries(n) : x.ts <= ticks
      <3>1. ticks <= ticks
        OBVIOUS
      <3> QED  BY <1>2, <1>4, <1>7, <3>1 DEF RingOK
    <2>3. Len(p) <= RingSize
      BY <1>4 DEF RingOK
    <2> QED  BY <1>4, <1>5, <1>6, <2>1, <2>2, <2>3 DEF RingOK
  <1>9. e \in Entries(n) /\ Entries(n) \subseteq Entries(r) \cup {e}
    BY <1>1, <1>4, <1>7
  <1>10. \A x \in Entries(r) : x.key # k => x \in Entries(n)
    BY <1>4, <1>7
  <1> QED  BY <1>3, <1>6, <1>8, <1>9, <1>10 DEF RenewedRight, e

LEMMA RenewedAdded ==
  ASSUME NEW K, NEW r \in RingsOf(K), RingOK(r), NEW k \in K, ticks \in 0..MaxTime,
         ~ \E i \in DOMAIN r.at : r.at[i].key = k, Len(r.at) < RingSize
  PROVE  RenewedRight(K, r, k, Renewed(r, k))
  <1> DEFINE E == [key : K, ts : 0..MaxTime]
             q == r.at
             e == NewEntry(k)
             p == Append(q, e)
             n == [at |-> p, head |-> r.head]
  <1>1. q \in Seq(E) /\ DOMAIN q = 1..Len(q) /\ Len(q) \in Nat /\ r.head \in 1..RingSize
    BY EntriesFacts
  <1>2. e \in E /\ e.key = k /\ e.ts = ticks
    BY DEF NewEntry
  <1>3. Renewed(r, k) = n
    BY DEF Renewed, NewEntry, RingsOf
  <1> HIDE DEF E, e
  <1>4. /\ p \in Seq(E) /\ Len(p) = Len(q) + 1 /\ DOMAIN p = 1..Len(q) + 1
        /\ \A i \in 1..Len(q) : p[i] = q[i]
        /\ p[Len(q) + 1] = e
    BY <1>1, <1>2
  <1> HIDE DEF p
  <1>5. n.at = p /\ n \in RingsOf(K)
    BY <1>1, <1>4 DEF RingsOf, E
  <1>6. /\ Entries(n) = {p[i] : i \in 1..Len(q) + 1} /\ Entries(r) = {q[i] : i \in 1..Len(q)}
        /\ \A i \in 1..Len(q) + 1 : i \in 1..Len(q) \/ i = Len(q) + 1
        /\ Len(q) + 1 \in 1..Len(q) + 1 /\ 1..Len(q) \subseteq 1..Len(q) + 1
    <2>1. Entries(n) = {p[i] : i \in 1..Len(q) + 1} /\ Entries(r) = {q[i] : i \in 1..Len(q)}
      BY <1>1, <1>4, <1>5, Zenon DEF Entries
    <2> QED  BY <1>1, <2>1
  <1> HIDE DEF n
  <1>7. Entries(n) = Entries(r) \cup {e}
    BY <1>4, <1>6
  <1>8. RingOK(n)
    <2>1. \A i, j \in 1..Len(q) : q[i].key = q[j].key => i = j
      BY <1>1 DEF RingOK
    <2>2. \A i, j \in 1..Len(q) + 1 : p[i].key = p[j].key => i = j
      BY <1>1, <1>2, <1>4, <1>6, <2>1
    <2>3. \A x \in Entries(n) : x.ts <= ticks
      <3>1. ticks <= ticks
        OBVIOUS
      <3> QED  BY <1>2, <1>7, <3>1 DEF RingOK
    <2>4. Len(p) <= RingSize
      BY <1>1, <1>4, DetNumbers
    <2> QED  BY <1>4, <1>5, <2>2, <2>3, <2>4 DEF RingOK
  <1> QED  BY <1>3, <1>5, <1>7, <1>8 DEF RenewedRight, e

LEMMA RenewedOver ==
  ASSUME NEW K, NEW r \in RingsOf(K), RingOK(r), NEW k \in K, ticks \in 0..MaxTime,
         ~ \E i \in DOMAIN r.at : r.at[i].key = k, ~(Len(r.at) < RingSize)
  PROVE  RenewedRight(K, r, k, Renewed(r, k))
  <1> DEFINE E == [key : K, ts : 0..MaxTime]
             q == r.at
             h == r.head
             e == NewEntry(k)
             p == [q EXCEPT ![h] = e]
             n == [at |-> p, head |-> (h % RingSize) + 1]
  <1>1. q \in Seq(E) /\ DOMAIN q = 1..Len(q) /\ Len(q) = RingSize /\ h \in 1..Len(q)
    <2>1. q \in Seq(E) /\ DOMAIN q = 1..Len(q) /\ Len(q) \in Nat /\ h \in 1..RingSize
      BY EntriesFacts
    <2>2. Len(q) <= RingSize
      BY DEF RingOK
    <2>3. Len(q) = RingSize
      BY <2>1, <2>2, DetNumbers
    <2> QED  BY <2>1, <2>3
  <1>2. e \in E /\ e.key = k /\ e.ts = ticks
    BY DEF NewEntry
  <1>3. Renewed(r, k) = n
    BY DEF Renewed, NewEntry, RingsOf
  <1>4. (h % RingSize) + 1 \in 1..RingSize
    BY <1>1, DetNumbers
  <1> HIDE DEF E, e, h
  <1>5. /\ p \in Seq(E) /\ Len(p) = Len(q) /\ DOMAIN p = 1..Len(q)
        /\ \A i \in 1..Len(q) : p[i] = IF i = h THEN e ELSE q[i]
    BY <1>1, <1>2
  <1> HIDE DEF p
  <1>6. n.at = p /\ n \in RingsOf(K)
    BY <1>4, <1>5 DEF RingsOf, E
  <1>7. Entries(n) = {p[i] : i \in 1..Len(q)} /\ Entries(r) = {q[i] : i \in 1..Len(q)}
    BY <1>1, <1>5, <1>6 DEF Entries
  <1> HIDE DEF n
  <1>8. RingOK(n)
    <2>1. \A i, j \in 1..Len(q) : q[i].key = q[j].key => i = j
      BY <1>1 DEF RingOK
    <2>2. \A i, j \in 1..Len(q) : p[i].key = p[j].key => i = j
      BY <1>1, <1>2, <1>5, <2>1
    <2>3. \A x \in Entries(n) : x.ts <= ticks
      <3>1. ticks <= ticks
        OBVIOUS
      <3> QED  BY <1>2, <1>5, <1>7, <3>1 DEF RingOK
    <2>4. Len(p) <= RingSize
      BY <1>1, <1>5, DetNumbers
    <2> QED  BY <1>5, <1>6, <2>2, <2>3, <2>4 DEF RingOK
  <1>9. e \in Entries(n) /\ Entries(n) \subseteq Entries(r) \cup {e}
    BY <1>1, <1>5, <1>7
  <1>10. ~ \E x \in Entries(r) : x.key = k
    BY <1>1, <1>7
  <1> QED  BY <1>3, <1>6, <1>8, <1>9, <1>10 DEF RenewedRight, e

LEMMA RenewedFacts ==
  ASSUME NEW K, NEW r \in RingsOf(K), RingOK(r), NEW k \in K, ticks \in 0..MaxTime
  PROVE  RenewedRight(K, r, k, Renewed(r, k))
  BY RenewedKnown, RenewedAdded, RenewedOver
-----------------------------------------------------------------------------
(* What a callback has done so far.                                        *)

Works == [rings : [RingNames -> RingsOf(Devices)], tags : [1..TagSlots -> TagRecords],
          storm : Storms, out : Seq(DetEvents), met : SUBSET (Devices \X Classes)]

Good(st) ==
  /\ st \in Works /\ \A r \in RingNames : RingOK(st.rings[r])
  /\ Boot > StormCooldown /\ StormSound(storm) => StormSound(st.storm)

RingsServed(R, q) ==
  \A r \in RingNames : \A x \in Entries(R[r]) : \A c \in KeptBack(r, x.key) :
    Carries(q, x.key, c) \/ Answered(x.key, c, x.ts)

MetServed(M, q) == \A h \in M : Carries(q, h[1], h[2]) \/ Viewed(h[1], h[2])

\* Nobody looks like a camera in one advertisement and not in the next.
OneFace ==
  \A s \in Scenes : \A a, b \in s.adverts : a.mac = b.mac => (LooksFlock(a) <=> LooksFlock(b))

Serving(st) == OneFace /\ RingsServed(st.rings, st.out) /\ MetServed(st.met, st.out)

Alerts(q, m) == \E i \in DOMAIN q : q[i].what = "tracker" /\ q[i].mac = m

\* What a callback does next, other than with a Find My tag.
Onward(st, n) ==
  /\ Good(n) /\ (Serving(st) => Serving(n)) /\ n.tags = st.tags
  /\ \A m : Alerts(n.out, m) <=> Alerts(st.out, m)

LEMMA OnwardChain ==
  ASSUME NEW a, NEW b, NEW c, Onward(a, b), Onward(b, c)
  PROVE  Onward(a, c)
  BY DEF Onward

LEMMA OnwardSame == ASSUME NEW a, Good(a) PROVE Onward(a, a)
  BY DEF Onward

LEMMA WorkFields ==
  ASSUME NEW st \in Works
  PROVE  /\ st.rings \in [RingNames -> RingsOf(Devices)] /\ st.tags \in [1..TagSlots -> TagRecords]
         /\ st.storm \in Storms /\ st.out \in Seq(DetEvents) /\ st.met \in SUBSET (Devices \X Classes)
  BY DEF Works

LEMMA ClassFacts ==
  /\ engineClass("FLOCK_BLE") = 1 /\ engineClass("FLOCK_WIFI") = 1
  /\ engineClass("DETECTOR") = 2 /\ engineClass("FOXHUNTER") = 2 /\ engineClass("UNIPWN") = 2
  /\ engineClass("WARDRIVE") = 3
  /\ \A e \in Engines : engineClass(e) \in Classes
  BY DEF engineClass, Engines, Classes

LEMMA EventFacts ==
  ASSUME NEW e \in Engines, NEW m \in Devices, NEW b \in BOOLEAN, NEW w \in Kinds \cup {"tracker"}
  PROVE  /\ Event(e, m, b, w) \in DetEvents
         /\ Event(e, m, b, w).eng = e /\ Event(e, m, b, w).mac = m /\ Event(e, m, b, w).what = w
  BY DEF Event, DetEvents

LEMMA CarriesAdded ==
  ASSUME NEW q \in Seq(DetEvents), NEW e \in DetEvents
  PROVE  /\ Append(q, e) \in Seq(DetEvents)
         /\ \A m, c : Carries(Append(q, e), m, c)
                        <=> Carries(q, m, c) \/ (e.mac = m /\ engineClass(e.eng) = c)
         /\ \A m : Alerts(Append(q, e), m) <=> Alerts(q, m) \/ (e.what = "tracker" /\ e.mac = m)
  <1> DEFINE p == Append(q, e)
  <1>1. DOMAIN q = 1..Len(q) /\ Len(q) \in Nat
    BY SeqFacts
  <1>2. /\ p \in Seq(DetEvents) /\ DOMAIN p = 1..Len(q) + 1
        /\ \A i \in 1..Len(q) : p[i] = q[i]
        /\ p[Len(q) + 1] = e
    BY <1>1
  <1>3. /\ \A i \in 1..Len(q) + 1 : i \in 1..Len(q) \/ i = Len(q) + 1
        /\ Len(q) + 1 \in 1..Len(q) + 1 /\ 1..Len(q) \subseteq 1..Len(q) + 1
    BY <1>1
  <1> HIDE DEF p
  <1>4. \A m, c : Carries(p, m, c) <=> Carries(q, m, c) \/ (e.mac = m /\ engineClass(e.eng) = c)
    BY <1>1, <1>2, <1>3, Zenon DEF Carries
  <1>5. \A m : Alerts(p, m) <=> Alerts(q, m) \/ (e.what = "tracker" /\ e.mac = m)
    BY <1>1, <1>2, <1>3, Zenon DEF Alerts
  <1> QED  BY <1>2, <1>4, <1>5 DEF p

\* Whoever is kept back by a ring was let through less than Rediscover ago.
LEMMA CoolingViewed ==
  ASSUME DetInv, NEW R \in [RingNames -> RingsOf(Devices)], NEW q, RingsServed(R, q),
         NEW r \in RingNames, NEW k \in Devices, NEW c \in Classes, c \in KeptBack(r, k),
         Cooling(R[r], k, Rediscover)
  PROVE  Carries(q, k, c) \/ Viewed(k, c)
  <1>1. R[r] \in RingsOf(Devices)
    OBVIOUS
  <1>2. PICK x \in Entries(R[r]) : x.key = k /\ ticks - x.ts < Rediscover
    BY <1>1, CoolingFacts
  <1>3. x.ts \in 0..MaxTime
    <2>1. Entries(R[r]) \subseteq [key : Devices, ts : 0..MaxTime]
      BY <1>1, EntriesFacts
    <2> QED  BY <2>1
  <1>4. Carries(q, k, c) \/ Answered(k, c, x.ts)
    BY <1>2 DEF RingsServed
  <1>5. /\ ticks \in Nat /\ k \in Macs
        /\ told[k][c] \in 0..MaxTime \cup {Never} /\ excused[k][c] \in 0..MaxTime \cup {Never}
    BY DetNumbers DEF DetInv, DetTypes, Times, Devices
  <1>6. ASSUME NEW t \in 0..MaxTime \cup {Never}, t # Never, x.ts - t < NotifyCooldown
        PROVE  Within(t)
    <2>1. /\ t \in Nat /\ x.ts \in Nat /\ Rediscover \in Nat /\ NotifyCooldown \in Nat
      BY <1>3, <1>6, DetNumbers
    <2>2. ticks - t < Rediscover + NotifyCooldown
      BY <1>2, <1>5, <1>6, <2>1
    <2> QED  BY <1>6, <2>2 DEF Within, Window
  <1> QED  BY <1>4, <1>5, <1>6 DEF Answered, Viewed

\* Rings and what they hold once an address is let through.
LEMMA RingRenewed ==
  ASSUME DetInv, NEW R \in [RingNames -> RingsOf(Devices)], \A r \in RingNames : RingOK(R[r]),
         NEW p, NEW q, \A m, c : Carries(p, m, c) => Carries(q, m, c),
         NEW ring \in RingNames, NEW k \in Devices
  PROVE  /\ [R EXCEPT ![ring] = Renewed(@, k)] \in [RingNames -> RingsOf(Devices)]
         /\ \A r \in RingNames : RingOK([R EXCEPT ![ring] = Renewed(@, k)][r])
         /\ RingsServed(R, p) /\ (\A c \in KeptBack(ring, k) : Carries(q, k, c))
              => RingsServed([R EXCEPT ![ring] = Renewed(@, k)], q)
  <1> DEFINE n == Renewed(R[ring], k)
             N == [R EXCEPT ![ring] = n]
  <1>1. RenewedRight(Devices, R[ring], k, n)
    <2>1. ticks \in 0..MaxTime
      BY DetNumbers DEF DetInv, DetTypes
    <2> QED  BY <2>1, RenewedFacts
  <1>2. n \in RingsOf(Devices) /\ RingOK(n) /\ Entries(n) \subseteq Entries(R[ring]) \cup {NewEntry(k)}
    BY <1>1 DEF RenewedRight
  <1> HIDE DEF n
  <1>3. /\ N \in [RingNames -> RingsOf(Devices)] /\ N[ring] = n
        /\ \A r \in RingNames : r # ring => N[r] = R[r]
    BY <1>2
  <1>4. \A r \in RingNames : RingOK(N[r])
    BY <1>2, <1>3
  <1>5. ASSUME RingsServed(R, p), \A c \in KeptBack(ring, k) : Carries(q, k, c)
        PROVE  RingsServed(N, q)
    <2>1. ASSUME NEW r \in RingNames, NEW x \in Entries(N[r]), NEW c \in KeptBack(r, x.key)
          PROVE  Carries(q, x.key, c) \/ Answered(x.key, c, x.ts)
      <3>1. CASE x \in Entries(R[r])
        BY <1>5, <2>1, <3>1 DEF RingsServed
      <3>2. CASE r = ring /\ x = NewEntry(k)
        BY <1>5, <2>1, <3>2 DEF NewEntry
      <3> QED  BY <1>2, <1>3, <3>1, <3>2
    <2> QED  BY <2>1 DEF RingsServed
  <1> QED  BY <1>3, <1>4, <1>5 DEF n

LEMMA MetAdded ==
  ASSUME NEW M, NEW p, NEW q, \A m, c : Carries(p, m, c) => Carries(q, m, c),
         NEW m, NEW c, MetServed(M, p), Carries(q, m, c) \/ Viewed(m, c)
  PROVE  MetServed(M \cup {<<m, c>>}, q)
  BY DEF MetServed

LEMMA PushedFacts ==
  ASSUME DetInv, NEW st, Good(st), NEW e \in DetEvents, e.what # "tracker"
  PROVE  Onward(st, Pushed(st, e))
  <1> DEFINE n == Pushed(st, e)
  <1>1. /\ st \in Works /\ n = [st EXCEPT !.out = Append(st.out, e)]
        /\ st.out \in Seq(DetEvents)
    BY WorkFields DEF Good, Pushed
  <1>2. /\ n.rings = st.rings /\ n.tags = st.tags /\ n.storm = st.storm /\ n.met = st.met
        /\ n.out = Append(st.out, e) /\ n \in Works
    BY <1>1, CarriesAdded DEF Works
  <1> HIDE DEF n
  <1>3. /\ \A m, c : Carries(st.out, m, c) => Carries(n.out, m, c)
        /\ \A m : Alerts(n.out, m) <=> Alerts(st.out, m)
    BY <1>1, <1>2, CarriesAdded
  <1>4. Good(n)
    BY <1>2 DEF Good
  <1>5. Serving(st) => Serving(n)
    BY <1>2, <1>3 DEF Serving, RingsServed, MetServed
  <1> QED  BY <1>2, <1>3, <1>4, <1>5 DEF Onward, n

\* check() and push() of a ring of one class.
LEMMA SiftFacts ==
  ASSUME DetInv, NEW st, Good(st), NEW ring \in RingNames, NEW e \in DetEvents,
         e.what # "tracker", KeptBack(ring, e.mac) = {engineClass(e.eng)}
  PROVE  Onward(st, Sift(st, ring, e))
  <1> DEFINE k == e.mac
             c == engineClass(e.eng)
             n == Sift(st, ring, e)
  <1>1. st \in Works /\ k \in Devices /\ c \in Classes
    BY ClassFacts DEF Good, DetEvents
  <1>2. /\ st.rings \in [RingNames -> RingsOf(Devices)] /\ st.out \in Seq(DetEvents)
        /\ st.met \in SUBSET (Devices \X Classes)
    BY <1>1, WorkFields
  <1>3. <<k, c>> \in Devices \X Classes
    BY <1>1
  <1>4. CASE Cooling(st.rings[ring], k, Rediscover)
    <2>1. n = [st EXCEPT !.met = st.met \cup {<<k, c>>}]
      BY <1>4 DEF Sift, Met
    <2>2. /\ n.rings = st.rings /\ n.tags = st.tags /\ n.storm = st.storm /\ n.out = st.out
          /\ n.met = st.met \cup {<<k, c>>} /\ n \in Works
      BY <1>1, <1>2, <1>3, <2>1 DEF Works
    <2>3. Good(n)
      BY <2>2 DEF Good
    <2>4. ASSUME Serving(st) PROVE Serving(n)
      <3>1. Carries(st.out, k, c) \/ Viewed(k, c)
        BY <1>1, <1>2, <1>4, <2>4, CoolingViewed DEF Serving
      <3> QED  BY <2>2, <2>4, <3>1, MetAdded DEF Serving
    <2> QED  BY <2>2, <2>3, <2>4 DEF Onward
  <1>5. CASE ~Cooling(st.rings[ring], k, Rediscover)
    <2> DEFINE R == [st.rings EXCEPT ![ring] = Renewed(@, k)]
               q == Append(st.out, e)
    <2>1. n = Pushed([Met(st, e) EXCEPT !.rings[ring] = Renewed(@, k)], e)
      BY <1>5 DEF Sift
    <2>2. Met(st, e) = [st EXCEPT !.met = st.met \cup {<<k, c>>}]
      BY DEF Met
    <2>3. /\ q \in Seq(DetEvents) /\ Carries(q, k, c)
          /\ \A m, d : Carries(st.out, m, d) => Carries(q, m, d)
          /\ \A m : Alerts(q, m) <=> Alerts(st.out, m)
      BY <1>2, CarriesAdded
    <2>4. /\ R \in [RingNames -> RingsOf(Devices)] /\ \A r \in RingNames : RingOK(R[r])
          /\ RingsServed(st.rings, st.out) => RingsServed(R, q)
      <3>1. \A d \in KeptBack(ring, k) : Carries(q, k, d)
        BY <2>3
      <3>2. \A r \in RingNames : RingOK(st.rings[r])
        BY DEF Good
      <3> HIDE DEF q
      <3> QED  BY <1>1, <1>2, <2>3, <3>1, <3>2, RingRenewed
    <2>5. n = [st EXCEPT !.met = st.met \cup {<<k, c>>}, !.rings = R, !.out = q]
      BY <1>1, <2>1, <2>2 DEF Pushed, Works
    <2> HIDE DEF R, q
    <2>6. /\ n.rings = R /\ n.tags = st.tags /\ n.storm = st.storm /\ n.out = q
          /\ n.met = st.met \cup {<<k, c>>} /\ n \in Works
      <3> DEFINE M == st.met \cup {<<k, c>>}
      <3>1. M \in SUBSET (Devices \X Classes)
        BY <1>2, <1>3
      <3> HIDE DEF M
      <3>2. n = [rings |-> R, tags |-> st.tags, storm |-> st.storm, out |-> q, met |-> M]
        BY <1>1, <2>5 DEF Works, M
      <3> HIDE DEF n
      <3>3. n \in Works
        BY <1>1, <2>3, <2>4, <3>1, <3>2, WorkFields DEF Works
      <3> QED  BY <3>2, <3>3 DEF M
    <2>7. Good(n)
      BY <2>4, <2>6 DEF Good
    <2>8. ASSUME Serving(st) PROVE Serving(n)
      BY <2>3, <2>4, <2>6, <2>8, MetAdded DEF Serving
    <2> QED  BY <2>3, <2>6, <2>7, <2>8 DEF Onward
  <1> QED  BY <1>4, <1>5

-----------------------------------------------------------------------------
(* The callbacks.                                                          *)

LEMMA AdvertFacts ==
  ASSUME DetInv, NEW a \in scene.adverts
  PROVE  a.mac \in Devices
  <1>1. scene \in Scenes
    BY DEF DetInv, DetTypes
  <1>2. a.mac \in Macs
    BY <1>1 DEF Macs
  <1> QED  BY <1>1, <1>2, AirAssumption DEF Devices

LEMMA FrameFacts ==
  ASSUME DetInv, NEW f \in scene.frames
  PROVE  /\ f.from \in Devices /\ f.to \in Macs /\ f.bss \in Macs
         /\ IsBeacon(f) => f.bss \in Devices
  <1>1. scene \in Scenes
    BY DEF DetInv, DetTypes
  <1>2. {f.from, f.to, f.bss} \subseteq Macs
    BY <1>1 DEF Macs
  <1> QED  BY <1>1, <1>2, AirAssumption DEF Devices, IsBeacon

LEMMA StartGood ==
  ASSUME DetInv
  PROVE  Good(Start) /\ (OneFace /\ ViewInv => Serving(Start))
         /\ \A m : ~Alerts(Start.out, m)
  <1>1. Start \in Works /\ Start.rings = rings /\ Start.storm = storm
        /\ Start.out = <<>> /\ Start.met = {}
    BY DEF Start, Works, DetInv, DetTypes
  <1>2. Good(Start)
    BY <1>1 DEF Good, DetInv, RingsSound
  <1>3. ASSUME OneFace, ViewInv PROVE Serving(Start)
    BY <1>1, <1>3 DEF Serving, ViewInv, RingsAnswered, RingsServed, MetServed
  <1>4. \A m : ~Alerts(Start.out, m)
    BY <1>1 DEF Alerts
  <1> QED  BY <1>2, <1>3, <1>4

LEMMA HuntFacts ==
  ASSUME DetInv, NEW st, Good(st), NEW S \in SUBSET Macs, NEW ble \in BOOLEAN
  PROVE  Onward(st, Hunt(st, S, ble))
  <1>1. CASE "FOXHUNTER" \in Active /\ Target \in S
    <2>1. Target \in Devices
      BY <1>1, AirAssumption DEF Devices
    <2>2. Event("FOXHUNTER", Target, ble, "target") \in DetEvents
          /\ Event("FOXHUNTER", Target, ble, "target").what = "target"
      BY <2>1, EventFacts DEF Engines, Kinds
    <2>3. Hunt(st, S, ble) = Pushed(st, Event("FOXHUNTER", Target, ble, "target"))
      BY <1>1 DEF Hunt
    <2> QED  BY <2>2, <2>3, PushedFacts
  <1>2. CASE ~("FOXHUNTER" \in Active /\ Target \in S)
    BY <1>2, OnwardSame DEF Hunt
  <1> QED  BY <1>1, <1>2

LEMMA SiftedFacts ==
  ASSUME DetInv, NEW st, Good(st), NEW ring \in RingNames, NEW e \in Engines, NEW m \in Devices,
         NEW b \in BOOLEAN, NEW w \in Kinds,
         KeptBack(ring, m) = {engineClass(e)}
  PROVE  Onward(st, Sift(st, ring, Event(e, m, b, w)))
  <1>1. /\ Event(e, m, b, w) \in DetEvents
        /\ Event(e, m, b, w).eng = e /\ Event(e, m, b, w).mac = m /\ Event(e, m, b, w).what = w
    BY EventFacts
  <1> QED  BY <1>1, SiftFacts DEF Kinds

LEMMA SignFacts ==
  ASSUME DetInv, NEW st, Good(st), NEW a \in scene.adverts, NEW sig \in Kinds, NEW hit
  PROVE  Onward(st, Sign(st, a, sig, hit))
  <1>1. KeptBack("sig", a.mac) = {engineClass("DETECTOR")} /\ "sig" \in RingNames
        /\ "DETECTOR" \in Engines
    BY ClassFacts DEF KeptBack, RingNames, Engines
  <1>2. Onward(st, Sift(st, "sig", Event("DETECTOR", a.mac, TRUE, sig)))
    BY <1>1, AdvertFacts, SiftedFacts DEF Kinds
  <1> QED  BY <1>2, OnwardSame DEF Sign

LEMMA WatchBleFacts ==
  ASSUME DetInv, NEW st, Good(st), NEW a \in scene.adverts
  PROVE  Onward(st, WatchBle(st, a))
  <1>1. KeptBack("detBle", a.mac) = {engineClass("DETECTOR")} /\ "detBle" \in RingNames
        /\ "DETECTOR" \in Engines
    BY ClassFacts DEF KeptBack, RingNames, Engines
  <1>2. Onward(st, Sift(st, "detBle", Event("DETECTOR", a.mac, TRUE, "watch")))
    BY <1>1, AdvertFacts, SiftedFacts DEF Kinds
  <1> QED  BY <1>2, OnwardSame DEF WatchBle

LEMMA UnipwnFacts ==
  ASSUME DetInv, NEW st, Good(st), NEW a \in scene.adverts
  PROVE  Onward(st, Unipwn(st, a))
  <1>1. KeptBack("unipwn", a.mac) = {engineClass("UNIPWN")} /\ "unipwn" \in RingNames
        /\ "UNIPWN" \in Engines
    BY ClassFacts DEF KeptBack, RingNames, Engines
  <1>2. Onward(st, Sift(st, "unipwn", Event("UNIPWN", a.mac, TRUE, "robot")))
    BY <1>1, AdvertFacts, SiftedFacts DEF Kinds
  <1> QED  BY <1>2, OnwardSame DEF Unipwn

LEMMA WatchWifiFacts ==
  ASSUME DetInv, NEW st, Good(st), NEW m \in Macs
  PROVE  Onward(st, WatchWifi(st, m))
  <1>1. KeptBack("detWifi", m) = {engineClass("DETECTOR")} /\ "detWifi" \in RingNames
        /\ "DETECTOR" \in Engines
    BY ClassFacts DEF KeptBack, RingNames, Engines
  <1>2. CASE m \in Watched
    <2>1. m \in Devices
      BY <1>2, AirAssumption DEF Devices
    <2>2. Onward(st, Sift(st, "detWifi", Event("DETECTOR", m, FALSE, "watch")))
      BY <1>1, <2>1, SiftedFacts DEF Kinds
    <2> QED  BY <1>2, <2>2 DEF WatchWifi
  <1>3. CASE m \notin Watched
    BY <1>3, OnwardSame DEF WatchWifi
  <1> QED  BY <1>2, <1>3

LEMMA FlockWifiFacts ==
  ASSUME DetInv, NEW st, Good(st), NEW f \in scene.frames, NEW ring \in {"flockWifi", "wdFlock"}
  PROVE  Onward(st, FlockWifi(st, f, ring))
  <1> DEFINE m == FlockAddress(f)
  <1>1. KeptBack(ring, m) = {engineClass("FLOCK_WIFI")} /\ ring \in RingNames
        /\ "FLOCK_WIFI" \in Engines
    BY ClassFacts DEF KeptBack, RingNames, Engines
  <1>2. m \in Macs \cup {NoMac}
    BY FrameFacts DEF FlockAddress, Devices
  <1>3. CASE "FLOCK_WIFI" \in Active /\ m # NoMac
    <2>1. m \in Devices
      BY <1>2, <1>3 DEF Devices
    <2> HIDE DEF m
    <2>2. Onward(st, Sift(st, ring, Event("FLOCK_WIFI", m, FALSE, "flock")))
      BY <1>1, <2>1, SiftedFacts DEF Kinds
    <2> QED  BY <1>3, <2>2 DEF FlockWifi, m
  <1>4. CASE ~("FLOCK_WIFI" \in Active /\ m # NoMac)
    BY <1>4, OnwardSame DEF FlockWifi
  <1> QED  BY <1>3, <1>4

LEMMA NamedFrameFacts ==
  ASSUME DetInv, NEW st, Good(st), NEW f \in scene.frames, NEW what \in {"probe", "axon"}
  PROVE  Onward(st, Sift(st, what, Event("DETECTOR", f.from, FALSE, what)))
  <1>1. KeptBack(what, f.from) = {engineClass("DETECTOR")} /\ what \in RingNames
        /\ "DETECTOR" \in Engines
    BY ClassFacts DEF KeptBack, RingNames, Engines
  <1> QED  BY <1>1, FrameFacts, SiftedFacts DEF Kinds

\* A storm is noticed when it begins, unless the last one was a moment ago.
LEMMA StormFacts ==
  ASSUME DetInv, NEW st, Good(st), NEW f \in scene.frames
  PROVE  Onward(st, Storm(st, f))
  <1> DEFINE w == IF ticks - storm.start > 1 THEN [storm EXCEPT !.start = ticks, !.count = 0]
                                             ELSE storm
             c == [w EXCEPT !.count = IF @ < StormFrames THEN @ + 1 ELSE @]
             alert == c.count >= StormFrames /\ ticks - c.alert > StormCooldown
             z == IF alert THEN [c EXCEPT !.alert = ticks] ELSE c
             s == [st EXCEPT !.storm = z]
             e == Event("DETECTOR", f.from, FALSE, "deauth")
  <1>1. Storm(st, f) = IF alert THEN Pushed(s, e) ELSE s
    BY Zenon DEF Storm
  <1>2. storm \in Storms /\ ticks \in 0..MaxTime /\ ticks \in Boot..MaxTime
    BY DetNumbers DEF DetInv, DetTypes
  <1>3. /\ w \in Storms /\ w.alert = storm.alert
        /\ (w.start = storm.start \/ w.start = ticks)
    <2>1. 0 \in 0..StormFrames
      BY DetNumbers
    <2>2. storm \in [start : 0..MaxTime, count : 0..StormFrames, alert : 0..MaxTime]
      BY <1>2 DEF Storms
    <2>3. CASE ticks - storm.start > 1
      <3>1. w = [storm EXCEPT !.start = ticks, !.count = 0]
        BY <2>3
      <3> HIDE DEF w
      <3>2. w.start = ticks /\ w.alert = storm.alert
        BY <2>2, <3>1
      <3>3. w \in [start : 0..MaxTime, count : 0..StormFrames, alert : 0..MaxTime]
        BY <1>2, <2>1, <2>2, <3>1
      <3> QED  BY <3>2, <3>3 DEF Storms
    <2>4. CASE ~(ticks - storm.start > 1)
      BY <1>2, <2>4
    <2> QED  BY <2>3, <2>4
  <1> HIDE DEF w
  <1>4. /\ c \in Storms /\ c.alert = storm.alert /\ c.start = w.start
    BY <1>3, DetNumbers DEF Storms
  <1> HIDE DEF c
  <1>5. /\ z \in Storms /\ z.count = c.count /\ z.start = w.start
        /\ z.alert = IF alert THEN ticks ELSE storm.alert
    BY <1>2, <1>4 DEF Storms
  <1>6. ASSUME Boot > StormCooldown, StormSound(storm) PROVE StormSound(z)
    <2>1. /\ ticks \in Nat /\ storm.start \in Nat /\ storm.alert \in Nat /\ c.count \in Nat
          /\ StormCooldown \in Nat /\ StormFrames \in Nat /\ ticks > StormCooldown
          /\ storm.start <= ticks /\ storm.alert <= ticks
      BY <1>2, <1>4, <1>6, DetNumbers DEF Storms, StormSound
    <2>2. z.start <= ticks /\ z.start \in Nat
      BY <1>3, <1>5, <2>1
    <2>3. CASE alert
      <3>1. z.alert = ticks
        BY <1>5, <2>3
      <3> HIDE DEF z
      <3> QED  BY <2>1, <2>2, <3>1 DEF StormSound
    <2>4. CASE ~alert
      <3>1. z.alert = storm.alert /\ z.count = c.count
        BY <1>5, <2>4
      <3>2. ASSUME c.count >= StormFrames PROVE ticks - storm.alert <= StormCooldown
        BY <1>4, <2>1, <2>4, <3>2
      <3> HIDE DEF z, alert
      <3> QED  BY <2>1, <2>2, <3>1, <3>2 DEF StormSound
    <2> QED  BY <2>3, <2>4
  <1> HIDE DEF z, alert
  <1>7. st \in Works
    BY DEF Good
  <1>8. /\ s.rings = st.rings /\ s.tags = st.tags /\ s.storm = z /\ s.out = st.out
        /\ s.met = st.met /\ s \in Works
    BY <1>5, <1>7 DEF Works
  <1> HIDE DEF s
  <1>9. Onward(st, s)
    BY <1>6, <1>8 DEF Onward, Good, Serving
  <1>10. Onward(s, Pushed(s, e))
    <2>1. e \in DetEvents /\ e.what # "tracker"
      <3>1. /\ "DETECTOR" \in Engines /\ f.from \in Devices /\ FALSE \in BOOLEAN
            /\ "deauth" \in Kinds \cup {"tracker"}
        <4>1. "DETECTOR" \in Engines
          BY DEF Engines
        <4>2. "deauth" \in Kinds
          BY DEF Kinds
        <4> QED  BY <4>1, <4>2, FrameFacts
      <3>2. e \in DetEvents /\ e.what = "deauth"
        BY <3>1 DEF Event, DetEvents
      <3> QED  BY <3>2
    <2> HIDE DEF e
    <2> QED  BY <1>9, <2>1, PushedFacts DEF Onward
  <1> QED  BY <1>1, <1>9, <1>10, OnwardChain

LEMMA SigFrameFacts ==
  ASSUME DetInv, NEW st, Good(st), NEW f \in scene.frames
  PROVE  Onward(st, SigFrame(st, f))
  BY StormFacts, NamedFrameFacts, OnwardSame DEF SigFrame

LEMMA OwnSniffersFacts ==
  ASSUME DetInv, NEW f \in scene.frames
  PROVE  Onward(Start, OwnSniffers(f))
  <1> DEFINE sig == IF "DETECTOR" \in Active THEN SigFrame(Start, f) ELSE Start
             det == IF "DETECTOR" \in Active /\ ~Taken(f) THEN WatchWifi(sig, f.from) ELSE sig
             flk == FlockWifi(det, f, "flockWifi")
  <1>1. OwnSniffers(f) = Hunt(flk, {f.from, f.to, f.bss}, FALSE)
    BY DEF OwnSniffers
  <1>2. {f.from, f.to, f.bss} \in SUBSET Macs
    BY FrameFacts DEF Devices
  <1>3. Onward(Start, sig)
    BY StartGood, SigFrameFacts, OnwardSame
  <1>4. Good(sig)
    BY <1>3 DEF Onward
  <1> HIDE DEF sig
  <1>5. Onward(sig, det)
    BY <1>2, <1>4, WatchWifiFacts, OnwardSame
  <1>6. Good(det)
    BY <1>5 DEF Onward
  <1> HIDE DEF det
  <1>7. Onward(det, flk)
    BY <1>6, FlockWifiFacts
  <1>8. Good(flk)
    BY <1>7 DEF Onward
  <1> HIDE DEF flk
  <1>9. Onward(flk, OwnSniffers(f))
    BY <1>1, <1>2, <1>8, HuntFacts
  <1> QED  BY <1>3, <1>5, <1>7, <1>9, OnwardChain

LEMMA WardriveWifiFacts ==
  ASSUME DetInv, NEW f \in scene.frames
  PROVE  Onward(Start, WardriveWifi(f))
  <1> DEFINE flk == FlockWifi(Start, f, "wdFlock")
             sig == SigFrame(flk, f)
             snd == WatchWifi(sig, f.from)
             rcv == WatchWifi(snd, f.to)
             bss == IF IsMgmt(f) THEN WatchWifi(rcv, f.bss) ELSE rcv
             det == IF "DETECTOR" \in Active THEN bss ELSE flk
             fox == Hunt(det, {f.from, f.to, f.bss}, FALSE)
             evt == Event("WARDRIVE", f.bss, FALSE, IF f.bss \in Fleet THEN "fleet" ELSE "network")
  <1>1. WardriveWifi(f) = IF IsBeacon(f) THEN Sift(fox, "wdWifi", evt) ELSE fox
    BY DEF WardriveWifi
  <1>2. /\ {f.from, f.to, f.bss} \in SUBSET Macs /\ f.from \in Macs /\ f.to \in Macs /\ f.bss \in Macs
        /\ IsBeacon(f) => f.bss \in Devices
    BY FrameFacts DEF Devices
  <1>3. Onward(Start, flk) /\ Good(flk)
    BY StartGood, FlockWifiFacts DEF Onward
  <1> HIDE DEF flk
  <1>4. Onward(flk, sig) /\ Good(sig)
    BY <1>3, SigFrameFacts DEF Onward
  <1> HIDE DEF sig
  <1>5. Onward(sig, snd) /\ Good(snd)
    BY <1>2, <1>4, WatchWifiFacts DEF Onward
  <1> HIDE DEF snd
  <1>6. Onward(snd, rcv) /\ Good(rcv)
    BY <1>2, <1>5, WatchWifiFacts DEF Onward
  <1> HIDE DEF rcv
  <1>7. Onward(rcv, bss) /\ Good(bss)
    BY <1>2, <1>6, WatchWifiFacts, OnwardSame DEF Onward
  <1> HIDE DEF bss
  <1>8. Onward(Start, det) /\ Good(det)
    <2>1. Onward(Start, bss)
      BY <1>3, <1>4, <1>5, <1>6, <1>7, OnwardChain
    <2> QED  BY <1>3, <1>7, <2>1
  <1> HIDE DEF det
  <1>9. Onward(det, fox) /\ Good(fox)
    BY <1>2, <1>8, HuntFacts DEF Onward
  <1>10. Onward(Start, fox)
    BY <1>8, <1>9, OnwardChain
  <1> HIDE DEF fox
  <1>11. ASSUME IsBeacon(f) PROVE Onward(fox, Sift(fox, "wdWifi", evt))
    <2>1. KeptBack("wdWifi", f.bss) = {engineClass("WARDRIVE")} /\ "wdWifi" \in RingNames
          /\ "WARDRIVE" \in Engines
      BY ClassFacts DEF KeptBack, RingNames, Engines
    <2>2. (IF f.bss \in Fleet THEN "fleet" ELSE "network") \in Kinds
      BY DEF Kinds
    <2> QED  BY <1>2, <1>9, <1>11, <2>1, <2>2, SiftedFacts
  <1> HIDE DEF evt
  <1>12. CASE IsBeacon(f)
    BY <1>1, <1>10, <1>11, <1>12, OnwardChain
  <1>13. CASE ~IsBeacon(f)
    BY <1>1, <1>10, <1>13
  <1> QED  BY <1>12, <1>13

\* The slot of the tag, if it has one; else one that is free, if there is one.
LEMMA TagSlotFacts ==
  ASSUME NEW ts \in [1..TagSlots -> TagRecords], NEW m
  PROVE  /\ TagSlot(ts, m) \in 1..TagSlots
         /\ (\E i \in 1..TagSlots : ts[i].hits > 0 /\ ~Gone(ts[i]) /\ ts[i].mac = m)
              => LET t == ts[TagSlot(ts, m)] IN t.hits > 0 /\ ~Gone(t) /\ t.mac = m
         /\ (\E i \in 1..TagSlots : ts[i].hits = 0 \/ Gone(ts[i]))
              => LET t == ts[TagSlot(ts, m)]
                 IN  (t.hits > 0 /\ ~Gone(t) /\ t.mac = m) \/ t.hits = 0 \/ Gone(t)
  <1> DEFINE own  == {i \in DOMAIN ts : ts[i].hits > 0 /\ ~Gone(ts[i]) /\ ts[i].mac = m}
             free == {i \in DOMAIN ts : ts[i].hits = 0 \/ Gone(ts[i])}
             old  == {i \in DOMAIN ts : \A j \in DOMAIN ts : ts[i].seen <= ts[j].seen}
             pick == IF own # {} THEN own ELSE IF free # {} THEN free ELSE old
  <1>1. TagSlot(ts, m) = First(pick)
    BY DEF TagSlot, First
  <1>2. DOMAIN ts = 1..TagSlots /\ TagSlots \in Nat \ {0} /\ 1 \in 1..TagSlots
        /\ 1..TagSlots \subseteq Nat
    BY DetNumbers
  <1>3. own \subseteq 1..TagSlots /\ free \subseteq 1..TagSlots /\ old \subseteq 1..TagSlots
    BY <1>2
  <1>4. old # {}
    <2> DEFINE S == {ts[i].seen : i \in 1..TagSlots}
    <2>1. S \subseteq Nat /\ S # {}
      <3>1. \A i \in 1..TagSlots : ts[i].seen \in Nat
        BY DetNumbers DEF TagRecords
      <3> QED  BY <1>2, <3>1
    <2>2. First(S) \in S /\ \A n \in S : First(S) <= n
      BY <2>1, FirstIsOne
    <2>3. PICK i \in 1..TagSlots : ts[i].seen = First(S)
      BY <2>2
    <2>4. \A j \in 1..TagSlots : ts[i].seen <= ts[j].seen
      BY <2>2, <2>3
    <2> QED  BY <1>2, <2>4
  <1>5. pick \subseteq Nat /\ pick # {} /\ pick \subseteq 1..TagSlots
    BY <1>2, <1>3, <1>4
  <1>6. First(pick) \in pick
    BY <1>5, FirstIsOne
  <1>7. TagSlot(ts, m) \in 1..TagSlots
    BY <1>1, <1>5, <1>6
  <1>8. own # {} => TagSlot(ts, m) \in own
    BY <1>1, <1>6
  <1>9. own = {} /\ free # {} => TagSlot(ts, m) \in free
    BY <1>1, <1>6
  <1> HIDE DEF pick
  <1> QED  BY <1>2, <1>7, <1>8, <1>9

\* What findMyObserve leaves of a tag.
Follower(t) == ~t.alerted /\ t.hits >= TagHits /\ ticks - t.first >= TagPersist
Marked(t) == [t EXCEPT !.alerted = @ \/ Follower(t)]

LEMMA ObservedFacts ==
  ASSUME NEW t \in TagRecords, NEW m \in Devices, ticks \in 0..MaxTime
  PROVE  /\ Observed(t, m) \in TagRecords /\ Marked(Observed(t, m)) \in TagRecords
         /\ Observed(t, m).mac = m /\ Observed(t, m).seen = ticks
         /\ Marked(Observed(t, m)).alerted = (Observed(t, m).alerted \/ Follower(Observed(t, m)))
         /\ Marked(Observed(t, m)).hits = Observed(t, m).hits
         /\ Marked(Observed(t, m)).first = Observed(t, m).first
         /\ Marked(Observed(t, m)).mac = m /\ Marked(Observed(t, m)).seen = ticks
  <1> DEFINE o == Observed(t, m)
  <1>1. t \in [mac : Devices \cup {NoMac}, first : 0..MaxTime, seen : 0..MaxTime,
               hits : 0..TagHits, alerted : BOOLEAN]
    BY DEF TagRecords
  <1>2. o \in TagRecords /\ o.mac = m /\ o.seen = ticks
    <2>1. CASE t.mac = m /\ t.hits > 0 /\ ~Gone(t)
      <3>1. o = [t EXCEPT !.seen = ticks, !.hits = IF @ < TagHits THEN @ + 1 ELSE @]
        BY <2>1 DEF Observed
      <3>2. (IF t.hits < TagHits THEN t.hits + 1 ELSE t.hits) \in 0..TagHits
        BY <1>1, DetNumbers
      <3> HIDE DEF o
      <3> QED  BY <1>1, <2>1, <3>1, <3>2 DEF TagRecords
    <2>2. CASE ~(t.mac = m /\ t.hits > 0 /\ ~Gone(t))
      <3>1. o = [mac |-> m, first |-> ticks, seen |-> ticks, hits |-> 1, alerted |-> FALSE]
        BY <2>2 DEF Observed
      <3>2. 1 \in 0..TagHits /\ FALSE \in BOOLEAN
        BY DetNumbers
      <3> HIDE DEF o
      <3> QED  BY <3>1, <3>2 DEF TagRecords
    <2> QED  BY <2>1, <2>2
  <1> HIDE DEF o
  <1>3. Marked(o) = [o EXCEPT !.alerted = o.alerted \/ Follower(o)]
    BY DEF Marked
  <1>4. (o.alerted \/ Follower(o)) \in BOOLEAN
    OBVIOUS
  <1>5. Marked(o) \in TagRecords
    BY <1>2, <1>3, <1>4 DEF TagRecords
  <1>6. /\ Marked(o).alerted = (o.alerted \/ Follower(o)) /\ Marked(o).hits = o.hits
        /\ Marked(o).first = o.first /\ Marked(o).mac = o.mac /\ Marked(o).seen = o.seen
    BY <1>2, <1>3 DEF TagRecords
  <1> QED  BY <1>2, <1>5, <1>6 DEF o

LEMMA FindMyFacts ==
  ASSUME DetInv, NEW st, Good(st), NEW m \in Devices, NEW o,
         o = Observed(st.tags[TagSlot(st.tags, m)], m)
  PROVE  LET n == findMyObserve(st, m)
         IN  /\ Good(n) /\ (Serving(st) => Serving(n))
             /\ n.tags = [st.tags EXCEPT ![TagSlot(st.tags, m)] = Marked(o)]
             /\ \A x : Alerts(n.out, x) <=> Alerts(st.out, x) \/ (Follower(o) /\ x = m)
  <1> DEFINE i == TagSlot(st.tags, m)
             T == [st.tags EXCEPT ![i] = Marked(o)]
             s == [st EXCEPT !.tags = T]
             e == Event("DETECTOR", m, TRUE, "tracker")
             n == findMyObserve(st, m)
  <1>1. st \in Works /\ st.tags \in [1..TagSlots -> TagRecords] /\ st.out \in Seq(DetEvents)
    BY WorkFields DEF Good
  <1>2. i \in 1..TagSlots /\ st.tags[i] \in TagRecords
    BY <1>1, TagSlotFacts
  <1>3. ticks \in 0..MaxTime
    BY DetNumbers DEF DetInv, DetTypes
  <1>4. Marked(o) \in TagRecords
    BY <1>2, <1>3, ObservedFacts
  <1>5. T \in [1..TagSlots -> TagRecords]
    BY <1>1, <1>2, <1>4
  <1>6. n = IF Follower(o) THEN Pushed(s, e) ELSE s
    <2>1. s = [st EXCEPT !.tags[i] = [o EXCEPT !.alerted = @ \/ Follower(o)]]
      BY <1>1 DEF Marked, Works
    <2> QED  BY <2>1 DEF findMyObserve, Follower
  <1> HIDE DEF T, i
  <1>7. /\ s.rings = st.rings /\ s.tags = T /\ s.storm = st.storm /\ s.out = st.out
        /\ s.met = st.met /\ s \in Works
    BY <1>1, <1>5 DEF Works
  <1>8. e \in DetEvents /\ e.what = "tracker" /\ e.mac = m /\ e.eng = "DETECTOR"
    BY DEF Event, DetEvents, Engines
  <1> HIDE DEF s, e
  <1>9. Good(s) /\ (Serving(st) => Serving(s))
    BY <1>7 DEF Good, Serving
  <1>10. CASE ~Follower(o)
    BY <1>6, <1>7, <1>9, <1>10 DEF T, i
  <1>11. CASE Follower(o)
    <2>1. Pushed(s, e) = [s EXCEPT !.out = Append(st.out, e)]
      BY <1>7 DEF Pushed
    <2>2. /\ Append(st.out, e) \in Seq(DetEvents)
          /\ \A x, c : Carries(st.out, x, c) => Carries(Append(st.out, e), x, c)
          /\ \A x : Alerts(Append(st.out, e), x) <=> Alerts(st.out, x) \/ x = m
      BY <1>1, <1>8, CarriesAdded, Zenon
    <2> DEFINE q == Append(st.out, e)
    <2> HIDE DEF q
    <2>3. n = [s EXCEPT !.out = q]
      BY <1>6, <1>11, <2>1 DEF q
    <2> HIDE DEF n
    <2>4. /\ n.rings = st.rings /\ n.tags = T /\ n.storm = st.storm /\ n.out = q
          /\ n.met = st.met /\ n \in Works
      BY <1>7, <2>2, <2>3 DEF Works, q
    <2>5. Good(n)
      BY <2>4 DEF Good
    <2>6. Serving(st) => Serving(n)
      BY <2>2, <2>4 DEF Serving, RingsServed, MetServed, q
    <2> QED  BY <1>11, <2>2, <2>4, <2>5, <2>6 DEF T, i, q, n
  <1> QED  BY <1>10, <1>11

\* What DETECTOR makes of an advertisement before anybody else.
Seen(a) == IF "DETECTOR" \in Active THEN Signatures(Start, a) ELSE Start

\* A Find My tag is observed, and its alert is the only one; nothing else
\* touches the tags.
TagResult(a, st) ==
  IF Follows /\ "findMy" \in a.has
    THEN LET i == TagSlot(tags, a.mac)
             o == Observed(tags[i], a.mac)
         IN  /\ st.tags = [tags EXCEPT ![i] = Marked(o)]
             /\ \A x : Alerts(st.out, x) <=> Follower(o) /\ x = a.mac
    ELSE st.tags = tags /\ \A x : ~Alerts(st.out, x)

LEMMA OnwardTags ==
  ASSUME NEW a, NEW st, NEW n, TagResult(a, st), Onward(st, n)
  PROVE  TagResult(a, n)
  BY DEF TagResult, Onward

LEMMA SeenFacts ==
  ASSUME DetInv, NEW a \in scene.adverts
  PROVE  /\ Good(Seen(a)) /\ TagResult(a, Seen(a))
         /\ OneFace /\ ViewInv => Serving(Seen(a))
  <1>1. /\ Good(Start) /\ (OneFace /\ ViewInv => Serving(Start)) /\ \A m : ~Alerts(Start.out, m)
    BY StartGood
  <1>2. Start.tags = tags /\ a.mac \in Devices
    BY AdvertFacts DEF Start
  <1> HIDE DEF Start
  <1>3. CASE "DETECTOR" \in Active /\ "findMy" \in a.has /\ "tracker" \in SigMask
    <2> DEFINE o == Observed(tags[TagSlot(tags, a.mac)], a.mac)
    <2>1. Seen(a) = findMyObserve(Start, a.mac)
      BY <1>3 DEF Seen, Signatures
    <2> HIDE DEF o
    <2>2. LET n == findMyObserve(Start, a.mac)
          IN  /\ Good(n) /\ (Serving(Start) => Serving(n))
              /\ n.tags = [tags EXCEPT ![TagSlot(tags, a.mac)] = Marked(o)]
              /\ \A x : Alerts(n.out, x) <=> Alerts(Start.out, x) \/ (Follower(o) /\ x = a.mac)
      BY <1>1, <1>2, FindMyFacts, SMTT(30) DEF o
    <2> QED  BY <1>1, <1>3, <2>1, <2>2 DEF TagResult, Follows, o
  <1>4. CASE "DETECTOR" \in Active /\ "findMy" \in a.has /\ "tracker" \notin SigMask
    BY <1>1, <1>2, <1>4 DEF Seen, Signatures, TagResult, Follows
  <1>5. CASE "DETECTOR" \in Active /\ "findMy" \notin a.has
    <2> DEFINE f == Sign(Start, a, "flipper", "flipper" \in a.has)
               g == Sign(f, a, "glasses", "meta" \in a.has)
               x == Sign(g, a, "axon", a.mac \in AxonMacs)
    <2>1. Seen(a) = x
      BY <1>5 DEF Seen, Signatures
    <2>2. {"flipper", "glasses", "axon"} \subseteq Kinds
      BY DEF Kinds
    <2>3. Onward(Start, f) /\ Good(f)
      BY <1>1, <2>2, SignFacts DEF Onward
    <2> HIDE DEF f
    <2>4. Onward(f, g) /\ Good(g)
      BY <2>2, <2>3, SignFacts, ZenonT(40) DEF Onward
    <2> HIDE DEF g
    <2>5. Onward(g, x)
      BY <2>2, <2>4, SignFacts
    <2> HIDE DEF x
    <2>6. Onward(Start, x)
      BY <2>3, <2>4, <2>5, OnwardChain
    <2> QED  BY <1>1, <1>2, <1>5, <2>1, <2>6 DEF Onward, TagResult
  <1>6. CASE "DETECTOR" \notin Active
    BY <1>1, <1>2, <1>6 DEF Seen, TagResult, Follows
  <1> QED  BY <1>3, <1>4, <1>5, <1>6

LEMMA OwnCallbacksFacts ==
  ASSUME DetInv, NEW a \in scene.adverts
  PROVE  Onward(Seen(a), OwnCallbacks(a))
  <1> DEFINE det == IF "DETECTOR" \in Active THEN WatchBle(Signatures(Start, a), a) ELSE Start
             flk == IF "FLOCK_BLE" \in Active /\ LooksFlock(a)
                      THEN Sift(det, "flockBle", Event("FLOCK_BLE", a.mac, TRUE, "flock")) ELSE det
             fox == Hunt(flk, {a.mac}, TRUE)
  <1>1. OwnCallbacks(a) = Unipwn(fox, a)
    BY DEF OwnCallbacks
  <1>2. a.mac \in Devices /\ {a.mac} \in SUBSET Macs /\ Good(Seen(a)) /\ TRUE \in BOOLEAN
    BY AdvertFacts, SeenFacts DEF Devices
  <1>3. det = IF "DETECTOR" \in Active THEN WatchBle(Seen(a), a) ELSE Seen(a)
    BY DEF Seen
  <1> HIDE DEF det
  <1>4. Onward(Seen(a), det) /\ Good(det)
    BY <1>2, <1>3, WatchBleFacts, OnwardSame DEF Onward
  <1>5. Onward(det, flk) /\ Good(flk)
    <2>1. KeptBack("flockBle", a.mac) = {engineClass("FLOCK_BLE")} /\ "flockBle" \in RingNames
          /\ "FLOCK_BLE" \in Engines /\ "flock" \in Kinds
      BY ClassFacts DEF KeptBack, RingNames, Engines, Kinds
    <2>2. Onward(det, Sift(det, "flockBle", Event("FLOCK_BLE", a.mac, TRUE, "flock")))
      BY <1>2, <1>4, <2>1, SiftedFacts DEF Kinds
    <2> QED  BY <1>4, <2>2, OnwardSame DEF Onward
  <1> HIDE DEF flk
  <1>6. Onward(flk, fox) /\ Good(fox)
    BY <1>2, <1>5, HuntFacts DEF Onward
  <1> HIDE DEF fox
  <1>7. Onward(fox, OwnCallbacks(a))
    BY <1>1, <1>6, UnipwnFacts
  <1> QED  BY <1>4, <1>5, <1>6, <1>7, OnwardChain

\* WARDRIVE has met the device and tells it, with FLOCK_BLE when it looks so;
\* what its ring keeps back it has told then.
LEMMA WardriveBleFacts ==
  ASSUME DetInv, NEW a \in scene.adverts
  PROVE  Onward(Seen(a), WardriveBle(a))
  <1> DEFINE sig == Seen(a)
             k == a.mac
             fev == Event("FLOCK_BLE", k, TRUE, "flock")
             kind == IF k \in Fleet THEN "fleet" ELSE "device"
             wev == Event("WARDRIVE", k, TRUE, kind)
             isF == "FLOCK_BLE" \in Active /\ LooksFlock(a)
             met == IF isF THEN Met(sig, fev) ELSE sig
             new == [met EXCEPT !.rings["wdBle"] = Renewed(@, k)]
             flk == IF isF THEN Pushed(new, fev) ELSE new
             wdr == Met(Pushed(flk, wev), wev)
             det == IF "DETECTOR" \in Active THEN WatchBle(wdr, a) ELSE wdr
             M == sig.met \cup (IF isF THEN {<<k, 1>>} ELSE {})
             N == M \cup {<<k, 3>>}
  <1>1. WardriveBle(a) = IF Cooling(sig.rings["wdBle"], k, Rediscover)
                           THEN Met(met, wev) ELSE Hunt(det, {k}, TRUE)
    BY Zenon DEF WardriveBle, Seen
  <1>2. k \in Devices /\ {k} \in SUBSET Macs /\ Good(sig) /\ sig \in Works /\ "wdBle" \in RingNames
        /\ TRUE \in BOOLEAN
    BY AdvertFacts, SeenFacts DEF Devices, Good, RingNames
  <1>3. /\ sig.rings \in [RingNames -> RingsOf(Devices)] /\ sig.out \in Seq(DetEvents)
        /\ sig.met \in SUBSET (Devices \X Classes) /\ sig.storm \in Storms
        /\ sig.tags \in [1..TagSlots -> TagRecords]
        /\ \A r \in RingNames : RingOK(sig.rings[r])
    BY <1>2, WorkFields DEF Good
  <1>4. /\ fev \in DetEvents /\ fev.mac = k /\ fev.eng = "FLOCK_BLE" /\ fev.what = "flock"
        /\ wev \in DetEvents /\ wev.mac = k /\ wev.eng = "WARDRIVE" /\ wev.what # "tracker"
    <2>1. kind \in Kinds /\ "flock" \in Kinds \cup {"tracker"} /\ {"FLOCK_BLE", "WARDRIVE"} \subseteq Engines
          /\ \A w \in Kinds : w # "tracker"
      BY DEF Kinds, Engines
    <2> HIDE DEF kind
    <2> QED  BY <1>2, <2>1 DEF Event, DetEvents
  <1>5. engineClass(fev.eng) = 1 /\ engineClass(wev.eng) = 3
    BY <1>4, ClassFacts
  <1> HIDE DEF sig, fev, wev, k, kind
  <1>6. met = [sig EXCEPT !.met = M] /\ M \in SUBSET (Devices \X Classes)
    <2>1. <<k, 1>> \in Devices \X Classes
      BY <1>2 DEF Classes
    <2>2. M \in SUBSET (Devices \X Classes)
      BY <1>3, <2>1
    <2>3. CASE isF
      BY <1>4, <1>5, <2>2, <2>3 DEF Met
    <2>4. CASE ~isF
      <3>1. M = sig.met
        BY <2>4
      <3> QED  BY <1>2, <2>2, <2>4, <3>1 DEF Works
    <2> QED  BY <2>3, <2>4
  <1>7. N \in SUBSET (Devices \X Classes)
    BY <1>2, <1>6 DEF Classes
  <1>8. /\ 3 \in KeptBack("wdBle", k) /\ 3 \in Classes /\ 1 \in Classes
        /\ isF => 1 \in KeptBack("wdBle", k)
        /\ OneFace => \A c \in KeptBack("wdBle", k) : c = 3 \/ (isF /\ c = 1)
    <2>1. isF => FlockSeen(k)
      BY DEF FlockSeen, k
    <2>2. OneFace /\ FlockSeen(k) => isF
      BY DEF OneFace, FlockSeen, k, DetInv, DetTypes
    <2> HIDE DEF isF
    <2> QED  BY <2>1, <2>2 DEF KeptBack, Classes
  <1>9. CASE Cooling(sig.rings["wdBle"], k, Rediscover)
    <2> DEFINE n == Met(met, wev)
    <2>1. n = [sig EXCEPT !.met = N]
      BY <1>2, <1>4, <1>5, <1>6 DEF Met, Works
    <2> HIDE DEF N, n
    <2>2. /\ n.rings = sig.rings /\ n.tags = sig.tags /\ n.storm = sig.storm /\ n.out = sig.out
          /\ n.met = N /\ n \in Works
      BY <1>2, <1>7, <2>1 DEF Works
    <2>3. Good(n)
      BY <1>2, <2>2 DEF Good
    <2>4. ASSUME Serving(sig) PROVE Serving(n)
      <3>1. /\ Carries(sig.out, k, 3) \/ Viewed(k, 3)
            /\ isF => Carries(sig.out, k, 1) \/ Viewed(k, 1)
        BY <1>2, <1>3, <1>8, <1>9, <2>4, CoolingViewed DEF Serving
      <3>2. MetServed(N, sig.out)
        BY <2>4, <3>1 DEF Serving, MetServed, N
      <3> QED  BY <2>2, <2>4, <3>2 DEF Serving
    <2> QED  BY <1>1, <1>9, <2>2, <2>3, <2>4 DEF Onward, n, sig
  <1>10. CASE ~Cooling(sig.rings["wdBle"], k, Rediscover)
    <2> DEFINE R == [sig.rings EXCEPT !["wdBle"] = Renewed(@, k)]
               p == IF isF THEN Append(sig.out, fev) ELSE sig.out
               q == Append(p, wev)
    <2>1. /\ p \in Seq(DetEvents)
          /\ \A m, c : Carries(sig.out, m, c) => Carries(p, m, c)
          /\ isF => Carries(p, k, 1)
          /\ \A m : Alerts(p, m) <=> Alerts(sig.out, m)
      <3>1. CASE isF
        BY <1>3, <1>4, <1>5, <3>1, CarriesAdded
      <3>2. CASE ~isF
        BY <1>3, <3>2
      <3> QED  BY <3>1, <3>2
    <2> HIDE DEF p
    <2>2. /\ q \in Seq(DetEvents)
          /\ \A m, c : Carries(p, m, c) => Carries(q, m, c)
          /\ Carries(q, k, 3)
          /\ \A m : Alerts(q, m) <=> Alerts(p, m)
      BY <1>4, <1>5, <2>1, CarriesAdded
    <2> HIDE DEF q, N, M
    <2>3. /\ R \in [RingNames -> RingsOf(Devices)] /\ \A r \in RingNames : RingOK(R[r])
          /\ RingsServed(sig.rings, sig.out) /\ (\A c \in KeptBack("wdBle", k) : Carries(q, k, c))
               => RingsServed(R, q)
      <3>1. \A m, c : Carries(sig.out, m, c) => Carries(q, m, c)
        BY <2>1, <2>2
      <3> QED  BY <1>2, <1>3, <3>1, RingRenewed
    <2>4. new = [rings |-> R, tags |-> sig.tags, storm |-> sig.storm, out |-> sig.out, met |-> M]
      BY <1>2, <1>3, <1>6 DEF Works
    <2> HIDE DEF new, R, met
    <2>5. flk = [rings |-> R, tags |-> sig.tags, storm |-> sig.storm, out |-> p, met |-> M]
      BY <2>4 DEF Pushed, p
    <2> HIDE DEF flk
    <2>6. wdr = [rings |-> R, tags |-> sig.tags, storm |-> sig.storm, out |-> q, met |-> N]
      <3> DEFINE z == Pushed(flk, wev)
      <3>1. z = [rings |-> R, tags |-> sig.tags, storm |-> sig.storm, out |-> q, met |-> M]
        BY <2>5 DEF Pushed, q
      <3>2. wdr = [z EXCEPT !.met = @ \cup {<<wev.mac, engineClass(wev.eng)>>}]
        BY DEF wdr, Met
      <3> HIDE DEF z
      <3> QED  BY <1>4, <1>5, <3>1, <3>2 DEF N
    <2> HIDE DEF wdr
    <2>7. wdr \in Works
      BY <1>3, <1>7, <2>2, <2>3, <2>6 DEF Works
    <2>8. Good(wdr)
      BY <1>2, <2>3, <2>6, <2>7 DEF Good
    <2>9. ASSUME Serving(sig) PROVE Serving(wdr)
      <3>1. \A c \in KeptBack("wdBle", k) : Carries(q, k, c)
        <4>1. \A c \in KeptBack("wdBle", k) : c = 3 \/ (isF /\ c = 1)
          BY <1>8, <2>9 DEF Serving
        <4>2. Carries(q, k, 3) /\ (isF => Carries(q, k, 1))
          BY <2>1, <2>2
        <4> HIDE DEF isF
        <4> QED  BY <4>1, <4>2
      <3>2. RingsServed(R, q)
        BY <2>3, <2>9, <3>1 DEF Serving
      <3>3. MetServed(N, q)
        BY <2>1, <2>2, <2>9 DEF Serving, MetServed, N, M
      <3> QED  BY <2>6, <2>9, <3>2, <3>3 DEF Serving
    <2>10. Onward(sig, wdr)
      BY <2>1, <2>2, <2>6, <2>8, <2>9 DEF Onward
    <2>11. Onward(wdr, det) /\ Good(det)
      BY <2>8, WatchBleFacts, OnwardSame DEF Onward
    <2> HIDE DEF det
    <2>12. Onward(det, Hunt(det, {k}, TRUE))
      BY <1>2, <2>11, HuntFacts
    <2> QED  BY <1>1, <1>10, <2>10, <2>11, <2>12, OnwardChain DEF sig
  <1> QED  BY <1>9, <1>10

AdvertWork(a) == IF wardriving THEN Unipwn(WardriveBle(a), a) ELSE OwnCallbacks(a)
FrameWork(f) == IF wardriving THEN WardriveWifi(f) ELSE OwnSniffers(f)

LEMMA AdvertResult ==
  ASSUME DetInv, NEW a \in scene.adverts
  PROVE  /\ Good(AdvertWork(a)) /\ TagResult(a, AdvertWork(a))
         /\ OneFace /\ ViewInv => Serving(AdvertWork(a))
  <1>1. Onward(Seen(a), AdvertWork(a))
    <2>1. CASE wardriving
      <3>1. Onward(Seen(a), WardriveBle(a)) /\ Good(WardriveBle(a))
        BY WardriveBleFacts DEF Onward
      <3>2. Onward(WardriveBle(a), Unipwn(WardriveBle(a), a))
        BY <3>1, UnipwnFacts
      <3> QED  BY <2>1, <3>1, <3>2, OnwardChain DEF AdvertWork
    <2>2. CASE ~wardriving
      BY <2>2, OwnCallbacksFacts DEF AdvertWork
    <2> QED  BY <2>1, <2>2
  <1> QED  BY <1>1, SeenFacts, OnwardTags DEF Onward

LEMMA FrameResult ==
  ASSUME DetInv, NEW f \in scene.frames
  PROVE  /\ Good(FrameWork(f)) /\ FrameWork(f).tags = tags
         /\ \A m : ~Alerts(FrameWork(f).out, m)
         /\ OneFace /\ ViewInv => Serving(FrameWork(f))
  <1>1. Onward(Start, FrameWork(f))
    BY WardriveWifiFacts, OwnSniffersFacts DEF FrameWork
  <1>2. Start.tags = tags
    BY DEF Start
  <1> QED  BY <1>1, <1>2, StartGood DEF Onward

-----------------------------------------------------------------------------
(* The queue.                                                              *)

LEMMA RoomFacts ==
  ASSUME DetInv, NEW ble \in BOOLEAN
  PROVE  Room(ble) \in Nat /\ Len(queue) + Room(ble) <= QueueDepth
  <1>1. Len(queue) \in Nat /\ Len(queue) <= QueueDepth /\ QueueDepth \in Nat /\ IsrReserve \in Nat
    BY DetNumbers DEF DetInv, DetTypes
  <1> DEFINE n == Len(queue)
             x == IF ble THEN IsrReserve ELSE 0
  <1>2. Room(ble) = IF n + x < QueueDepth THEN QueueDepth - (n + x) ELSE 0
    BY DEF Room
  <1>3. x \in Nat
    BY <1>1
  <1> HIDE DEF n, x
  <1>4. n \in Nat /\ n <= QueueDepth
    BY <1>1 DEF n
  <1>5. Room(ble) \in Nat /\ n + Room(ble) <= QueueDepth
    BY <1>1, <1>2, <1>3, <1>4
  <1> QED  BY <1>5 DEF n

\* What finds no room is lost, and the rest is kept in order.
LEMMA KeptFacts ==
  ASSUME DetInv, NEW ble \in BOOLEAN, NEW out \in Seq(DetEvents)
  PROVE  /\ Kept(out, ble) \in Seq(DetEvents) /\ Len(Kept(out, ble)) <= Room(ble)
         /\ \A m, c : Carries(out, m, c) =>
              \/ Carries(Kept(out, ble), m, c)
              \/ \E e \in Lost(out, ble) : e.mac = m /\ engineClass(e.eng) = c
  <1> DEFINE n == Room(ble)
             q == Kept(out, ble)
  <1>1. n \in Nat /\ DOMAIN out = 1..Len(out) /\ Len(out) \in Nat
        /\ \A i \in 1..Len(out) : out[i] \in DetEvents
    BY RoomFacts, SeqFacts
  <1>2. q = IF Len(out) <= n THEN out ELSE SubSeq(out, 1, n)
    BY DEF Kept
  <1>3. Lost(out, ble) = {out[i] : i \in {j \in DOMAIN out : j > n}}
    BY DEF Lost
  <1> HIDE DEF n, q
  <1>4. /\ q \in Seq(DetEvents) /\ Len(q) <= n /\ DOMAIN q = 1..Len(q)
        /\ \A i \in 1..Len(out) : ~(i > n) => i \in 1..Len(q) /\ q[i] = out[i]
    <2>1. CASE Len(out) <= n
      BY <1>1, <1>2, <2>1
    <2>2. CASE ~(Len(out) <= n)
      <3>1. q = SubSeq(out, 1, n) /\ n < Len(out)
        BY <1>1, <1>2, <2>2
      <3>2. q \in Seq(DetEvents) /\ Len(q) = n /\ DOMAIN q = 1..n /\ \A i \in 1..n : q[i] = out[i]
        <4>1. Len(q) = n
          BY <1>1, <3>1
        <4>2. \A i \in 1..n : q[i] = out[i] /\ q[i] \in DetEvents
          BY <1>1, <3>1
        <4>3. q = [i \in 1..n |-> out[i]]
          BY <1>1, <3>1
        <4>4. \A i \in 1..n : out[i] \in DetEvents
          BY <1>1, <3>1
        <4> QED  BY <1>1, <4>1, <4>2, <4>3, <4>4
      <3> QED  BY <1>1, <3>1, <3>2
    <2> QED  BY <2>1, <2>2
  <1>5. ASSUME NEW m, NEW c, Carries(out, m, c)
        PROVE  \/ Carries(q, m, c)
               \/ \E e \in Lost(out, ble) : e.mac = m /\ engineClass(e.eng) = c
    <2>1. PICK i \in 1..Len(out) : out[i].mac = m /\ engineClass(out[i].eng) = c
      BY <1>1, <1>5 DEF Carries
    <2>2. CASE i > n
      <3>1. out[i] \in Lost(out, ble)
        BY <1>1, <1>3, <2>1, <2>2
      <3> QED  BY <2>1, <3>1
    <2>3. CASE ~(i > n)
      <3>1. i \in DOMAIN q /\ q[i] = out[i]
        BY <1>4, <2>3
      <3>2. Carries(q, m, c)
        BY <2>1, <3>1 DEF Carries
      <3> QED  BY <3>2
    <2> QED  BY <2>2, <2>3
  <1> QED  BY <1>4, <1>5 DEF n, q

LEMMA CarriesJoined ==
  ASSUME NEW p \in Seq(DetEvents), NEW q \in Seq(DetEvents)
  PROVE  /\ p \o q \in Seq(DetEvents) /\ Len(p \o q) = Len(p) + Len(q)
         /\ \A m, c : Carries(p, m, c) \/ Carries(q, m, c) => Carries(p \o q, m, c)
  <1> DEFINE r == p \o q
  <1>1. /\ DOMAIN p = 1..Len(p) /\ DOMAIN q = 1..Len(q) /\ Len(p) \in Nat /\ Len(q) \in Nat
    BY SeqFacts
  <1>2. r \in Seq(DetEvents) /\ Len(r) = Len(p) + Len(q) /\ DOMAIN r = 1..Len(p) + Len(q)
    BY <1>1
  <1>3. \A i \in 1..Len(p) : r[i] = p[i] /\ i \in 1..Len(p) + Len(q)
    BY <1>1
  <1>4. \A i \in 1..Len(q) : r[Len(p) + i] = q[i] /\ Len(p) + i \in 1..Len(p) + Len(q)
    BY <1>1
  <1> HIDE DEF r
  <1>5. \A m, c : Carries(p, m, c) \/ Carries(q, m, c) => Carries(r, m, c)
    BY <1>1, <1>2, <1>3, <1>4, Zenon DEF Carries
  <1> QED  BY <1>2, <1>5 DEF r

LEMMA KeptBackFacts ==
  ASSUME NEW r, NEW m
  PROVE  KeptBack(r, m) \subseteq Classes
  BY DEF KeptBack, Classes

\* Whatever a callback does the queue takes over, or it is written down that it
\* was lost.
LEMMA EmitKeeps ==
  ASSUME DetInv, NEW st, Good(st), NEW ble \in BOOLEAN, Emit(st, ble),
         presence' \in [Macs -> Presences]
  PROVE  /\ DetInv' /\ (ViewInv /\ Serving(st) => ViewInv')
         /\ storm' = st.storm /\ tags' = st.tags
  <1> DEFINE out == st.out
             q == Kept(out, ble)
             Was(m, c) == \E e \in Lost(out, ble) : e.mac = m /\ engineClass(e.eng) = c
  <1>1. /\ rings' = st.rings /\ tags' = st.tags /\ storm' = st.storm
        /\ queue' = queue \o q /\ heard' = heard \cup st.met
        /\ excused' = [m \in Macs |-> [c \in Classes |-> IF Was(m, c) THEN ticks ELSE excused[m][c]]]
        /\ UNCHANGED <<scene, wardriving, notified, ignored, quiet, lastChime, ticks, writes, told,
                       last, beeped>>
    BY DEF Emit
  <1>2. /\ st \in Works /\ out \in Seq(DetEvents) /\ queue \in Seq(DetEvents)
        /\ Len(queue) \in Nat /\ QueueDepth \in Nat /\ \A r \in RingNames : RingOK(st.rings[r])
    BY WorkFields, DetNumbers DEF Good, DetInv, DetTypes
  <1>3. /\ st.rings \in [RingNames -> RingsOf(Devices)] /\ st.tags \in [1..TagSlots -> TagRecords]
        /\ st.storm \in Storms /\ st.met \in SUBSET (Devices \X Classes)
    BY <1>2, WorkFields
  <1>4. /\ q \in Seq(DetEvents) /\ Len(q) <= Room(ble) /\ Len(q) \in Nat
        /\ \A m, c : Carries(out, m, c) => Carries(q, m, c) \/ Was(m, c)
    BY <1>2, KeptFacts
  <1>5. Room(ble) \in Nat /\ Len(queue) + Room(ble) <= QueueDepth
    BY RoomFacts
  <1> HIDE DEF out, q, Was
  <1>6. /\ queue' \in Seq(DetEvents) /\ Len(queue') <= QueueDepth
        /\ \A m, c : Carries(queue, m, c) \/ Carries(q, m, c) => Carries(queue', m, c)
    BY <1>1, <1>2, <1>4, <1>5, CarriesJoined
  <1>7. ticks \in 0..MaxTime /\ ticks \in Nat /\ NotifyCooldown \in Nat \ {0} /\ Never = MaxTime + 1
        /\ MaxTime \in Nat /\ Window \in Nat \ {0}
    BY DetNumbers DEF DetInv, DetTypes, Window
  <1>8. excused \in [Macs -> [Classes -> Times]] /\ ticks \in Times
    BY <1>7 DEF DetInv, DetTypes, Times
  <1>9. \A m \in Macs, c \in Classes : excused'[m][c] = IF Was(m, c) THEN ticks ELSE excused[m][c]
    BY <1>1
  <1>10. excused' \in [Macs -> [Classes -> Times]]
    BY <1>1, <1>8
  <1>11. DetTypes'
    <2>1. heard' \subseteq Devices \X Classes
      BY <1>1, <1>3 DEF DetInv, DetTypes
    <2> QED  BY <1>1, <1>3, <1>6, <1>10, <2>1 DEF DetInv, DetTypes
  <1>12. RingsSound'
    BY <1>1, <1>2 DEF DetInv, RingsSound, RingOK, Entries
  <1>13. TimesSound'
    <2>1. \A m \in Macs, c \in Classes : excused'[m][c] = Never \/ excused'[m][c] <= ticks
      BY <1>7, <1>9 DEF DetInv, TimesSound
    <2> QED  BY <1>1, <2>1 DEF DetInv, TimesSound, Entries
  <1>14. ASSUME NEW m \in Devices, NEW c \in Classes, Was(m, c) PROVE excused'[m][c] = ticks
    BY <1>9, <1>14 DEF Devices
  <1>15. ASSUME NEW m \in Devices, NEW c \in Classes, ~Was(m, c)
         PROVE  excused'[m][c] = excused[m][c]
    BY <1>9, <1>15 DEF Devices
  <1>16. ticks # Never /\ ticks - ticks < Window
    BY <1>7
  <1>17. ASSUME NEW m \in Devices, NEW c \in Classes, NEW t \in 0..MaxTime, t <= ticks,
                Carries(out, m, c) \/ Answered(m, c, t)
         PROVE  Answered(m, c, t)'
    <2>1. t - ticks < NotifyCooldown
      BY <1>7, <1>17
    <2>2. CASE Was(m, c)
      BY <1>1, <1>14, <1>16, <2>1, <2>2 DEF Answered, Never
    <2>3. CASE ~Was(m, c)
      <3>1. Carries(queue, m, c) \/ Carries(q, m, c) => Carries(queue', m, c)
        BY <1>6
      <3>2. Carries(out, m, c) => Carries(q, m, c)
        BY <1>4, <2>3
      <3> QED  BY <1>1, <1>15, <1>17, <2>3, <3>1, <3>2 DEF Answered, Carries
    <2> QED  BY <2>2, <2>3
  <1>18. ASSUME NEW m \in Devices, NEW c \in Classes, Carries(out, m, c) \/ Viewed(m, c)
         PROVE  Viewed(m, c)'
    <2>1. CASE Was(m, c)
      BY <1>1, <1>14, <1>16, <2>1 DEF Viewed, Within, Window, Never
    <2>2. CASE ~Was(m, c)
      <3>1. Carries(queue, m, c) \/ Carries(q, m, c) => Carries(queue', m, c)
        BY <1>6
      <3>2. Carries(out, m, c) => Carries(q, m, c)
        BY <1>4, <2>2
      <3> QED  BY <1>1, <1>15, <1>18, <2>2, <3>1, <3>2 DEF Viewed, Within, Carries
    <2> QED  BY <2>1, <2>2
  <1>19. ASSUME ViewInv, Serving(st) PROVE ViewInv'
    <2>1. ASSUME NEW r \in RingNames, NEW x \in Entries(st.rings[r]), NEW c \in KeptBack(r, x.key)
          PROVE  Answered(x.key, c, x.ts)'
      <3>1. x.key \in Devices /\ x.ts \in 0..MaxTime
        <4>1. Entries(st.rings[r]) \subseteq [key : Devices, ts : 0..MaxTime]
          BY <1>3, EntriesFacts
        <4> QED  BY <4>1
      <3>2. x.ts <= ticks
        BY <1>2 DEF RingOK
      <3>3. Carries(out, x.key, c) \/ Answered(x.key, c, x.ts)
        BY <1>19, <2>1 DEF Serving, RingsServed, out
      <3>4. c \in Classes
        BY KeptBackFacts
      <3> QED  BY <1>17, <3>1, <3>2, <3>3, <3>4
    <2>2. RingsAnswered'
      BY <1>1, <2>1 DEF RingsAnswered, Entries, KeptBack, FlockSeen
    <2>3. ASSUME NEW h \in heard \cup st.met PROVE Viewed(h[1], h[2])'
      <3>1. h[1] \in Devices /\ h[2] \in Classes
        BY <1>3 DEF DetInv, DetTypes
      <3>2. Carries(out, h[1], h[2]) \/ Viewed(h[1], h[2])
        BY <1>19 DEF Serving, MetServed, ViewInv, HeardViewed, out
      <3> QED  BY <1>18, <3>1, <3>2
    <2>4. HeardViewed'
      BY <1>1, <2>3 DEF HeardViewed
    <2> QED  BY <2>2, <2>4 DEF ViewInv
  <1>20. BeepSound'
    BY <1>1 DEF DetInv, BeepSound
  <1> QED  BY <1>1, <1>11, <1>12, <1>13, <1>19, <1>20 DEF DetInv

LEMMA AroundFacts ==
  ASSUME NEW p \in Presences, NEW m, NEW out, ticks \in 0..MaxTime
  PROVE  Around(p, m, out) \in Presences
  <1> DEFINE here == IF p.hits > 0 /\ ticks - p.seen <= TagStale
                       THEN [p EXCEPT !.seen = ticks, !.hits = IF @ < TagHits THEN @ + 1 ELSE @]
                       ELSE [first |-> ticks, seen |-> ticks, hits |-> 1, alerts |-> 0]
  <1>1. p \in [first : 0..MaxTime, seen : 0..MaxTime, hits : 0..TagHits, alerts : 0..2]
    BY DEF Presences
  <1>2. (IF p.hits < TagHits THEN p.hits + 1 ELSE p.hits) \in 0..TagHits /\ 1 \in 0..TagHits
        /\ 0 \in 0..2
    BY <1>1, DetNumbers
  <1>3. here \in [first : 0..MaxTime, seen : 0..MaxTime, hits : 0..TagHits, alerts : 0..2]
    BY <1>1, <1>2
  <1>4. Around(p, m, out) = IF \E i \in DOMAIN out : out[i].what = "tracker" /\ out[i].mac = m
                              THEN [here EXCEPT !.alerts = IF @ < 2 THEN @ + 1 ELSE @] ELSE here
    BY DEF Around
  <1> HIDE DEF here
  <1>5. (IF here.alerts < 2 THEN here.alerts + 1 ELSE here.alerts) \in 0..2
    BY <1>3
  <1> QED  BY <1>3, <1>4, <1>5 DEF Presences

LEMMA AdvertKeeps ==
  ASSUME DetInv, NEW a \in scene.adverts, onAdvert(a)
  PROVE  /\ DetInv' /\ (OneFace /\ ViewInv => ViewInv')
         /\ storm' = AdvertWork(a).storm /\ tags' = AdvertWork(a).tags
  <1>1. Emit(AdvertWork(a), TRUE) /\ TRUE \in BOOLEAN
    BY DEF onAdvert, AdvertWork
  <1>2. presence' \in [Macs -> Presences]
    <2>1. presence \in [Macs -> Presences] /\ ticks \in 0..MaxTime /\ a.mac \in Macs
      <3>1. a.mac \in Macs
        BY AdvertFacts DEF Devices
      <3>2. presence \in [Macs -> Presences] /\ ticks \in 0..MaxTime
        BY DetNumbers DEF DetInv, DetTypes
      <3> QED  BY <3>1, <3>2
    <2>2. Around(presence[a.mac], a.mac, AdvertWork(a).out) \in Presences
      BY <2>1, AroundFacts
    <2>3. presence' = IF "findMy" \in a.has
                        THEN [presence EXCEPT ![a.mac] = Around(@, a.mac, AdvertWork(a).out)]
                        ELSE presence
      BY DEF onAdvert, AdvertWork
    <2> QED  BY <2>1, <2>2, <2>3
  <1> QED  BY <1>1, <1>2, AdvertResult, EmitKeeps

LEMMA FrameKeeps ==
  ASSUME DetInv, NEW f \in scene.frames, onFrame(f)
  PROVE  /\ DetInv' /\ (OneFace /\ ViewInv => ViewInv')
         /\ storm' = FrameWork(f).storm /\ tags' = tags /\ presence' = presence
  <1>1. Emit(FrameWork(f), FALSE) /\ FALSE \in BOOLEAN /\ presence' = presence
    BY DEF onFrame, FrameWork
  <1>2. presence' \in [Macs -> Presences]
    BY <1>1 DEF DetInv, DetTypes
  <1> QED  BY <1>1, <1>2, FrameResult, EmitKeeps

-----------------------------------------------------------------------------
(* The task.                                                               *)

LEMMA NotifyFacts ==
  ASSUME DetInv, Notify
  PROVE  LET e == Head(queue) IN
         /\ e \in DetEvents /\ e.mac \in Devices /\ e.mac \in Macs /\ e.eng \in Engines
         /\ engineClass(e.eng) \in Classes
         /\ e.eng # "WARDRIVE" => Key(e) \in Targets
         /\ queue' \in Seq(DetEvents) /\ Len(queue') <= QueueDepth
         /\ \A m, c : Carries(queue, m, c)
              => Carries(queue', m, c) \/ (m = e.mac /\ c = engineClass(e.eng))
         /\ Withhold(e) \/ Repeat(e) \/ (~Skipped(e) /\ ~TooSoon(e) /\ Tell(e))
         /\ UNCHANGED <<scene, wardriving, rings, tags, storm, ignored, quiet, ticks, writes,
                        heard, presence>>
  <1> DEFINE e == Head(queue)
  <1>1. queue \in Seq(DetEvents) /\ queue # <<>> /\ queue' = Tail(queue) /\ Len(queue) <= QueueDepth
    BY DEF DetInv, DetTypes, Notify
  <1>2. /\ DOMAIN queue = 1..Len(queue) /\ Len(queue) \in Nat \ {0}
        /\ \A i \in 1..Len(queue) : queue[i] \in DetEvents
    BY <1>1, SeqFacts
  <1>3. e = queue[1] /\ 1 \in 1..Len(queue)
    BY <1>1, <1>2
  <1>4. e \in DetEvents /\ e.mac \in Devices /\ e.mac \in Macs /\ e.eng \in Engines
    BY <1>2, <1>3 DEF DetEvents, Devices
  <1>5. /\ queue' \in Seq(DetEvents) /\ Len(queue') = Len(queue) - 1
        /\ DOMAIN queue' = 1..Len(queue) - 1
        /\ \A i \in 1..Len(queue) - 1 : queue'[i] = queue[i + 1]
    BY <1>1, <1>2
  <1>6. Len(queue') <= QueueDepth
    BY <1>1, <1>2, <1>5, DetNumbers
  <1>7. ASSUME NEW m, NEW c, Carries(queue, m, c)
        PROVE  Carries(queue', m, c) \/ (m = e.mac /\ c = engineClass(e.eng))
    <2>1. PICK i \in 1..Len(queue) : queue[i].mac = m /\ engineClass(queue[i].eng) = c
      BY <1>2, <1>7 DEF Carries
    <2>2. CASE i = 1
      BY <1>3, <2>1, <2>2
    <2>3. CASE i # 1
      <3>1. i - 1 \in 1..Len(queue) - 1 /\ (i - 1) + 1 = i
        BY <1>2, <2>1, <2>3
      <3>2. queue'[i - 1] = queue[i]
        BY <1>5, <3>1
      <3>3. Carries(queue', m, c)
        BY <1>5, <2>1, <3>1, <3>2 DEF Carries
      <3> QED  BY <3>3
    <2> QED  BY <2>2, <2>3
  <1>8. engineClass(e.eng) \in Classes
    BY <1>4, ClassFacts
  <1>9. e.eng # "WARDRIVE" => Key(e) \in Targets
    <2>1. e.eng # "WARDRIVE" => engineClass(e.eng) \in {1, 2}
      BY <1>4, ClassFacts DEF Engines
    <2> QED  BY <1>4, <2>1 DEF Key, Targets
  <1>10. /\ Withhold(e) \/ Repeat(e) \/ (~Skipped(e) /\ ~TooSoon(e) /\ Tell(e))
         /\ UNCHANGED <<scene, wardriving, rings, tags, storm, ignored, quiet, ticks, writes,
                        heard, presence>>
    BY DEF Notify
  <1> QED  BY <1>4, <1>5, <1>6, <1>7, <1>8, <1>9, <1>10

\* A turn of the task, for what comes after it.
Remembered(e) == IF e.eng = "WARDRIVE" THEN notified ELSE Renewed(notified, Key(e))

LEMMA RememberedFacts ==
  ASSUME DetInv, NEW e \in DetEvents, e.eng # "WARDRIVE" => Key(e) \in Targets
  PROVE  /\ Remembered(e) \in RingsOf(Targets) /\ RingOK(Remembered(e))
         /\ Entries(Remembered(e)) \subseteq Entries(notified) \cup {NewEntry(Key(e))}
  <1>1. notified \in RingsOf(Targets) /\ RingOK(notified) /\ ticks \in 0..MaxTime
    BY DetNumbers DEF DetInv, DetTypes, RingsSound
  <1>2. CASE e.eng = "WARDRIVE"
    BY <1>1, <1>2 DEF Remembered
  <1>3. CASE e.eng # "WARDRIVE"
    <2>1. RenewedRight(Targets, notified, Key(e), Renewed(notified, Key(e)))
      BY <1>1, <1>3, RenewedFacts
    <2> QED  BY <1>3, <2>1 DEF RenewedRight, Remembered
  <1> QED  BY <1>2, <1>3

\* Seconds since the last beep, or since the device was last told.
LEMMA SinceFacts ==
  ASSUME ticks \in 0..MaxTime, NEW t \in Times, t = Never \/ t <= ticks
  PROVE  (IF t = Never THEN Never ELSE ticks - t) \in Times
  <1>1. MaxTime \in Nat /\ Never = MaxTime + 1
    BY DetNumbers
  <1>2. CASE t = Never
    BY <1>2 DEF Times
  <1>3. CASE t # Never
    <2>1. t \in 0..MaxTime
      BY <1>3 DEF Times
    <2>2. ticks - t \in 0..MaxTime
      BY <1>1, <1>3, <2>1
    <2> QED  BY <1>3, <2>2 DEF Times
  <1> QED  BY <1>2, <1>3

LEMMA ChimeFacts ==
  ASSUME DetInv, NEW e, requestChime(e)
  PROVE  /\ lastChime' \in 0..MaxTime /\ beeped' \in Times /\ (beeped' = Never \/ beeped' <= ticks)
         /\ \/ lastChime' = 0 /\ beeped' = Never
            \/ lastChime' = beeped' /\ lastChime' # 0 /\ lastChime' <= ticks
  <1>1. /\ lastChime \in 0..MaxTime /\ beeped \in Times /\ ticks \in 0..MaxTime /\ ticks # 0
        /\ ticks \in Nat /\ ticks <= ticks
    BY DetNumbers DEF DetInv, DetTypes
  <1>2. CASE lastChime' = ticks /\ beeped' = ticks
    BY <1>1, <1>2 DEF Times
  <1>3. CASE UNCHANGED <<lastChime, beeped>>
    BY <1>1, <1>3 DEF DetInv, BeepSound
  <1> QED  BY <1>2, <1>3 DEF requestChime

LEMMA ViewCarried ==
  ASSUME DetInv, ViewInv, UNCHANGED <<rings, scene, heard>>,
         \A m \in Devices, c \in Classes, t \in 0..MaxTime :
           t <= ticks /\ Answered(m, c, t) => Answered(m, c, t)',
         \A m \in Devices, c \in Classes : Viewed(m, c) => Viewed(m, c)'
  PROVE  ViewInv'
  <1>1. ASSUME NEW r \in RingNames, NEW x \in Entries(rings[r]), NEW c \in KeptBack(r, x.key)
        PROVE  Answered(x.key, c, x.ts)'
    <2>1. x.key \in Devices /\ x.ts \in 0..MaxTime
      <3>1. rings[r] \in RingsOf(Devices)
        BY DEF DetInv, DetTypes
      <3>2. Entries(rings[r]) \subseteq [key : Devices, ts : 0..MaxTime]
        BY <3>1, EntriesFacts
      <3> QED  BY <3>2
    <2>2. x.ts <= ticks /\ Answered(x.key, c, x.ts) /\ c \in Classes
      BY KeptBackFacts DEF DetInv, RingsSound, RingOK, ViewInv, RingsAnswered
    <2> QED  BY <2>1, <2>2
  <1>2. RingsAnswered'
    BY <1>1 DEF RingsAnswered, Entries, KeptBack, FlockSeen
  <1>3. \A h \in heard : h[1] \in Devices /\ h[2] \in Classes /\ Viewed(h[1], h[2])
    BY DEF DetInv, DetTypes, ViewInv, HeardViewed
  <1>4. HeardViewed'
    BY <1>3 DEF HeardViewed
  <1> QED  BY <1>2, <1>4 DEF ViewInv

LEMMA TellKeeps ==
  ASSUME DetInv, Notify, Tell(Head(queue))
  PROVE  DetInv' /\ (ViewInv => ViewInv')
  <1> DEFINE e == Head(queue)
             m == e.mac
             c == engineClass(e.eng)
  <1>1. /\ e \in DetEvents /\ m \in Devices /\ m \in Macs /\ e.eng \in Engines
        /\ c \in Classes /\ (e.eng # "WARDRIVE" => Key(e) \in Targets)
        /\ queue' \in Seq(DetEvents) /\ Len(queue') <= QueueDepth
        /\ \A d, k : Carries(queue, d, k) => Carries(queue', d, k) \/ (d = m /\ k = c)
        /\ UNCHANGED <<scene, wardriving, rings, tags, storm, ignored, quiet, ticks, writes,
                       heard, presence>>
    BY NotifyFacts
  <1>2. /\ notified' = Remembered(e) /\ requestChime(e)
        /\ last' = [eng |-> e.eng, loud |-> ~quiet,
                    silence |-> IF beeped' = Never THEN Never ELSE ticks - beeped',
                    gap |-> IF told[m][c] = Never THEN Never ELSE ticks - told[m][c]]
        /\ told' = [told EXCEPT ![m][c] = ticks] /\ excused' = excused
    BY DEF Tell, Remembered
  <1>3. Key(e) = <<m, c>>
    BY DEF Key
  <1>4. /\ notified' \in RingsOf(Targets) /\ RingOK(notified')
        /\ Entries(notified') \subseteq Entries(notified) \cup {NewEntry(<<m, c>>)}
    BY <1>1, <1>2, <1>3, RememberedFacts
  <1>5. /\ lastChime' \in 0..MaxTime /\ beeped' \in Times /\ (beeped' = Never \/ beeped' <= ticks)
        /\ \/ lastChime' = 0 /\ beeped' = Never
           \/ lastChime' = beeped' /\ lastChime' # 0 /\ lastChime' <= ticks
    BY <1>2, ChimeFacts
  <1> HIDE DEF e, m, c
  <1>6. /\ ticks \in 0..MaxTime /\ ticks \in Nat /\ MaxTime \in Nat /\ Never = MaxTime + 1
        /\ ticks # Never /\ ticks - ticks < Window /\ ticks \in Times /\ quiet \in BOOLEAN
        /\ NotifyCooldown \in Nat \ {0}
    BY DetNumbers DEF DetInv, DetTypes, Window, Times
  <1>7. told \in [Macs -> [Classes -> Times]] /\ told[m][c] \in Times
        /\ (told[m][c] = Never \/ told[m][c] <= ticks)
    BY <1>1 DEF DetInv, DetTypes, TimesSound
  <1>8. /\ told' \in [Macs -> [Classes -> Times]]
        /\ \A d \in Macs, k \in Classes :
             told'[d][k] = IF d = m /\ k = c THEN ticks ELSE told[d][k]
    BY <1>1, <1>2, <1>6, <1>7
  <1>9. last' \in Reports
    <2> DEFINE silence == IF beeped' = Never THEN Never ELSE ticks - beeped'
               gap == IF told[m][c] = Never THEN Never ELSE ticks - told[m][c]
    <2>1. silence \in Times /\ gap \in Times
      BY <1>5, <1>6, <1>7, SinceFacts
    <2>2. last' = [eng |-> e.eng, loud |-> ~quiet, silence |-> silence, gap |-> gap]
      BY <1>2
    <2> HIDE DEF silence, gap
    <2>3. (~quiet) \in BOOLEAN /\ e.eng \in Engines \cup {"none"}
      BY <1>1
    <2> QED  BY <2>1, <2>2, <2>3, Zenon DEF Reports
  <1>10. DetTypes'
    BY <1>1, <1>2, <1>4, <1>5, <1>8, <1>9 DEF DetInv, DetTypes
  <1>11. RingsSound'
    BY <1>1, <1>4 DEF DetInv, RingsSound, RingOK, Entries
  <1>12. TimesSound'
    <2>1. \A d \in Macs, k \in Classes : told'[d][k] = Never \/ told'[d][k] <= ticks
      BY <1>6, <1>8 DEF DetInv, TimesSound
    <2>2. \A d \in Macs, k \in Classes : excused'[d][k] = Never \/ excused'[d][k] <= ticks
      BY <1>2 DEF DetInv, TimesSound
    <2>3. ASSUME NEW x \in Entries(notified')
          PROVE  told'[x.key[1]][x.key[2]] # Never /\ x.ts <= told'[x.key[1]][x.key[2]]
      <3>1. CASE x = NewEntry(<<m, c>>)
        <4>1. x.key[1] = m /\ x.key[2] = c /\ x.ts = ticks
          BY <3>1 DEF NewEntry
        <4>2. told'[m][c] = ticks
          BY <1>1, <1>8
        <4> QED  BY <1>6, <4>1, <4>2
      <3>2. CASE x \in Entries(notified)
        <4>1. x.key \in Targets /\ x.ts \in 0..MaxTime
          <5>1. Entries(notified) \subseteq [key : Targets, ts : 0..MaxTime]
            BY EntriesFacts DEF DetInv, DetTypes
          <5> QED  BY <3>2, <5>1
        <4>2. x.key[1] \in Macs /\ x.key[2] \in Classes
          BY <4>1 DEF Targets, Devices, Classes
        <4>3. told[x.key[1]][x.key[2]] # Never /\ x.ts <= told[x.key[1]][x.key[2]] /\ x.ts <= ticks
          BY <3>2 DEF DetInv, TimesSound, RingsSound, RingOK
        <4> QED  BY <1>6, <1>8, <4>2, <4>3
      <3> QED  BY <1>4, <3>1, <3>2
    <2> QED  BY <1>1, <2>1, <2>2, <2>3 DEF TimesSound, Entries
  <1>13. BeepSound'
    BY <1>1, <1>5 DEF BeepSound
  <1>14. told'[m][c] = ticks /\ \A d \in Macs, k \in Classes : ~(d = m /\ k = c) => told'[d][k] = told[d][k]
    BY <1>1, <1>8
  <1>15. ASSUME NEW d \in Devices, NEW k \in Classes, Viewed(d, k) PROVE Viewed(d, k)'
    <2>1. CASE d = m /\ k = c
      BY <1>1, <1>6, <1>14, <2>1 DEF Viewed, Within, Window, Never
    <2>2. CASE ~(d = m /\ k = c)
      <3>1. told'[d][k] = told[d][k]
        BY <1>14, <2>2 DEF Devices
      <3>2. Carries(queue, d, k) => Carries(queue', d, k)
        BY <1>1, <2>2
      <3> QED  BY <1>1, <1>2, <1>15, <3>1, <3>2 DEF Viewed, Within, Carries
    <2> QED  BY <2>1, <2>2
  <1>16. ASSUME NEW d \in Devices, NEW k \in Classes, NEW t \in 0..MaxTime, t <= ticks, Answered(d, k, t)
         PROVE  Answered(d, k, t)'
    <2>1. CASE d = m /\ k = c
      <3>1. t - ticks < NotifyCooldown
        BY <1>6, <1>16
      <3> QED  BY <1>6, <1>14, <2>1, <3>1 DEF Answered, Never
    <2>2. CASE ~(d = m /\ k = c)
      <3>1. told'[d][k] = told[d][k]
        BY <1>14, <2>2 DEF Devices
      <3>2. Carries(queue, d, k) => Carries(queue', d, k)
        BY <1>1, <2>2
      <3> QED  BY <1>2, <1>16, <3>1, <3>2 DEF Answered, Carries
    <2> QED  BY <2>1, <2>2
  <1>17. ASSUME ViewInv PROVE ViewInv'
    BY <1>1, <1>15, <1>16, <1>17, ViewCarried
  <1> QED  BY <1>10, <1>11, <1>12, <1>13, <1>17 DEF DetInv

\* Left out since it is ignored: written down.
LEMMA WithholdKeeps ==
  ASSUME DetInv, Notify, Withhold(Head(queue))
  PROVE  DetInv' /\ (ViewInv => ViewInv')
  <1> DEFINE e == Head(queue)
             m == e.mac
             c == engineClass(e.eng)
  <1>1. /\ m \in Macs /\ c \in Classes
        /\ queue' \in Seq(DetEvents) /\ Len(queue') <= QueueDepth
        /\ \A d, k : Carries(queue, d, k) => Carries(queue', d, k) \/ (d = m /\ k = c)
        /\ UNCHANGED <<scene, wardriving, rings, tags, storm, ignored, quiet, ticks, writes,
                       heard, presence>>
    BY NotifyFacts
  <1>2. /\ excused' = [excused EXCEPT ![m][c] = ticks]
        /\ UNCHANGED <<notified, lastChime, last, told, beeped>>
    BY DEF Withhold
  <1> HIDE DEF e, m, c
  <1>3. /\ ticks \in 0..MaxTime /\ ticks \in Nat /\ MaxTime \in Nat /\ Never = MaxTime + 1
        /\ ticks # Never /\ ticks - ticks < Window /\ ticks \in Times
        /\ NotifyCooldown \in Nat \ {0}
    BY DetNumbers DEF DetInv, DetTypes, Window, Times
  <1>4. excused \in [Macs -> [Classes -> Times]]
    BY DEF DetInv, DetTypes
  <1>5. /\ excused' \in [Macs -> [Classes -> Times]]
        /\ \A d \in Macs, k \in Classes :
             excused'[d][k] = IF d = m /\ k = c THEN ticks ELSE excused[d][k]
    BY <1>1, <1>2, <1>3, <1>4
  <1>6. DetTypes'
    BY <1>1, <1>2, <1>5 DEF DetInv, DetTypes
  <1>7. RingsSound' /\ BeepSound'
    BY <1>1, <1>2 DEF DetInv, RingsSound, RingOK, Entries, BeepSound
  <1>8. TimesSound'
    <2>1. \A d \in Macs, k \in Classes : excused'[d][k] = Never \/ excused'[d][k] <= ticks
      BY <1>3, <1>5 DEF DetInv, TimesSound
    <2> QED  BY <1>1, <1>2, <2>1 DEF DetInv, TimesSound, Entries
  <1>9. excused'[m][c] = ticks
        /\ \A d \in Macs, k \in Classes : ~(d = m /\ k = c) => excused'[d][k] = excused[d][k]
    BY <1>1, <1>5
  <1>10. ASSUME NEW d \in Devices, NEW k \in Classes, Viewed(d, k) PROVE Viewed(d, k)'
    <2>1. CASE d = m /\ k = c
      BY <1>1, <1>3, <1>9, <2>1 DEF Viewed, Within, Window, Never
    <2>2. CASE ~(d = m /\ k = c)
      <3>1. excused'[d][k] = excused[d][k]
        BY <1>9, <2>2 DEF Devices
      <3>2. Carries(queue, d, k) => Carries(queue', d, k)
        BY <1>1, <2>2
      <3> QED  BY <1>1, <1>2, <1>10, <3>1, <3>2 DEF Viewed, Within, Carries
    <2> QED  BY <2>1, <2>2
  <1>11. ASSUME NEW d \in Devices, NEW k \in Classes, NEW t \in 0..MaxTime, t <= ticks, Answered(d, k, t)
         PROVE  Answered(d, k, t)'
    <2>1. CASE d = m /\ k = c
      <3>1. t - ticks < NotifyCooldown
        BY <1>3, <1>11
      <3> QED  BY <1>3, <1>9, <2>1, <3>1 DEF Answered, Never
    <2>2. CASE ~(d = m /\ k = c)
      <3>1. excused'[d][k] = excused[d][k]
        BY <1>9, <2>2 DEF Devices
      <3>2. Carries(queue, d, k) => Carries(queue', d, k)
        BY <1>1, <2>2
      <3> QED  BY <1>2, <1>11, <3>1, <3>2 DEF Answered, Carries
    <2> QED  BY <2>1, <2>2
  <1>12. ASSUME ViewInv PROVE ViewInv'
    BY <1>1, <1>10, <1>11, <1>12, ViewCarried
  <1> QED  BY <1>6, <1>7, <1>8, <1>12 DEF DetInv

\* Left out since it was told a moment ago: then it was.
LEMMA RepeatKeeps ==
  ASSUME DetInv, Notify, Repeat(Head(queue))
  PROVE  DetInv' /\ (ViewInv => ViewInv')
  <1> DEFINE e == Head(queue)
             m == e.mac
             c == engineClass(e.eng)
  <1>1. /\ m \in Macs /\ c \in Classes
        /\ queue' \in Seq(DetEvents) /\ Len(queue') <= QueueDepth
        /\ \A d, k : Carries(queue, d, k) => Carries(queue', d, k) \/ (d = m /\ k = c)
        /\ UNCHANGED <<scene, wardriving, rings, tags, storm, ignored, quiet, ticks, writes,
                       heard, presence>>
    BY NotifyFacts
  <1>2. /\ Cooling(notified, <<m, c>>, NotifyCooldown)
        /\ UNCHANGED <<notified, lastChime, last, told, beeped, excused>>
    BY DEF Repeat, TooSoon, Key
  <1> HIDE DEF e, m, c
  <1>3. told[m][c] # Never /\ told[m][c] \in Nat /\ ticks - told[m][c] < NotifyCooldown
    <2>1. notified \in RingsOf(Targets)
      BY DEF DetInv, DetTypes
    <2>2. PICK x \in Entries(notified) : x.key = <<m, c>> /\ ticks - x.ts < NotifyCooldown
      BY <1>2, <2>1, CoolingFacts
    <2>3. x.ts \in 0..MaxTime
      <3>1. Entries(notified) \subseteq [key : Targets, ts : 0..MaxTime]
        BY <2>1, EntriesFacts
      <3> QED  BY <3>1
    <2>4. told[m][c] # Never /\ x.ts <= told[m][c]
      <3>1. x.key[1] = m /\ x.key[2] = c
        BY <2>2
      <3> QED  BY <3>1 DEF DetInv, TimesSound
    <2>5. told[m][c] \in Times /\ ticks \in Nat /\ NotifyCooldown \in Nat /\ MaxTime \in Nat
      BY <1>1, DetNumbers DEF DetInv, DetTypes
    <2>6. told[m][c] \in Nat
      BY <2>4, <2>5 DEF Times
    <2> QED  BY <2>2, <2>3, <2>4, <2>5, <2>6
  <1>4. Within(told[m][c])
    <2>1. ticks \in Nat /\ NotifyCooldown \in Nat /\ Rediscover \in Nat
      BY DetNumbers DEF DetInv, DetTypes
    <2> QED  BY <1>3, <2>1 DEF Within, Window
  <1>5. DetTypes' /\ RingsSound' /\ TimesSound' /\ BeepSound'
    BY <1>1, <1>2 DEF DetInv, DetTypes, RingsSound, RingOK, Entries, BeepSound, TimesSound
  <1>6. ASSUME NEW d \in Devices, NEW k \in Classes, Viewed(d, k) PROVE Viewed(d, k)'
    <2>1. CASE d = m /\ k = c
      BY <1>1, <1>2, <1>4, <2>1 DEF Viewed, Within
    <2>2. CASE ~(d = m /\ k = c)
      <3>1. Carries(queue, d, k) => Carries(queue', d, k)
        BY <1>1, <2>2
      <3> QED  BY <1>1, <1>2, <1>6, <3>1 DEF Viewed, Within, Carries
    <2> QED  BY <2>1, <2>2
  <1>7. ASSUME NEW d \in Devices, NEW k \in Classes, NEW t \in 0..MaxTime, t <= ticks, Answered(d, k, t)
        PROVE  Answered(d, k, t)'
    <2>1. CASE d = m /\ k = c
      <3>1. t - told[m][c] < NotifyCooldown
        <4>1. ticks \in Nat /\ NotifyCooldown \in Nat /\ MaxTime \in Nat
          BY DetNumbers DEF DetInv, DetTypes
        <4> QED  BY <1>3, <1>7, <4>1
      <3> QED  BY <1>2, <1>3, <2>1, <3>1 DEF Answered
    <2>2. CASE ~(d = m /\ k = c)
      <3>1. Carries(queue, d, k) => Carries(queue', d, k)
        BY <1>1, <2>2
      <3> QED  BY <1>2, <1>7, <3>1 DEF Answered, Carries
    <2> QED  BY <2>1, <2>2
  <1>8. ASSUME ViewInv PROVE ViewInv'
    BY <1>1, <1>6, <1>7, <1>8, ViewCarried
  <1> QED  BY <1>5, <1>8 DEF DetInv

LEMMA NotifyKeeps ==
  ASSUME DetInv, Notify PROVE DetInv' /\ (ViewInv => ViewInv')
  BY NotifyFacts, TellKeeps, WithholdKeeps, RepeatKeeps

-----------------------------------------------------------------------------
(* The app and the time.                                                   *)

AppWrites == (\E l \in IgnoreLists : ignoreListSet(l)) \/ (\E b \in BOOLEAN : Suppress(b))

\* What the app may change: the ignore list and the silence.
LEMMA AppFacts ==
  ASSUME DetInv, AppWrites \/ UNCHANGED detVars
  PROVE  /\ quiet' \in BOOLEAN /\ writes' \in 0..MaxWrites
         /\ UNCHANGED <<scene, wardriving, rings, tags, storm, queue, notified, lastChime,
                        ticks, heard, told, excused, last, beeped, presence>>
  <1>1. writes \in 0..MaxWrites /\ MaxWrites \in Nat /\ quiet \in BOOLEAN
    BY DetNumbers DEF DetInv, DetTypes
  <1>2. ASSUME writes < MaxWrites, writes' = writes + 1 PROVE writes' \in 0..MaxWrites
    BY <1>1, <1>2
  <1>3. ASSUME NEW l \in IgnoreLists, ignoreListSet(l)
        PROVE  /\ quiet' = quiet /\ writes < MaxWrites /\ writes' = writes + 1
               /\ UNCHANGED <<scene, wardriving, rings, tags, storm, queue, notified, lastChime,
                              ticks, heard, told, excused, last, beeped, presence>>
    BY <1>3 DEF ignoreListSet
  <1>4. ASSUME NEW b \in BOOLEAN, Suppress(b)
        PROVE  /\ quiet' = b /\ writes < MaxWrites /\ writes' = writes + 1
               /\ UNCHANGED <<scene, wardriving, rings, tags, storm, queue, notified, lastChime,
                              ticks, heard, told, excused, last, beeped, presence>>
    BY <1>4 DEF Suppress
  <1>5. CASE UNCHANGED detVars
    BY <1>1, <1>5, Zenon DEF detVars
  <1>6. CASE \E l \in IgnoreLists : ignoreListSet(l)
    BY <1>1, <1>2, <1>3, <1>6, Zenon
  <1>7. CASE \E b \in BOOLEAN : Suppress(b)
    BY <1>1, <1>2, <1>4, <1>7, Zenon
  <1> QED  BY <1>5, <1>6, <1>7 DEF AppWrites

LEMMA AppKeeps ==
  ASSUME DetInv, AppWrites \/ UNCHANGED detVars
  PROVE  DetInv' /\ (ViewInv => ViewInv')
  <1>1. /\ quiet' \in BOOLEAN /\ writes' \in 0..MaxWrites
        /\ UNCHANGED <<scene, wardriving, rings, tags, storm, queue, notified, lastChime,
                       ticks, heard, told, excused, last, beeped, presence>>
    BY AppFacts
  <1>2. DetTypes' /\ RingsSound' /\ TimesSound' /\ BeepSound'
    BY <1>1 DEF DetInv, DetTypes, RingsSound, RingOK, Entries, BeepSound, TimesSound
  <1>3. ViewInv => ViewInv'
    BY <1>1 DEF ViewInv, RingsAnswered, HeardViewed, Answered, Viewed, Within, Carries, Entries,
                KeptBack, FlockSeen
  <1> QED  BY <1>2, <1>3 DEF DetInv

\* With the queue empty the moment is over: what was met in it no longer counts.
LEMMA ElapseKeeps ==
  ASSUME DetInv, Elapse
  PROVE  DetInv' /\ (ViewInv => ViewInv')
  <1>1. /\ ticks' = ticks + 1 /\ ticks < MaxTime /\ heard' = {} /\ last' = NoReport
        /\ UNCHANGED <<scene, wardriving, rings, tags, storm, queue, notified, ignored, quiet,
                       lastChime, writes, told, excused, beeped, presence>>
    BY DEF Elapse
  <1>2. /\ ticks \in Nat /\ ticks' \in Boot..MaxTime /\ MaxTime \in Nat /\ Never = MaxTime + 1
        /\ \A t \in 0..MaxTime : t <= ticks => t <= ticks'
    BY <1>1, DetNumbers DEF DetInv, DetTypes
  <1>3. DetTypes'
    <2>1. last' \in Reports
      BY <1>1 DEF NoReport, Reports, Times
    <2> QED  BY <1>1, <1>2, <2>1 DEF DetInv, DetTypes
  <1>5. RingsSound'
    <2>1. \A r \in RingNames : rings[r] \in RingsOf(Devices) /\ RingOK(rings[r])
      BY DEF DetInv, DetTypes, RingsSound
    <2>2. notified \in RingsOf(Targets) /\ RingOK(notified)
      BY DEF DetInv, DetTypes, RingsSound
    <2>3. ASSUME NEW r \in RingNames PROVE RingOK(rings[r])'
      <3> DEFINE q == rings[r]
      <3>1. \A x \in Entries(q) : x.ts <= ticks'
        <4>1. Entries(q) \subseteq [key : Devices, ts : 0..MaxTime]
          BY <2>1, EntriesFacts
        <4> QED  BY <1>2, <2>1, <4>1 DEF RingOK
      <3> QED  BY <1>1, <2>1, <3>1 DEF RingOK, Entries
    <2>4. RingOK(notified)'
      <3>1. \A x \in Entries(notified) : x.ts <= ticks'
        <4>1. Entries(notified) \subseteq [key : Targets, ts : 0..MaxTime]
          BY <2>2, EntriesFacts
        <4> QED  BY <1>2, <2>2, <4>1 DEF RingOK
      <3> QED  BY <1>1, <2>2, <3>1 DEF RingOK, Entries
    <2> QED  BY <2>3, <2>4 DEF RingsSound
  <1>6. TimesSound'
    <2>1. \A m \in Macs, c \in Classes : told[m][c] \in Times /\ excused[m][c] \in Times
      BY DEF DetInv, DetTypes
    <2>2. \A t \in Times : t = Never \/ t <= ticks => t = Never \/ t <= ticks'
      BY <1>2 DEF Times
    <2> QED  BY <1>1, <2>1, <2>2 DEF DetInv, TimesSound, Entries
  <1>7. BeepSound'
    <2>1. lastChime \in 0..MaxTime
      BY DEF DetInv, DetTypes
    <2> QED  BY <1>1, <1>2, <2>1 DEF DetInv, BeepSound
  <1>8. ViewInv => ViewInv'
    BY <1>1 DEF ViewInv, RingsAnswered, HeardViewed, Answered, Carries, Entries, KeptBack, FlockSeen
  <1> QED  BY <1>3, <1>5, <1>6, <1>7, <1>8 DEF DetInv

LEMMA DetInitKeeps == DetInit => DetInv /\ ViewInv
  <1> SUFFICES ASSUME DetInit PROVE DetInv /\ ViewInv
    OBVIOUS
  <1>1. /\ rings = [r \in RingNames |-> EmptyRing] /\ notified = EmptyRing
        /\ tags = [i \in 1..TagSlots |-> FreeTag]
        /\ storm = [start |-> 0, count |-> 0, alert |-> 0]
        /\ queue = <<>> /\ lastChime = 0 /\ ticks = Boot /\ writes = 0
        /\ heard = {} /\ told = Untold(Never) /\ excused = Untold(Never)
        /\ last = NoReport /\ beeped = Never
        /\ presence = [m \in Macs |-> [first |-> 0, seen |-> 0, hits |-> 0, alerts |-> 0]]
        /\ scene \in Scenes /\ wardriving \in BOOLEAN /\ quiet = FALSE
    BY DEF DetInit
  <1>2. /\ 0 \in 0..MaxTime /\ 0 \in 0..TagHits /\ 0 \in 0..StormFrames /\ 0 \in 0..MaxWrites
        /\ 1 \in 1..RingSize /\ Boot \in Boot..MaxTime /\ 0 <= QueueDepth /\ 0 <= RingSize
        /\ Never \in Times
    BY DetNumbers DEF Times
  <1>3. \A K : EmptyRing \in RingsOf(K)
    <2>1. \A S : <<>> \in Seq(S)
      OBVIOUS
    <2> QED  BY <1>2, <2>1 DEF EmptyRing, RingsOf
  <1>4. Entries(EmptyRing) = {} /\ RingOK(EmptyRing)
    BY <1>2 DEF EmptyRing, Entries, RingOK
  <1>5. FreeTag \in TagRecords
    BY <1>2 DEF FreeTag, TagRecords
  <1>6. [first |-> 0, seen |-> 0, hits |-> 0, alerts |-> 0] \in Presences
    BY <1>2 DEF Presences
  <1>7. storm \in Storms /\ last \in Reports
    BY <1>1, <1>2 DEF Storms, Reports, NoReport
  <1>8. told \in [Macs -> [Classes -> Times]] /\ excused = told
        /\ \A m \in Macs, c \in Classes : told[m][c] = Never
    BY <1>1, <1>2 DEF Untold
  <1>9. queue \in Seq(DetEvents) /\ Len(queue) <= QueueDepth
    BY <1>1, <1>2
  <1>10. DetTypes
    <2>1. rings \in [RingNames -> RingsOf(Devices)] /\ notified \in RingsOf(Targets)
      BY <1>1, <1>3
    <2>2. tags \in [1..TagSlots -> TagRecords] /\ presence \in [Macs -> Presences]
      BY <1>1, <1>5, <1>6
    <2> QED  BY <1>1, <1>2, <1>7, <1>8, <1>9, <2>1, <2>2 DEF DetTypes
  <1>11. RingsSound
    BY <1>1, <1>4 DEF RingsSound
  <1>12. TimesSound /\ BeepSound
    BY <1>1, <1>4, <1>8 DEF TimesSound, BeepSound
  <1>13. ViewInv
    BY <1>1, <1>4 DEF ViewInv, RingsAnswered, HeardViewed
  <1> QED  BY <1>10, <1>11, <1>12, <1>13 DEF DetInv

LEMMA DetStepKeeps ==
  ASSUME DetInv, [DetNext]_detVars
  PROVE  DetInv' /\ (OneFace /\ ViewInv => ViewInv')
  BY AdvertKeeps, FrameKeeps, NotifyKeeps, AppKeeps, ElapseKeeps DEF DetNext, AppWrites

\* Two cooldowns in a row never hide a device for longer than their sum, for the
\* eleven rings of the callbacks, of which that of WARDRIVE keeps back two classes
\* of engines at once, and that of the task (main_unified.cpp, notifyDedup).  It
\* takes that no address looks like a camera in one advertisement only: WARDRIVE
\* may keep back the second.
THEOREM DevicesAreKeptInView ==
  ASSUME OneFace PROVE DetSpec => []KeptInView
  <1>1. DetInit => DetInv /\ ViewInv
    BY DetInitKeeps
  <1>2. DetInv /\ ViewInv /\ [DetNext]_detVars => (DetInv /\ ViewInv)'
    BY DetStepKeeps
  <1>3. DetInv /\ ViewInv => KeptInView
    <2> SUFFICES ASSUME ViewInv, queue = <<>>, NEW h \in heard
                 PROVE  Within(told[h[1]][h[2]]) \/ Within(excused[h[1]][h[2]])
      BY DEF KeptInView
    <2> QED  BY DEF ViewInv, HeardViewed, Viewed, Carries
  <1> QED  BY <1>1, <1>2, <1>3, PTL DEF DetSpec

-----------------------------------------------------------------------------
(* Once per cooldown.                                                      *)

\* The ring of the task has a place for every device that may be around.
RingLargeEnough == IsFiniteSet(Targets) /\ Cardinality(Targets) <= RingSize

LEMMA PlaceLeft ==
  ASSUME RingLargeEnough, NEW r \in RingsOf(Targets), RingOK(r), NEW k \in Targets
  PROVE  Len(r.at) < RingSize \/ \E x \in Entries(r) : x.key = k
  <1> SUFFICES ASSUME ~(Len(r.at) < RingSize), ~ \E x \in Entries(r) : x.key = k
               PROVE  FALSE
    OBVIOUS
  <1> DEFINE n == Len(r.at)
             Others == Targets \ {k}
             f == [i \in 1..n |-> r.at[i].key]
  <1>1. /\ DOMAIN r.at = 1..n /\ n \in Nat
        /\ Entries(r) \subseteq [key : Targets, ts : 0..MaxTime]
        /\ \A i \in 1..n : r.at[i] \in Entries(r)
    BY EntriesFacts
  <1>2. IsFiniteSet(Others) /\ Cardinality(Others) = Cardinality(Targets) - 1
        /\ Cardinality(Targets) \in Nat
    BY FS_RemoveElement, FS_CardinalityType DEF RingLargeEnough
  <1>3. IsFiniteSet(1..n) /\ Cardinality(1..n) = n
    <2>1. IsFiniteSet(1..n) /\ Cardinality(1..n) = IF 1 > n THEN 0 ELSE n - 1 + 1
      <3>1. 1 \in Int /\ n \in Int
        BY <1>1
      <3> QED  BY <3>1, FS_Interval
    <2>2. (IF 1 > n THEN 0 ELSE n - 1 + 1) = n
      BY <1>1
    <2> QED  BY <2>1, <2>2
  <1>4. Cardinality(Others) < Cardinality(1..n)
    BY <1>1, <1>2, <1>3, DetNumbers DEF RingLargeEnough
  <1>5. f \in [1..n -> Others]
    <2>1. ASSUME NEW i \in 1..n PROVE r.at[i].key \in Others
      <3>1. r.at[i] \in Entries(r) /\ r.at[i].key \in Targets
        BY <1>1
      <3> QED  BY <3>1
    <2> QED  BY <2>1
  <1>6. PICK i, j \in 1..n : i # j /\ f[i] = f[j]
    <2> HIDE DEF f, Others, n
    <2> QED  BY <1>2, <1>3, <1>4, <1>5, FS_PigeonHole, Zenon
  <1>7. r.at[i].key = r.at[j].key
    BY <1>6
  <1> QED  BY <1>1, <1>6, <1>7 DEF RingOK

LEMMA TellKeepsTells ==
  ASSUME DetInv, RingLargeEnough, TellsKept, Notify, ~TooSoon(Head(queue)), Tell(Head(queue))
  PROVE  TellsKept' /\ OncePerCooldown'
  <1> DEFINE e == Head(queue)
             m == e.mac
             c == engineClass(e.eng)
  <1>1. /\ m \in Devices /\ m \in Macs /\ e.eng \in Engines /\ c \in Classes
        /\ (e.eng # "WARDRIVE" => <<m, c>> \in Targets) /\ e \in DetEvents
    BY NotifyFacts DEF Key
  <1>2. /\ notified' = (IF e.eng = "WARDRIVE" THEN notified ELSE Renewed(notified, <<m, c>>))
        /\ last'.eng = e.eng
        /\ last'.gap = IF told[m][c] = Never THEN Never ELSE ticks - told[m][c]
        /\ told' = [told EXCEPT ![m][c] = ticks]
        /\ (e.eng # "WARDRIVE" => ~Cooling(notified, <<m, c>>, NotifyCooldown))
    BY DEF Tell, Key, TooSoon
  <1>3. e.eng = "WARDRIVE" => c = 3
    BY ClassFacts
  <1> HIDE DEF e, m, c
  <1>4. told \in [Macs -> [Classes -> Times]] /\ ticks \in 0..MaxTime /\ ticks \in Nat
        /\ notified \in RingsOf(Targets) /\ RingOK(notified)
    BY DetNumbers DEF DetInv, DetTypes, RingsSound
  <1>5. /\ told'[m][c] = ticks
        /\ \A d \in Macs, k \in Classes : ~(d = m /\ k = c) => told'[d][k] = told[d][k]
    BY <1>1, <1>2, <1>4
  <1>6. \A k \in Targets : k[1] \in Macs /\ k[2] \in Classes /\ k[2] # 3 /\ k = <<k[1], k[2]>>
    BY DEF Targets, Devices, Classes
  <1>7. CASE e.eng = "WARDRIVE"
    <2>1. \A k \in Targets : told'[k[1]][k[2]] = told[k[1]][k[2]]
      BY <1>3, <1>5, <1>6, <1>7
    <2>2. TellsKept'
      BY <1>2, <1>7, <2>1 DEF TellsKept, Entries
    <2>3. OncePerCooldown'
      BY <1>2, <1>7 DEF OncePerCooldown
    <2> QED  BY <2>2, <2>3
  <1>8. CASE e.eng # "WARDRIVE"
    <2>1. RenewedRight(Targets, notified, <<m, c>>, notified')
      BY <1>1, <1>2, <1>4, <1>8, RenewedFacts
    <2>2. /\ NewEntry(<<m, c>>) \in Entries(notified')
          /\ \A x \in Entries(notified) : x.key # <<m, c>> => x \in Entries(notified')
      BY <1>1, <1>4, <1>8, <2>1, PlaceLeft DEF RenewedRight
    <2>3. ASSUME NEW k \in Targets, told'[k[1]][k[2]] # Never
          PROVE  \E x \in Entries(notified') : x.key = k /\ x.ts = told'[k[1]][k[2]]
      <3>1. CASE k = <<m, c>>
        <4>1. NewEntry(<<m, c>>).key = k /\ NewEntry(<<m, c>>).ts = ticks
          BY <3>1 DEF NewEntry
        <4>2. told'[k[1]][k[2]] = ticks
          BY <1>5, <3>1
        <4> QED  BY <2>2, <4>1, <4>2
      <3>2. CASE k # <<m, c>>
        <4>1. told'[k[1]][k[2]] = told[k[1]][k[2]]
          BY <1>5, <1>6, <3>2
        <4>2. PICK x \in Entries(notified) : x.key = k /\ x.ts = told[k[1]][k[2]]
          BY <2>3, <4>1 DEF TellsKept
        <4> QED  BY <2>2, <3>2, <4>1, <4>2
      <3> QED  BY <3>1, <3>2
    <2>4. TellsKept'
      BY <2>3 DEF TellsKept, Entries
    <2>5. last'.gap >= NotifyCooldown
      <3>1. told[m][c] \in Times
        BY <1>1, <1>4
      <3>2. CASE told[m][c] = Never
        BY <1>2, <3>2, DetNumbers
      <3>3. CASE told[m][c] # Never
        <4>1. PICK x \in Entries(notified) : x.key = <<m, c>> /\ x.ts = told[m][c]
          <5>1. <<m, c>>[1] = m /\ <<m, c>>[2] = c
            OBVIOUS
          <5> QED  BY <1>1, <1>8, <3>3, <5>1 DEF TellsKept
        <4>2. ~(ticks - told[m][c] < NotifyCooldown)
          <5>1. ~Cooling(notified, <<m, c>>, NotifyCooldown)
            BY <1>2, <1>8
          <5> QED  BY <1>4, <4>1, <5>1, CoolingFacts
        <4>3. told[m][c] \in Nat /\ NotifyCooldown \in Nat
          BY <3>1, <3>3, DetNumbers DEF Times
        <4>4. last'.gap = ticks - told[m][c]
          BY <1>2, <3>3
        <4> QED  BY <1>4, <4>2, <4>3, <4>4
      <3> QED  BY <3>2, <3>3
    <2> QED  BY <2>4, <2>5 DEF OncePerCooldown
  <1> QED  BY <1>7, <1>8

LEMMA TellsStepKeeps ==
  ASSUME DetInv, RingLargeEnough, TellsKept, OncePerCooldown, [DetNext]_detVars
  PROVE  TellsKept' /\ OncePerCooldown'
  <1>1. ASSUME UNCHANGED <<told, notified>>, UNCHANGED last \/ last' = NoReport
        PROVE  TellsKept' /\ OncePerCooldown'
    BY <1>1 DEF TellsKept, OncePerCooldown, Entries, NoReport
  <1>2. ASSUME NEW a \in scene.adverts, onAdvert(a)
        PROVE  UNCHANGED <<told, notified, last>>
    BY <1>2 DEF onAdvert, Emit
  <1>3. ASSUME NEW f \in scene.frames, onFrame(f)
        PROVE  UNCHANGED <<told, notified, last>>
    BY <1>3 DEF onFrame, Emit
  <1>4. CASE Notify
    <2>1. ASSUME Withhold(Head(queue)) \/ Repeat(Head(queue))
          PROVE  UNCHANGED <<told, notified, last>>
      BY <2>1 DEF Withhold, Repeat
    <2> QED  BY <1>1, <1>4, <2>1, NotifyFacts, TellKeepsTells
  <1>5. CASE AppWrites \/ UNCHANGED detVars
    BY <1>1, <1>5, AppFacts
  <1>6. CASE Elapse
    BY <1>1, <1>6 DEF Elapse
  <1> QED  BY <1>1, <1>2, <1>3, <1>4, <1>5, <1>6 DEF DetNext, AppWrites

\* A target is told at most once per cooldown, whichever engines of its class met
\* it on which radio, as long as the ring of the task has a place for every device
\* around (main_unified.cpp, notifyDedup).
THEOREM TargetsToldOnce ==
  ASSUME RingLargeEnough PROVE DetSpec => []OncePerCooldown
  <1> DEFINE Inv == DetInv /\ TellsKept /\ OncePerCooldown
  <1>1. DetInit => Inv
    <2> SUFFICES ASSUME DetInit PROVE TellsKept /\ OncePerCooldown
      BY DetInitKeeps
    <2>1. told = Untold(Never) /\ last = NoReport
      BY DEF DetInit
    <2>2. \A k \in Targets : told[k[1]][k[2]] = Never
      BY <2>1 DEF Untold, Targets, Devices, Classes
    <2> QED  BY <2>1, <2>2 DEF TellsKept, OncePerCooldown, NoReport
  <1>2. Inv /\ [DetNext]_detVars => Inv'
    BY DetStepKeeps, TellsStepKeeps
  <1>3. Inv => OncePerCooldown
    OBVIOUS
  <1> QED  BY <1>1, <1>2, <1>3, PTL DEF DetSpec

-----------------------------------------------------------------------------
(* Alarms.                                                                 *)

LEMMA LiveFacts ==
  ASSUME DetInv
  PROVE  /\ \A t \in TagRecords : /\ t.hits > 0 /\ ~Gone(t) <=> Live(t)
                                  /\ t.hits = 0 \/ Gone(t) <=> ~Live(t)
         /\ \A i \in 1..TagSlots : tags[i] \in TagRecords
         /\ \A m \in Macs : presence[m] \in Presences
  <1>1. ticks \in Nat /\ TagStale \in Nat /\ MaxTime \in Nat /\ TagHits \in Nat
    BY DetNumbers DEF DetInv, DetTypes
  <1>2. ASSUME NEW t \in TagRecords
        PROVE  /\ t.hits > 0 /\ ~Gone(t) <=> Live(t)
               /\ t.hits = 0 \/ Gone(t) <=> ~Live(t)
    <2>1. t.hits \in Nat /\ t.seen \in Nat
      BY <1>1 DEF TagRecords
    <2> QED  BY <1>1, <2>1 DEF Gone, Live
  <1>3. /\ \A i \in 1..TagSlots : tags[i] \in TagRecords
        /\ \A m \in Macs : presence[m] \in Presences
    BY DEF DetInv, DetTypes
  <1> QED  BY <1>2, <1>3

OneMore(n, bound) == IF n < bound THEN n + 1 ELSE n

LEMMA AroundRight ==
  ASSUME NEW p \in Presences, NEW m, NEW out
  PROVE  LET n == Around(p, m, out)
             was == IF Live(p) THEN p.alerts ELSE 0
         IN  /\ n.seen = ticks
             /\ n.first = IF Live(p) THEN p.first ELSE ticks
             /\ n.hits = IF Live(p) THEN OneMore(p.hits, TagHits) ELSE 1
             /\ n.alerts = IF Alerts(out, m) THEN OneMore(was, 2) ELSE was
  <1> DEFINE here == IF Live(p)
                       THEN [p EXCEPT !.seen = ticks, !.hits = OneMore(p.hits, TagHits)]
                       ELSE [first |-> ticks, seen |-> ticks, hits |-> 1, alerts |-> 0]
             was == IF Live(p) THEN p.alerts ELSE 0
  <1>1. Around(p, m, out) = IF Alerts(out, m) THEN [here EXCEPT !.alerts = OneMore(@, 2)] ELSE here
    BY DEF Around, Live, OneMore, Alerts
  <1>2. /\ here.seen = ticks /\ here.first = (IF Live(p) THEN p.first ELSE ticks)
        /\ here.hits = (IF Live(p) THEN OneMore(p.hits, TagHits) ELSE 1) /\ here.alerts = was
        /\ here = [first |-> here.first, seen |-> here.seen, hits |-> here.hits, alerts |-> here.alerts]
    <2>1. p \in [first : 0..MaxTime, seen : 0..MaxTime, hits : 0..TagHits, alerts : 0..2]
      BY DEF Presences
    <2>2. CASE Live(p)
      <3>1. here = [p EXCEPT !.seen = ticks, !.hits = OneMore(p.hits, TagHits)] /\ was = p.alerts
        BY <2>2
      <3> HIDE DEF here, was
      <3> QED  BY <2>1, <2>2, <3>1
    <2>3. CASE ~Live(p)
      BY <2>3
    <2> QED  BY <2>2, <2>3
  <1> HIDE DEF here, was
  <1>3. CASE Alerts(out, m)
    <2>1. Around(p, m, out) = [here EXCEPT !.alerts = OneMore(was, 2)]
      BY <1>1, <1>2, <1>3
    <2> QED  BY <1>2, <1>3, <2>1 DEF was
  <1>4. CASE ~Alerts(out, m)
    BY <1>1, <1>2, <1>4 DEF was
  <1> QED  BY <1>3, <1>4

LEMMA ObservedRight ==
  ASSUME DetInv, NEW t \in TagRecords, NEW m
  PROVE  LET o == Observed(t, m)
             own == Live(t) /\ t.mac = m
         IN  /\ o.first = IF own THEN t.first ELSE ticks
             /\ o.hits = IF own THEN OneMore(t.hits, TagHits) ELSE 1
             /\ o.alerted = IF own THEN t.alerted ELSE FALSE
  <1> DEFINE o == Observed(t, m)
             own == Live(t) /\ t.mac = m
  <1>1. o = IF own THEN [t EXCEPT !.seen = ticks, !.hits = OneMore(t.hits, TagHits)]
            ELSE [mac |-> m, first |-> ticks, seen |-> ticks, hits |-> 1, alerted |-> FALSE]
    BY LiveFacts DEF Observed, OneMore
  <1>2. t \in [mac : Devices \cup {NoMac}, first : 0..MaxTime, seen : 0..MaxTime,
               hits : 0..TagHits, alerted : BOOLEAN]
    BY DEF TagRecords
  <1> HIDE DEF o, own
  <1>3. CASE own
    <2>1. o = [t EXCEPT !.seen = ticks, !.hits = OneMore(t.hits, TagHits)]
      BY <1>1, <1>3
    <2> QED  BY <1>2, <1>3, <2>1 DEF o, own
  <1>4. CASE ~own
    <2>1. o = [mac |-> m, first |-> ticks, seen |-> ticks, hits |-> 1, alerted |-> FALSE]
      BY <1>1, <1>4
    <2>2. o.first = ticks /\ o.hits = 1 /\ o.alerted = FALSE
      BY <2>1
    <2> QED  BY <1>4, <2>2, Zenon DEF o, own
  <1> QED  BY <1>3, <1>4

\* The table of tags has a slot for each tag that may be around.
TagsOf(s) == {a.mac : a \in {b \in s.adverts : "findMy" \in b.has}}
TagsFit == \A s \in Scenes : IsFiniteSet(TagsOf(s)) /\ Cardinality(TagsOf(s)) <= TagSlots

LEMMA SlotLeft ==
  ASSUME DetInv, TagsFit, SlotsTrack, NEW m \in FindMy,
         ~ \E i \in 1..TagSlots : Live(tags[i]) /\ tags[i].mac = m
  PROVE  \E i \in 1..TagSlots : ~Live(tags[i])
  <1> SUFFICES ASSUME \A i \in 1..TagSlots : Live(tags[i]) PROVE FALSE
    OBVIOUS
  <1> DEFINE Others == FindMy \ {m}
             f == [i \in 1..TagSlots |-> tags[i].mac]
  <1>1. IsFiniteSet(FindMy) /\ Cardinality(FindMy) <= TagSlots
    BY DEF TagsFit, TagsOf, FindMy, DetInv, DetTypes
  <1>2. IsFiniteSet(Others) /\ Cardinality(Others) = Cardinality(FindMy) - 1
        /\ Cardinality(FindMy) \in Nat
    BY <1>1, FS_RemoveElement, FS_CardinalityType
  <1>3. IsFiniteSet(1..TagSlots) /\ Cardinality(1..TagSlots) = TagSlots
    <2>1. 1 \in Int /\ TagSlots \in Int
      BY DetNumbers
    <2>2. IsFiniteSet(1..TagSlots)
          /\ Cardinality(1..TagSlots) = IF 1 > TagSlots THEN 0 ELSE TagSlots - 1 + 1
      BY <2>1, FS_Interval
    <2>3. (IF 1 > TagSlots THEN 0 ELSE TagSlots - 1 + 1) = TagSlots
      BY DetNumbers
    <2> QED  BY <2>2, <2>3
  <1>4. Cardinality(Others) < Cardinality(1..TagSlots)
    BY <1>1, <1>2, <1>3, DetNumbers
  <1>5. f \in [1..TagSlots -> Others]
    BY DEF SlotsTrack
  <1>6. PICK i, j \in 1..TagSlots : i # j /\ f[i] = f[j]
    <2> HIDE DEF f, Others
    <2> QED  BY <1>2, <1>3, <1>4, <1>5, FS_PigeonHole, Zenon
  <1>7. tags[i].mac = tags[j].mac
    BY <1>6
  <1> QED  BY <1>6, <1>7 DEF SlotsTrack

\* The slot findMyObserve takes for a tag: its own if it is around, else one that
\* nobody needs.
LEMMA OwnOrFree ==
  ASSUME DetInv, TagsFit, SlotsTrack, NEW m \in FindMy
  PROVE  LET t == tags[TagSlot(tags, m)]
         IN  /\ TagSlot(tags, m) \in 1..TagSlots
             /\ (Live(t) /\ t.mac = m /\ Tracks(t, m) /\ Live(presence[m]))
                \/ (~Live(t) /\ ~Live(presence[m])
                    /\ ~ \E i \in 1..TagSlots : Live(tags[i]) /\ tags[i].mac = m)
  <1> DEFINE s == TagSlot(tags, m)
             own == \E i \in 1..TagSlots : Live(tags[i]) /\ tags[i].mac = m
  <1>1. tags \in [1..TagSlots -> TagRecords] /\ m \in Macs
    <2>1. scene.adverts \in {t.adverts : t \in Scenes}
      BY DEF DetInv, DetTypes
    <2>2. m \in Devices
      BY AdvertFacts DEF FindMy
    <2> QED  BY <2>2 DEF DetInv, DetTypes, Devices
  <1>2. /\ s \in 1..TagSlots
        /\ own => Live(tags[s]) /\ tags[s].mac = m
        /\ (\E i \in 1..TagSlots : ~Live(tags[i]))
             => (Live(tags[s]) /\ tags[s].mac = m) \/ ~Live(tags[s])
    <2>1. s \in 1..TagSlots
      BY <1>1, TagSlotFacts
    <2>2. ASSUME own PROVE Live(tags[s]) /\ tags[s].mac = m
      <3>1. PICK i \in 1..TagSlots : tags[i].hits > 0 /\ ~Gone(tags[i]) /\ tags[i].mac = m
        BY <2>2, LiveFacts
      <3>2. tags[s].hits > 0 /\ ~Gone(tags[s]) /\ tags[s].mac = m
        BY <1>1, <3>1, TagSlotFacts
      <3> QED  BY <2>1, <3>2, LiveFacts
    <2>3. ASSUME \E i \in 1..TagSlots : ~Live(tags[i])
          PROVE  (Live(tags[s]) /\ tags[s].mac = m) \/ ~Live(tags[s])
      <3>1. PICK i \in 1..TagSlots : tags[i].hits = 0 \/ Gone(tags[i])
        BY <2>3, LiveFacts
      <3>2. \/ tags[s].hits > 0 /\ ~Gone(tags[s]) /\ tags[s].mac = m
            \/ tags[s].hits = 0 \/ Gone(tags[s])
        BY <1>1, <3>1, TagSlotFacts
      <3> QED  BY <2>1, <3>2, LiveFacts
    <2> QED  BY <2>1, <2>2, <2>3
  <1> HIDE DEF s
  <1>3. CASE own
    <2>1. Tracks(tags[s], m)
      BY <1>2, <1>3 DEF SlotsTrack
    <2>2. Live(presence[m])
      BY <1>2, <1>3, <2>1 DEF Tracks, Matches, Live
    <2> QED  BY <1>2, <1>3, <2>1, <2>2 DEF s
  <1>4. CASE ~own
    <2>1. ~Live(presence[m])
      BY <1>1, <1>4 DEF SlotsTrack
    <2>2. \E i \in 1..TagSlots : ~Live(tags[i])
      BY <1>4, SlotLeft
    <2>3. ~Live(tags[s])
      BY <1>2, <1>4, <2>2
    <2> QED  BY <1>2, <1>4, <2>1, <2>3 DEF s
  <1> QED  BY <1>3, <1>4

\* What is known of a tag: its times, and its alerts.
TagTimes(p) == p.seen <= ticks /\ p.first <= ticks
AlertedOnce(p) ==
  /\ p.alerts <= 1
  /\ "DETECTOR" \in Active /\ "tracker" \in SigMask
       /\ p.hits >= TagHits /\ p.seen - p.first >= TagPersist
       => p.alerts = 1

\* The slot and the tag take the same step.
LEMMA SameStep ==
  ASSUME DetInv, Follows, NEW t \in TagRecords, NEW p \in Presences, NEW m \in Devices,
         TagTimes(p), AlertedOnce(p),
         \/ /\ Live(t) /\ t.mac = m /\ Live(p) /\ t.hits = p.hits /\ t.first = p.first
            /\ t.seen = p.seen /\ (t.alerted <=> p.alerts = 1)
         \/ ~Live(t) /\ ~Live(p),
         NEW out, Alerts(out, m) <=> Follower(Observed(t, m))
  PROVE  LET n == Around(p, m, out)
             o == Marked(Observed(t, m))
         IN  /\ n.seen = ticks /\ n.first <= ticks /\ AlertedOnce(n)
             /\ o.mac = m /\ o.hits = n.hits /\ o.hits > 0 /\ o.first = n.first /\ o.seen = n.seen
             /\ o.alerted <=> n.alerts = 1
  <1> DEFINE n == Around(p, m, out)
             b == Observed(t, m)
             o == Marked(b)
             was == IF Live(p) THEN p.alerts ELSE 0
  <1>1. /\ ticks \in 0..MaxTime /\ ticks \in Nat /\ TagHits \in Nat \ {0} /\ TagPersist \in Nat
        /\ MaxTime \in Nat
    BY DetNumbers DEF DetInv, DetTypes
  <1>2. p.hits \in Nat /\ p.alerts \in Nat /\ p.first \in Nat /\ p.seen \in Nat
        /\ p.alerts <= 1 /\ p.first <= ticks
    BY <1>1 DEF Presences, AlertedOnce, TagTimes
  <1>3. /\ n.seen = ticks /\ n.first = (IF Live(p) THEN p.first ELSE ticks)
        /\ n.hits = (IF Live(p) THEN OneMore(p.hits, TagHits) ELSE 1)
        /\ n.alerts = (IF Follower(b) THEN OneMore(was, 2) ELSE was)
    BY AroundRight, Zenon
  <1>4. /\ o.alerted = (b.alerted \/ Follower(b)) /\ o.hits = b.hits /\ o.first = b.first
        /\ o.mac = m /\ o.seen = ticks
    BY <1>1, ObservedFacts
  <1>5. /\ b.first = n.first /\ b.hits = n.hits
        /\ b.alerted = (IF Live(p) THEN t.alerted ELSE FALSE)
    <2>1. /\ b.first = (IF Live(t) /\ t.mac = m THEN t.first ELSE ticks)
          /\ b.hits = (IF Live(t) /\ t.mac = m THEN OneMore(t.hits, TagHits) ELSE 1)
          /\ b.alerted = (IF Live(t) /\ t.mac = m THEN t.alerted ELSE FALSE)
      BY ObservedRight, Zenon
    <2> HIDE DEF b, n
    <2>2. CASE Live(p)
      BY <1>3, <2>1, <2>2
    <2>3. CASE ~Live(p)
      BY <1>3, <2>1, <2>3
    <2> QED  BY <2>2, <2>3
  <1>6. b.alerted <=> was = 1
    <2> HIDE DEF b
    <2>1. CASE Live(p)
      BY <1>5, <2>1
    <2>2. CASE ~Live(p)
      BY <1>5, <2>2
    <2> QED  BY <2>1, <2>2
  <1>7. was \in Nat /\ was <= 1
    BY <1>2
  <1>8. n.hits \in Nat \ {0} /\ n.first \in Nat /\ n.first <= ticks
    <2>1. Live(p) => p.hits > 0
      BY DEF Live
    <2> HIDE DEF n
    <2> QED  BY <1>1, <1>2, <1>3, <2>1 DEF OneMore
  <1>9. Follower(b) <=> ~b.alerted /\ b.hits >= TagHits /\ ticks - b.first >= TagPersist
    BY DEF Follower
  <1> HIDE DEF n, b, o, was
  <1>10. CASE Follower(b)
    <2>1. was = 0
      BY <1>6, <1>7, <1>9, <1>10
    <2>2. n.alerts = 1
      BY <1>3, <1>10, <2>1 DEF OneMore
    <2>3. AlertedOnce(n)
      BY <2>2 DEF AlertedOnce
    <2>4. o.alerted
      BY <1>4, <1>10
    <2> QED  BY <1>3, <1>4, <1>5, <1>8, <2>2, <2>3, <2>4 DEF n, b, o
  <1>11. CASE ~Follower(b)
    <2>1. n.alerts = was
      BY <1>3, <1>11
    <2>2. AlertedOnce(n)
      <3>1. ASSUME n.hits >= TagHits, n.seen - n.first >= TagPersist PROVE n.alerts = 1
        <4>1. b.hits >= TagHits /\ ticks - b.first >= TagPersist
          BY <1>3, <1>5, <3>1
        <4>2. b.alerted
          BY <1>9, <1>11, <4>1
        <4> QED  BY <1>6, <2>1, <4>2
      <3> QED  BY <1>7, <2>1, <3>1 DEF AlertedOnce
    <2>3. o.alerted <=> n.alerts = 1
      BY <1>4, <1>6, <1>11, <2>1
    <2> QED  BY <1>3, <1>4, <1>5, <1>8, <2>2, <2>3 DEF n, b, o
  <1> QED  BY <1>10, <1>11

LEMMA AlertedOnceFacts == TagsAlertOnce <=> \A m \in Macs : AlertedOnce(presence[m])
  BY DEF TagsAlertOnce, AlertedOnce

LEMMA TrackedKeeps ==
  ASSUME DetInv, TagsFit, TagsSound, Follows, NEW a \in scene.adverts, "findMy" \in a.has,
         onAdvert(a)
  PROVE  TagsSound'
  <1> DEFINE m == a.mac
             i == TagSlot(tags, m)
             o == Marked(Observed(tags[i], m))
             n == Around(presence[m], m, AdvertWork(a).out)
  <1>1. m \in Devices /\ m \in Macs /\ m \in FindMy
    BY AdvertFacts DEF Devices, FindMy
  <1>2. /\ tags' = [tags EXCEPT ![i] = o]
        /\ Alerts(AdvertWork(a).out, m) <=> Follower(Observed(tags[i], m))
    BY AdvertKeeps, AdvertResult DEF TagResult
  <1>3. presence' = [presence EXCEPT ![m] = n] /\ UNCHANGED <<scene, ticks>>
    BY DEF onAdvert, Emit, AdvertWork
  <1>4. SlotsTrack
    BY DEF TagsSound
  <1>5. /\ i \in 1..TagSlots
        /\ \/ Live(tags[i]) /\ tags[i].mac = m /\ Tracks(tags[i], m) /\ Live(presence[m])
           \/ /\ ~Live(tags[i]) /\ ~Live(presence[m])
              /\ ~ \E j \in 1..TagSlots : Live(tags[j]) /\ tags[j].mac = m
    BY <1>1, <1>4, OwnOrFree
  <1>6. /\ tags \in [1..TagSlots -> TagRecords] /\ presence \in [Macs -> Presences]
        /\ tags[i] \in TagRecords /\ presence[m] \in Presences
    BY <1>1, <1>5 DEF DetInv, DetTypes
  <1>7. /\ n.seen = ticks /\ n.first <= ticks /\ AlertedOnce(n)
        /\ o.mac = m /\ o.hits = n.hits /\ o.hits > 0 /\ o.first = n.first /\ o.seen = n.seen
        /\ (o.alerted <=> n.alerts = 1)
    <2>1. TagTimes(presence[m]) /\ AlertedOnce(presence[m])
      BY <1>1, AlertedOnceFacts DEF TagsSound, TagTimes
    <2> QED  BY <1>1, <1>2, <1>5, <1>6, <2>1, SameStep DEF Tracks, Matches
  <1> HIDE DEF m, i, o, n
  <1>8. /\ tags'[i] = o /\ \A j \in 1..TagSlots : j # i => tags'[j] = tags[j]
        /\ presence'[m] = n /\ \A d \in Macs : d # m => presence'[d] = presence[d]
    BY <1>1, <1>2, <1>3, <1>5, <1>6
  <1>9. \A j \in 1..TagSlots : Live(tags[j]) /\ tags[j].mac = m => j = i
    BY <1>4, <1>5 DEF SlotsTrack
  <1>10. Live(o) /\ Live(n)
    <2>1. ticks - ticks <= TagStale
      BY DetNumbers DEF DetInv, DetTypes
    <2> QED  BY <1>7, <2>1 DEF Live
  <1>11. ASSUME NEW j \in 1..TagSlots, Live(tags'[j])
         PROVE  tags'[j].mac \in FindMy /\ Matches(tags'[j], presence'[tags'[j].mac])
    <2>1. CASE j = i
      BY <1>1, <1>7, <1>8, <2>1 DEF Matches
    <2>2. CASE j # i
      <3>1. Live(tags[j]) /\ tags'[j] = tags[j] /\ tags[j].mac # m
        BY <1>8, <1>9, <1>11, <2>2
      <3>2. tags[j].mac \in FindMy /\ Tracks(tags[j], tags[j].mac)
        BY <1>4, <3>1 DEF SlotsTrack
      <3>3. tags[j].mac \in Macs
        BY <3>2, AdvertFacts DEF FindMy, Devices
      <3> QED  BY <1>8, <3>1, <3>2, <3>3 DEF Tracks
    <2> QED  BY <2>1, <2>2
  <1>12. ASSUME NEW j \in 1..TagSlots, NEW k \in 1..TagSlots, Live(tags'[j]), Live(tags'[k]),
                tags'[j].mac = tags'[k].mac
         PROVE  j = k
    BY <1>4, <1>7, <1>8, <1>9, <1>12 DEF SlotsTrack
  <1>13. ASSUME NEW d \in Macs, Live(presence'[d])
         PROVE  \E j \in 1..TagSlots : Live(tags'[j]) /\ tags'[j].mac = d
    <2>1. CASE d = m
      BY <1>5, <1>7, <1>8, <1>10, <2>1
    <2>2. CASE d # m
      <3>1. PICK j \in 1..TagSlots : Live(tags[j]) /\ tags[j].mac = d
        BY <1>4, <1>8, <1>13, <2>2 DEF SlotsTrack
      <3>2. j # i
        BY <1>5, <2>2, <3>1
      <3> QED  BY <1>8, <3>1, <3>2
    <2> QED  BY <2>1, <2>2
  <1>14. SlotsTrack'
    BY <1>3, <1>11, <1>12, <1>13 DEF SlotsTrack, Tracks, Matches, Live, FindMy
  <1>15. \A d \in Macs : presence'[d].seen <= ticks /\ presence'[d].first <= ticks
    <2>1. ticks <= ticks
      BY DetNumbers DEF DetInv, DetTypes
    <2> QED  BY <1>7, <1>8, <2>1 DEF TagsSound
  <1>16. TagsAlertOnce'
    <2>1. \A d \in Macs : AlertedOnce(presence'[d])
      BY <1>7, <1>8, AlertedOnceFacts DEF TagsSound
    <2> QED  BY <2>1 DEF TagsAlertOnce, AlertedOnce
  <1>17. Follows'
    BY DEF Follows
  <1> QED  BY <1>3, <1>14, <1>15, <1>16, <1>17 DEF TagsSound

\* Nobody follows tags: they are around, and nothing is alerted.
LEMMA IgnoredKeeps ==
  ASSUME DetInv, TagsSound, ~Follows, NEW a \in scene.adverts, "findMy" \in a.has, onAdvert(a)
  PROVE  TagsSound'
  <1> DEFINE m == a.mac
             n == Around(presence[m], m, AdvertWork(a).out)
  <1>1. m \in Macs /\ ~Alerts(AdvertWork(a).out, m)
    BY AdvertFacts, AdvertResult DEF Devices, TagResult
  <1>2. presence' = [presence EXCEPT ![m] = n] /\ UNCHANGED <<scene, ticks>>
    BY DEF onAdvert, Emit, AdvertWork
  <1>3. presence \in [Macs -> Presences] /\ presence[m] \in Presences /\ ticks <= ticks
    BY <1>1, DetNumbers DEF DetInv, DetTypes
  <1>4. /\ n.seen = ticks /\ n.first = (IF Live(presence[m]) THEN presence[m].first ELSE ticks)
        /\ n.alerts = (IF Live(presence[m]) THEN presence[m].alerts ELSE 0)
    <2> DEFINE p == presence[m]
               out == AdvertWork(a).out
               was == IF Live(p) THEN p.alerts ELSE 0
    <2>1. /\ n.seen = ticks /\ n.first = (IF Live(p) THEN p.first ELSE ticks)
          /\ n.alerts = (IF Alerts(out, m) THEN OneMore(was, 2) ELSE was)
      <3>1. p \in Presences /\ n = Around(p, m, out)
        BY <1>3
      <3> HIDE DEF p, out, n
      <3> QED  BY <3>1, AroundRight, Zenon
    <2> HIDE DEF was, n
    <2> QED  BY <1>1, <2>1 DEF was
  <1>5. presence[m].first <= ticks /\ presence[m].alerts = 0
    BY <1>1 DEF TagsSound
  <1> HIDE DEF m, n
  <1>6. n.seen <= ticks /\ n.first <= ticks /\ n.alerts = 0
    BY <1>3, <1>4, <1>5
  <1>7. \A d \in Macs : presence'[d] = IF d = m THEN n ELSE presence[d]
    BY <1>1, <1>2, <1>3
  <1>8. \A d \in Macs : /\ presence'[d].seen <= ticks /\ presence'[d].first <= ticks
                        /\ presence'[d].alerts = 0
    BY <1>6, <1>7 DEF TagsSound
  <1>9. TagsAlertOnce'
    BY <1>8 DEF TagsAlertOnce, Follows
  <1> QED  BY <1>2, <1>8, <1>9 DEF TagsSound, Follows

LEMMA TagsKeep ==
  ASSUME DetInv, TagsFit, TagsSound, [DetNext]_detVars
  PROVE  TagsSound'
  <1>1. ASSUME UNCHANGED <<scene, tags, presence, ticks>> PROVE TagsSound'
    BY <1>1 DEF TagsSound, SlotsTrack, Tracks, Matches, Live, FindMy, TagsAlertOnce
  <1>2. ASSUME NEW a \in scene.adverts, onAdvert(a) PROVE TagsSound'
    <2>1. CASE "findMy" \in a.has
      BY <1>2, <2>1, TrackedKeeps, IgnoredKeeps
    <2>2. CASE "findMy" \notin a.has
      <3>1. UNCHANGED <<scene, presence, ticks>>
        BY <1>2, <2>2 DEF onAdvert, Emit
      <3>2. tags' = tags
        BY <1>2, <2>2, AdvertKeeps, AdvertResult DEF TagResult
      <3> QED  BY <1>1, <3>1, <3>2
    <2> QED  BY <2>1, <2>2
  <1>3. ASSUME NEW f \in scene.frames, onFrame(f) PROVE TagsSound'
    <2>1. UNCHANGED <<scene, ticks>>
      BY <1>3 DEF onFrame, Emit
    <2> QED  BY <1>1, <1>3, <2>1, FrameKeeps
  <1>4. CASE Notify
    BY <1>1, <1>4 DEF Notify
  <1>5. CASE AppWrites \/ UNCHANGED detVars
    BY <1>1, <1>5, AppFacts
  <1>6. CASE Elapse
    <2>1. ticks' = ticks + 1 /\ UNCHANGED <<scene, tags, presence>>
      BY <1>6 DEF Elapse
    <2>2. ticks \in Nat /\ TagStale \in Nat /\ MaxTime \in Nat
      BY DetNumbers DEF DetInv, DetTypes
    <2>3. /\ \A i \in 1..TagSlots : tags[i].seen \in Nat
          /\ \A m \in Macs : presence[m].seen \in Nat /\ presence[m].first \in Nat
      <3>1. \A i \in 1..TagSlots : tags[i] \in TagRecords
        BY DEF DetInv, DetTypes
      <3>2. \A m \in Macs : presence[m] \in Presences
        BY DEF DetInv, DetTypes
      <3>3. \A n \in 0..MaxTime : n \in Nat
        BY <2>2
      <3> QED  BY <3>1, <3>2, <3>3 DEF TagRecords, Presences
    <2>4. /\ \A i \in 1..TagSlots : Live(tags[i])' => Live(tags[i])
          /\ \A m \in Macs : Live(presence[m])' => Live(presence[m])
      BY <2>1, <2>2, <2>3 DEF Live
    <2>5. \A m \in Macs : presence[m].seen <= ticks' /\ presence[m].first <= ticks'
      BY <2>1, <2>2, <2>3 DEF TagsSound
    <2>6. ASSUME SlotsTrack PROVE SlotsTrack'
      <3>1. \A i \in 1..TagSlots : Live(tags[i])'
              => tags[i].mac \in FindMy /\ Tracks(tags[i], tags[i].mac)
        BY <2>4, <2>6 DEF SlotsTrack
      <3>2. \A i, j \in 1..TagSlots : Live(tags[i])' /\ Live(tags[j])' /\ tags[i].mac = tags[j].mac
              => i = j
        BY <2>4, <2>6 DEF SlotsTrack
      <3>3. ASSUME NEW m \in Macs, Live(presence[m])'
            PROVE  \E i \in 1..TagSlots : Live(tags[i])' /\ tags[i].mac = m
        <4>1. PICK i \in 1..TagSlots : Live(tags[i]) /\ tags[i].mac = m
          BY <2>4, <2>6, <3>3 DEF SlotsTrack
        <4>2. tags[i].hits > 0 /\ tags[i].seen = presence[m].seen
          BY <2>6, <4>1 DEF SlotsTrack, Tracks, Matches
        <4>3. Live(tags[i])'
          BY <2>1, <3>3, <4>2 DEF Live
        <4> QED  BY <4>1, <4>3
      <3> QED  BY <2>1, <3>1, <3>2, <3>3 DEF SlotsTrack, Tracks, Matches, Live, FindMy
    <2> QED  BY <2>1, <2>5, <2>6 DEF TagsSound, TagsAlertOnce, Follows
  <1> QED  BY <1>2, <1>3, <1>4, <1>5, <1>6 DEF DetNext, AppWrites

LEMMA StormKeeps ==
  ASSUME DetInv, Boot > StormCooldown, StormSound(storm), [DetNext]_detVars
  PROVE  StormSound(storm)'
  <1>1. ASSUME StormSound(storm'), UNCHANGED ticks PROVE StormSound(storm)'
    BY <1>1 DEF StormSound
  <1>2. ASSUME NEW a \in scene.adverts, onAdvert(a) PROVE StormSound(storm)'
    <2>1. StormSound(storm')
      BY <1>2, AdvertKeeps, AdvertResult DEF Good
    <2>2. UNCHANGED ticks
      BY <1>2 DEF onAdvert, Emit
    <2> QED  BY <1>1, <2>1, <2>2
  <1>3. ASSUME NEW f \in scene.frames, onFrame(f) PROVE StormSound(storm)'
    <2>1. StormSound(storm')
      BY <1>3, FrameKeeps, FrameResult DEF Good
    <2>2. UNCHANGED ticks
      BY <1>3 DEF onFrame, Emit
    <2> QED  BY <1>1, <2>1, <2>2
  <1>4. CASE Notify
    BY <1>1, <1>4 DEF Notify
  <1>5. CASE AppWrites \/ UNCHANGED detVars
    BY <1>1, <1>5, AppFacts
  <1>6. CASE Elapse
    <2>1. ticks' = ticks + 1 /\ storm' = storm
      BY <1>6 DEF Elapse
    <2>2. ticks \in Nat /\ storm.start \in Nat /\ storm.alert \in Nat
      BY DetNumbers DEF DetInv, DetTypes, Storms
    <2> QED  BY <2>1, <2>2 DEF StormSound
  <1> QED  BY <1>2, <1>3, <1>4, <1>5, <1>6 DEF DetNext, AppWrites

\* A target that is told either beeps or comes shortly after a beep.
LEMMA BeepKeeps ==
  ASSUME DetInv, TargetsBeep, [DetNext]_detVars
  PROVE  TargetsBeep'
  <1>1. ASSUME UNCHANGED last \/ last' = NoReport PROVE TargetsBeep'
    BY <1>1 DEF TargetsBeep, NoReport, isAlertableEngine
  <1>2. ASSUME NEW a \in scene.adverts, onAdvert(a) PROVE UNCHANGED last
    BY <1>2 DEF onAdvert, Emit
  <1>3. ASSUME NEW f \in scene.frames, onFrame(f) PROVE UNCHANGED last
    BY <1>3 DEF onFrame, Emit
  <1>4. ASSUME Notify, Tell(Head(queue)) PROVE TargetsBeep'
    <2> DEFINE e == Head(queue)
    <2>1. requestChime(e) /\ last'.eng = e.eng /\ last'.loud = ~quiet
          /\ last'.silence = IF beeped' = Never THEN Never ELSE ticks - beeped'
      BY <1>4 DEF Tell
    <2> HIDE DEF e
    <2>2. /\ ticks \in 0..MaxTime /\ ticks \in Nat /\ ChimeGap \in Nat \ {0} /\ MaxTime \in Nat
          /\ Never = MaxTime + 1
      BY DetNumbers DEF DetInv, DetTypes
    <2>3. ASSUME isAlertableEngine(e.eng), ~quiet PROVE last'.silence < ChimeGap
      <3>1. CASE lastChime = 0 \/ ticks - lastChime >= ChimeGap
        <4>1. beeped' = ticks
          BY <2>1, <2>3, <3>1 DEF requestChime
        <4> QED  BY <2>1, <2>2, <4>1
      <3>2. CASE ~(lastChime = 0 \/ ticks - lastChime >= ChimeGap)
        <4>1. beeped' = beeped /\ beeped = lastChime /\ lastChime \in 0..MaxTime
          BY <2>1, <2>3, <3>2 DEF requestChime, DetInv, BeepSound, DetTypes
        <4> QED  BY <2>1, <2>2, <3>2, <4>1
      <3> QED  BY <3>1, <3>2
    <2> QED  BY <2>1, <2>3 DEF TargetsBeep
  <1>5. CASE Notify
    <2>1. ASSUME Withhold(Head(queue)) \/ Repeat(Head(queue)) PROVE UNCHANGED last
      BY <2>1 DEF Withhold, Repeat
    <2> QED  BY <1>1, <1>4, <1>5, <2>1, NotifyFacts
  <1>6. CASE AppWrites \/ UNCHANGED detVars
    BY <1>1, <1>6, AppFacts
  <1>7. CASE Elapse
    BY <1>1, <1>7 DEF Elapse
  <1> QED  BY <1>1, <1>2, <1>3, <1>5, <1>6, <1>7 DEF DetNext, AppWrites

LEMMA DetTypesOK == DetInv => DetTypeOK
  <1> SUFFICES ASSUME DetInv PROVE DetTypeOK
    OBVIOUS
  <1>1. Len(queue) <= QueueDepth /\ ticks \in Boot..MaxTime /\ writes \in 0..MaxWrites
    BY DEF DetInv, DetTypes
  <1>2. \A r \in RingNames :
          /\ Len(rings[r].at) <= RingSize
          /\ \A i, j \in DOMAIN rings[r].at : rings[r].at[i].key = rings[r].at[j].key => i = j
    BY DEF DetInv, RingsSound, RingOK
  <1>3. storm.count \in 0..StormFrames
    BY DEF DetInv, DetTypes, Storms
  <1>4. DOMAIN tags = 1..TagSlots /\ \A i \in 1..TagSlots : tags[i].hits \in 0..TagHits
    BY DEF DetInv, DetTypes, TagRecords
  <1> QED  BY <1>1, <1>2, <1>3, <1>4, Zenon DEF DetTypeOK

\* The queue, the rings and the tags keep to their sizes, and every alarm is
\* raised: each target that is told is beeped or comes within ChimeGap of a beep,
\* each Find My tag that stays is alerted once each time it comes (findMyObserve),
\* and a storm is alerted when it begins.  It takes a table with a slot for each
\* tag around, and a node that has been up for longer than the cooldown of storms:
\* lastDeauthAlert starts at 0, which is a time.
THEOREM AlarmsAreRaised ==
  ASSUME TagsFit, Boot > StormCooldown PROVE DetSpec => []AlarmsRaised
  <1> DEFINE Inv == DetInv /\ AlarmInv
  <1>1. DetInit => Inv
    <2> SUFFICES ASSUME DetInit PROVE AlarmInv
      BY DetInitKeeps
    <2>1. DetInv
      BY DetInitKeeps
    <2>2. /\ tags = [i \in 1..TagSlots |-> FreeTag] /\ last = NoReport /\ ticks = Boot
          /\ storm = [start |-> 0, count |-> 0, alert |-> 0]
          /\ presence = [m \in Macs |-> [first |-> 0, seen |-> 0, hits |-> 0, alerts |-> 0]]
      BY DEF DetInit
    <2>3. TargetsBeep
      BY <2>2 DEF TargetsBeep, NoReport, isAlertableEngine
    <2>4. 0 <= ticks /\ ~(0 >= StormFrames) /\ ~(0 > 0) /\ 0 <= 1 /\ 0 # 1
          /\ ~(0 >= TagHits)
      BY <2>2, DetNumbers
    <2>5. StormSound(storm)
      BY <2>2, <2>4 DEF StormSound
    <2>6. /\ \A i \in 1..TagSlots : ~Live(tags[i])
          /\ \A m \in Macs : ~Live(presence[m])
      BY <2>2, <2>4 DEF Live, FreeTag
    <2>7. TagsSound
      BY <2>2, <2>4, <2>6 DEF TagsSound, SlotsTrack, TagsAlertOnce
    <2> QED  BY <2>3, <2>5, <2>7 DEF AlarmInv
  <1>2. Inv /\ [DetNext]_detVars => Inv'
    <2> SUFFICES ASSUME Inv, [DetNext]_detVars PROVE Inv'
      OBVIOUS
    <2>1. StormSound(storm)'
      BY StormKeeps DEF AlarmInv
    <2> QED  BY <2>1, DetStepKeeps, BeepKeeps, TagsKeep DEF AlarmInv
  <1>3. Inv => AlarmsRaised
    <2> SUFFICES ASSUME Inv PROVE StormAlerted
      BY DetTypesOK DEF AlarmsRaised, AlarmInv, TagsSound
    <2>1. ticks \in Nat /\ storm.start \in Nat /\ storm.alert \in Nat /\ StormCooldown \in Nat
      BY DetNumbers DEF DetInv, DetTypes, Storms
    <2> QED  BY <2>1 DEF AlarmInv, StormSound, StormAlerted
  <1> QED  BY <1>1, <1>2, <1>3, PTL DEF DetSpec
=============================================================================
