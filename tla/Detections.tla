------------------------------ MODULE Detections ------------------------------
(***************************************************************************)
(* From what the radios hear to what the phone is told: the callbacks of   *)
(* the engines (src/src/engines/*.cpp) with their rings of recent devices, *)
(* the queue they fill, and detectionNotifyTask (src/src/main_unified.cpp) *)
(* which leaves out what is ignored or was told a moment ago, beeps and    *)
(* tells the phone.                                                        *)
(*                                                                         *)
(* Each engine either has callbacks of its own or, while WARDRIVE runs, is *)
(* fed from WARDRIVE's.  An advertisement is an address with what it       *)
(* carries; a frame is its three addresses and its kind.  A callback is    *)
(* one step, and so is one turn of the task.                               *)
(***************************************************************************)
EXTENDS Naturals, Sequences, FiniteSets

CONSTANTS
  Scenes,        \* what may be on the air: sets of BLE advertisements [mac, has],
                 \* has a set of what they carry, and frames [kind, from, to, bss]
  FlockMacs,     \* addresses whose prefix is in the list of flock_match.h
  Watched,       \* addresses of the watchlist of DETECTOR
  AxonMacs, Fleet, Target,
  Active,        \* the engines that are enabled, WARDRIVE apart
  SigMask,       \* the signatures DETECTOR looks for
  IgnoreLists,   \* the ignore lists the app may push
  RingSize,      \* slots of a DedupRing and of notifyDedup
  Rediscover,    \* cooldown of a ring, in ticks
  NotifyCooldown, ChimeGap, StormCooldown, StormFrames,
  TagSlots, TagHits, TagPersist, TagStale,
  QueueDepth, IsrReserve,
  Boot,          \* the time the engines start at
  MaxTime,       \* bound: ticks
  MaxWrites      \* bound: writes of the app

VARIABLES
  scene,         \* what is on the air
  wardriving,    \* WARDRIVE runs and feeds the others
  rings,         \* the ring of each callback
  tags,          \* fmTracks[]
  storm,         \* deauthWindowStart, deauthCount, lastDeauthAlert
  queue,         \* detectionQueue
  notified,      \* notifyDedup
  ignored,       \* g_entries of the ignore list
  quiet,         \* hwAlertsSuppressed
  lastChime,     \* lastChimeMs
  ticks,         \* millis()
  writes,        \* writes of the app so far
  heard,         \* history: the addresses met in this tick, each with a class
  told,          \* history: when the phone was last told
  excused,       \* history: when the queue or the ignore list kept it back
  last,          \* history: the last report of this tick
  beeped,        \* history: the last beep
  presence       \* history: how long and how often each tag was around

detVars == <<scene, wardriving, rings, tags, storm, queue, notified, ignored, quiet,
             lastChime, ticks, writes, heard, told, excused, last, beeped, presence>>

RingNames == {"flockBle", "detBle", "sig", "unipwn", "wdBle",
              "flockWifi", "detWifi", "probe", "axon", "wdFlock", "wdWifi"}
Macs == UNION {{a.mac : a \in s.adverts} \cup UNION {{f.from, f.to, f.bss} : f \in s.frames}
               : s \in Scenes}
Classes == 1..3
Never == MaxTime + 1
NoMac == "none"

ASSUME SizesAssumption ==
  /\ {RingSize, Rediscover, NotifyCooldown, ChimeGap, StormFrames, TagSlots, TagHits, Boot}
       \subseteq Nat \ {0}
  /\ {StormCooldown, TagPersist, TagStale, QueueDepth, IsrReserve, MaxTime, MaxWrites}
       \subseteq Nat
  /\ Boot <= MaxTime /\ NotifyCooldown <= MaxTime
\* Whoever sends has an address, and so has what is looked for.
ASSUME AirAssumption ==
  /\ NoMac \notin Watched /\ ("FOXHUNTER" \in Active => Target # NoMac)
  /\ \A s \in Scenes :
       /\ \A a \in s.adverts : a.mac # NoMac
       /\ \A f \in s.frames : f.from # NoMac /\ (f.kind = "beacon" => f.bss # NoMac)

\* engineClass: one for passive collection, two for targets.
engineClass(e) ==
  CASE e \in {"FLOCK_BLE", "FLOCK_WIFI"} -> 1
    [] e \in {"DETECTOR", "FOXHUNTER", "UNIPWN"} -> 2
    [] e = "WARDRIVE" -> 3

isAlertableEngine(e) == e \in {"DETECTOR", "FLOCK_BLE", "FLOCK_WIFI", "UNIPWN"}

Event(e, m, ble, what) == [eng |-> e, mac |-> m, ble |-> ble, what |-> what]

-----------------------------------------------------------------------------
(* DedupRing, DedupRingISR, isNotifyDedupCooldown: a ring of keys with the *)
(* time each was let through; when it is full the places are reused in     *)
(* turn, also those let through again meanwhile.                           *)

EmptyRing == [at |-> <<>>, head |-> 1]

Cooling(r, k, cd) == \E i \in DOMAIN r.at : r.at[i].key = k /\ ticks - r.at[i].ts < cd

Renewed(r, k) ==
  LET new == [key |-> k, ts |-> ticks]
  IN  IF \E i \in DOMAIN r.at : r.at[i].key = k
        THEN [r EXCEPT !.at = [i \in DOMAIN r.at |-> IF r.at[i].key = k THEN new ELSE r.at[i]]]
      ELSE IF Len(r.at) < RingSize THEN [r EXCEPT !.at = Append(@, new)]
      ELSE [r EXCEPT !.at[r.head] = new, !.head = (@ % RingSize) + 1]

\* What a callback has done so far: the rings and tags, the events it pushes
\* and the addresses its engines met, each with the class.
Start == [rings |-> rings, tags |-> tags, storm |-> storm, out |-> <<>>, met |-> {}]

Pushed(st, evt) == [st EXCEPT !.out = Append(@, evt)]
Met(st, evt) == [st EXCEPT !.met = @ \cup {<<evt.mac, engineClass(evt.eng)>>}]

\* Mutant: a device that is met again starts its cooldown again.
SiftMutant(st, ring, evt) ==
  LET s == Met(st, evt)
      n == [s EXCEPT !.rings[ring] = Renewed(@, evt.mac)]
  IN  IF Cooling(st.rings[ring], evt.mac, Rediscover) THEN n ELSE Pushed(n, evt)

\* check() and push: an address that cools down is left out.
Sift(st, ring, evt) ==
  LET s == Met(st, evt)
  IN  IF Cooling(st.rings[ring], evt.mac, Rediscover) THEN s
      ELSE Pushed([s EXCEPT !.rings[ring] = Renewed(@, evt.mac)], evt)

-----------------------------------------------------------------------------
(* findMyObserve.                                                          *)

FreeTag == [mac |-> NoMac, first |-> 0, seen |-> 0, hits |-> 0, alerted |-> FALSE]

Gone(t) == t.hits > 0 /\ ticks - t.seen > TagStale

\* The slot of the address, a free or stale one, or the one seen least lately.
TagSlot(ts, m) ==
  LET own  == {i \in DOMAIN ts : ts[i].hits > 0 /\ ~Gone(ts[i]) /\ ts[i].mac = m}
      free == {i \in DOMAIN ts : ts[i].hits = 0 \/ Gone(ts[i])}
      least(S) == CHOOSE i \in S : \A j \in S : i <= j
      old  == {i \in DOMAIN ts : \A j \in DOMAIN ts : ts[i].seen <= ts[j].seen}
  IN  least(IF own # {} THEN own ELSE IF free # {} THEN free ELSE old)

\* Mutant: a slot that is taken again keeps its alert.
ObservedMutant(t, m) ==
  IF t.mac = m /\ t.hits > 0 /\ ~Gone(t)
    THEN [t EXCEPT !.seen = ticks, !.hits = IF @ < TagHits THEN @ + 1 ELSE @]
    ELSE [t EXCEPT !.mac = m, !.first = ticks, !.seen = ticks, !.hits = 1]

\* hits counts to TagHits only: nothing asks for more.
Observed(t, m) ==
  IF t.mac = m /\ t.hits > 0 /\ ~Gone(t)
    THEN [t EXCEPT !.seen = ticks, !.hits = IF @ < TagHits THEN @ + 1 ELSE @]
    ELSE [mac |-> m, first |-> ticks, seen |-> ticks, hits |-> 1, alerted |-> FALSE]

findMyObserve(st, m) ==
  LET i == TagSlot(st.tags, m)
      t == Observed(st.tags[i], m)
      follows == ~t.alerted /\ t.hits >= TagHits /\ ticks - t.first >= TagPersist
      s == [st EXCEPT !.tags[i] = [t EXCEPT !.alerted = @ \/ follows]]
  IN  IF follows THEN Pushed(s, Event("DETECTOR", m, TRUE, "tracker")) ELSE s

-----------------------------------------------------------------------------
(* The BLE callbacks.                                                      *)

\* flockShouldConsiderAddr, flockMatchOui, flockMatchNameStr,
\* flockMatchMfgPayload, flockMatchRavenUuid; a bare serial number counts
\* with the manufacturer only, and that counts alone.
LooksFlock(a) ==
  /\ "rpa" \notin a.has
  /\ \/ a.mac \in FlockMacs
     \/ a.has \cap {"flockName", "flockMfg", "ravenService"} # {}
     \/ {"devInfo", "hrt", "oldLoc"} \subseteq a.has

Sign(st, a, sig, hit) ==
  IF sig \in SigMask /\ hit
    THEN Sift(st, "sig", Event("DETECTOR", a.mac, TRUE, sig)) ELSE st

\* detectorCheckSignatures: a Find My tag is nothing else.
Signatures(st, a) ==
  IF "findMy" \in a.has
    THEN IF "tracker" \in SigMask THEN findMyObserve(st, a.mac) ELSE st
    ELSE Sign(Sign(Sign(st, a, "flipper", "flipper" \in a.has),
                   a, "glasses", "meta" \in a.has),
              a, "axon", a.mac \in AxonMacs)

\* matchFilterBytes, then matchUuidFilter: one ring for both.
WatchBle(st, a) ==
  IF a.mac \in Watched \/ "watchedUuid" \in a.has
    THEN Sift(st, "detBle", Event("DETECTOR", a.mac, TRUE, "watch")) ELSE st

Hunt(st, S, ble) ==
  IF "FOXHUNTER" \in Active /\ Target \in S
    THEN Pushed(st, Event("FOXHUNTER", Target, ble, "target")) ELSE st

Unipwn(st, a) ==
  IF "UNIPWN" \in Active /\ "unitree" \in a.has
    THEN Sift(st, "unipwn", Event("UNIPWN", a.mac, TRUE, "robot")) ELSE st

\* FlockBLECallback, DetectorCallback, FoxhunterCallback, UnipwnCallback.
OwnCallbacks(a) ==
  LET det == IF "DETECTOR" \in Active THEN WatchBle(Signatures(Start, a), a) ELSE Start
      flk == IF "FLOCK_BLE" \in Active /\ LooksFlock(a)
               THEN Sift(det, "flockBle", Event("FLOCK_BLE", a.mac, TRUE, "flock")) ELSE det
  IN  Unipwn(Hunt(flk, {a.mac}, TRUE), a)

\* WardriveAdvCallbacks: what WARDRIVE met a moment ago is shown to nobody
\* but the signatures; FLOCK_BLE has no ring of its own here.
WardriveBle(a) ==
  LET sig == IF "DETECTOR" \in Active THEN Signatures(Start, a) ELSE Start
      fev == Event("FLOCK_BLE", a.mac, TRUE, "flock")
      wev == Event("WARDRIVE", a.mac, TRUE, IF a.mac \in Fleet THEN "fleet" ELSE "device")
      isF == "FLOCK_BLE" \in Active /\ LooksFlock(a)
      met == IF isF THEN Met(sig, fev) ELSE sig
      new == [met EXCEPT !.rings["wdBle"] = Renewed(@, a.mac)]
      flk == IF isF THEN Pushed(new, fev) ELSE new
      wdr == Met(Pushed(flk, wev), wev)
      det == IF "DETECTOR" \in Active THEN WatchBle(wdr, a) ELSE wdr
  IN  IF Cooling(sig.rings["wdBle"], a.mac, Rediscover) THEN Met(met, wev)
      ELSE Hunt(det, {a.mac}, TRUE)

-----------------------------------------------------------------------------
(* The WiFi callbacks.                                                     *)

IsMgmt(f) == f.kind # "data"
IsBeacon(f) == f.kind = "beacon"

\* The transmitter, else the receiver, else the network of a management frame.
FlockAddress(f) ==
  IF f.from \in FlockMacs THEN f.from
  ELSE IF f.to \in FlockMacs THEN f.to
  ELSE IF IsMgmt(f) /\ f.bss \in FlockMacs THEN f.bss
  ELSE NoMac

FlockWifi(st, f, ring) ==
  IF "FLOCK_WIFI" \in Active /\ FlockAddress(f) # NoMac
    THEN Sift(st, ring, Event("FLOCK_WIFI", FlockAddress(f), FALSE, "flock")) ELSE st

\* A storm is StormFrames within the window of a second that is open; the
\* count stops where it is asked for.
Storm(st, f) ==
  LET w == IF ticks - storm.start > 1 THEN [storm EXCEPT !.start = ticks, !.count = 0] ELSE storm
      c == [w EXCEPT !.count = IF @ < StormFrames THEN @ + 1 ELSE @]
      alert == c.count >= StormFrames /\ ticks - c.alert > StormCooldown
      s == [st EXCEPT !.storm = IF alert THEN [c EXCEPT !.alert = ticks] ELSE c]
  IN  IF alert THEN Pushed(s, Event("DETECTOR", f.from, FALSE, "deauth")) ELSE s

\* detectorSigFrameISR; Taken says that it returns true.
Taken(f) ==
  \/ "deauth" \in SigMask /\ f.kind = "deauth"
  \/ "probe" \in SigMask /\ f.kind = "probe"
  \/ "axon" \in SigMask /\ f.from \in AxonMacs

SigFrame(st, f) ==
  IF "deauth" \in SigMask /\ f.kind = "deauth" THEN Storm(st, f)
  ELSE IF "probe" \in SigMask /\ f.kind = "probe"
    THEN Sift(st, "probe", Event("DETECTOR", f.from, FALSE, "probe"))
  ELSE IF "axon" \in SigMask /\ f.from \in AxonMacs
    THEN Sift(st, "axon", Event("DETECTOR", f.from, FALSE, "axon"))
  ELSE st

\* detectorCheckWifiDeviceISR.
WatchWifi(st, m) ==
  IF m \in Watched THEN Sift(st, "detWifi", Event("DETECTOR", m, FALSE, "watch")) ELSE st

\* The sniffers of DETECTOR, FLOCK_WIFI and FOXHUNTER.  Alone, DETECTOR looks
\* at the transmitter only, and not at a frame a signature has taken.
OwnSniffers(f) ==
  LET sig == IF "DETECTOR" \in Active THEN SigFrame(Start, f) ELSE Start
      det == IF "DETECTOR" \in Active /\ ~Taken(f) THEN WatchWifi(sig, f.from) ELSE sig
  IN  Hunt(FlockWifi(det, f, "flockWifi"), {f.from, f.to, f.bss}, FALSE)

\* wardriveWifiCb: everybody sees every frame, WARDRIVE logs networks.
WardriveWifi(f) ==
  LET flk == FlockWifi(Start, f, "wdFlock")
      det == IF "DETECTOR" \in Active
               THEN LET s == WatchWifi(WatchWifi(SigFrame(flk, f), f.from), f.to)
                    IN  IF IsMgmt(f) THEN WatchWifi(s, f.bss) ELSE s
               ELSE flk
      fox == Hunt(det, {f.from, f.to, f.bss}, FALSE)
  IN  IF IsBeacon(f)
        THEN Sift(fox, "wdWifi", Event("WARDRIVE", f.bss, FALSE,
                                       IF f.bss \in Fleet THEN "fleet" ELSE "network"))
        ELSE fox

-----------------------------------------------------------------------------
(* The queue.                                                              *)

\* pushDetection leaves IsrReserve places to pushDetectionFromISR.
Room(ble) == LET used == Len(queue) + (IF ble THEN IsrReserve ELSE 0)
             IN  IF used < QueueDepth THEN QueueDepth - used ELSE 0

Kept(out, ble) == IF Len(out) <= Room(ble) THEN out ELSE SubSeq(out, 1, Room(ble))
Lost(out, ble) == {out[i] : i \in {j \in DOMAIN out : j > Room(ble)}}

\* How often, since when, and whether the phone was to be told.
Around(p, m, out) ==
  LET here == IF p.hits > 0 /\ ticks - p.seen <= TagStale
                THEN [p EXCEPT !.seen = ticks, !.hits = IF @ < TagHits THEN @ + 1 ELSE @]
                ELSE [first |-> ticks, seen |-> ticks, hits |-> 1, alerts |-> 0]
  IN  IF \E i \in DOMAIN out : out[i].what = "tracker" /\ out[i].mac = m
        THEN [here EXCEPT !.alerts = IF @ < 2 THEN @ + 1 ELSE @] ELSE here

Emit(st, ble) ==
  /\ rings' = st.rings /\ tags' = st.tags /\ storm' = st.storm
  /\ queue' = queue \o Kept(st.out, ble)
  /\ heard' = heard \cup st.met
  /\ excused' = [m \in Macs |-> [c \in Classes |->
                   IF \E e \in Lost(st.out, ble) : e.mac = m /\ engineClass(e.eng) = c
                     THEN ticks ELSE excused[m][c]]]
  /\ UNCHANGED <<scene, wardriving, notified, ignored, quiet, lastChime, ticks, writes, told,
                 last, beeped>>

onAdvert(a) ==
  LET st == IF wardriving THEN Unipwn(WardriveBle(a), a) ELSE OwnCallbacks(a)
  IN  /\ Emit(st, TRUE)
      /\ presence' = IF "findMy" \in a.has
                       THEN [presence EXCEPT ![a.mac] = Around(@, a.mac, st.out)]
                       ELSE presence

onFrame(f) ==
  /\ Emit(IF wardriving THEN WardriveWifi(f) ELSE OwnSniffers(f), FALSE)
  /\ UNCHANGED presence

-----------------------------------------------------------------------------
(* detectionNotifyTask.                                                    *)

\* ignoreListMatch: by address or prefix, for the radio the entry names.
ignoreListMatch(e) ==
  \E x \in ignored :
    /\ x.scope \in {"both", IF e.ble THEN "ble" ELSE "wifi"}
    /\ e.mac \in x.macs

Skipped(e) == e.mac \in Fleet \/ e.what = "fleet" \/ ignoreListMatch(e)

\* Mutant: each engine for itself.
KeyMutant(e) == <<e.mac, e.eng>>

Key(e) == <<e.mac, engineClass(e.eng)>>

TooSoon(e) == e.eng # "WARDRIVE" /\ Cooling(notified, Key(e), NotifyCooldown)

\* One beep for the devices of a moment.
requestChime(e) ==
  IF isAlertableEngine(e.eng) /\ ~quiet /\ (lastChime = 0 \/ ticks - lastChime >= ChimeGap)
    THEN lastChime' = ticks /\ beeped' = ticks
    ELSE UNCHANGED <<lastChime, beeped>>

\* The phone or the spool (bleGattNotifyDetection), and the mesh.
Tell(e) ==
  LET m == e.mac
      c == engineClass(e.eng)
  IN  /\ notified' = IF e.eng = "WARDRIVE" THEN notified ELSE Renewed(notified, Key(e))
      /\ requestChime(e)
      /\ last' = [eng |-> e.eng, loud |-> ~quiet,
                  silence |-> IF beeped' = Never THEN Never ELSE ticks - beeped',
                  gap |-> IF told[m][c] = Never THEN Never ELSE ticks - told[m][c]]
      /\ told' = [told EXCEPT ![m][c] = ticks]
      /\ UNCHANGED excused

Withhold(e) ==
  /\ Skipped(e)
  /\ excused' = [excused EXCEPT ![e.mac][engineClass(e.eng)] = ticks]
  /\ UNCHANGED <<notified, lastChime, last, told, beeped>>

Repeat(e) ==
  /\ ~Skipped(e) /\ TooSoon(e)
  /\ UNCHANGED <<notified, lastChime, last, told, beeped, excused>>

Notify ==
  /\ queue # <<>>
  /\ LET e == Head(queue)
     IN  Withhold(e) \/ Repeat(e) \/ (~Skipped(e) /\ ~TooSoon(e) /\ Tell(e))
  /\ queue' = Tail(queue)
  /\ UNCHANGED <<scene, wardriving, rings, tags, storm, ignored, quiet, ticks, writes,
                 heard, presence>>

-----------------------------------------------------------------------------
(* The app and the time.                                                   *)

\* IgnoreListCallbacks, a position with its flag, foxhunterSetTarget is fixed.
ignoreListSet(l) ==
  /\ writes < MaxWrites /\ l # ignored
  /\ ignored' = l /\ writes' = writes + 1
  /\ UNCHANGED <<scene, wardriving, rings, tags, storm, queue, notified, quiet, lastChime,
                 ticks, heard, told, excused, last, beeped, presence>>

Suppress(b) ==
  /\ writes < MaxWrites /\ b # quiet
  /\ quiet' = b /\ writes' = writes + 1
  /\ UNCHANGED <<scene, wardriving, rings, tags, storm, queue, notified, ignored, lastChime,
                 ticks, heard, told, excused, last, beeped, presence>>

NoReport == [eng |-> "none", loud |-> FALSE, silence |-> Never, gap |-> Never]

\* The task is faster than a tick.
Elapse ==
  /\ queue = <<>> /\ ticks < MaxTime
  /\ ticks' = ticks + 1 /\ heard' = {} /\ last' = NoReport
  /\ UNCHANGED <<scene, wardriving, rings, tags, storm, queue, notified, ignored, quiet,
                 lastChime, writes, told, excused, beeped, presence>>

Untold(v) == [m \in Macs |-> [c \in Classes |-> v]]

DetInit ==
  /\ scene \in Scenes /\ wardriving \in BOOLEAN
  /\ rings = [r \in RingNames |-> EmptyRing]
  /\ tags = [i \in 1..TagSlots |-> FreeTag]
  /\ storm = [start |-> 0, count |-> 0, alert |-> 0]
  /\ queue = <<>> /\ notified = EmptyRing /\ ignored = {} /\ quiet = FALSE
  /\ lastChime = 0 /\ ticks = Boot /\ writes = 0
  /\ heard = {} /\ told = Untold(Never) /\ excused = Untold(Never)
  /\ last = NoReport /\ beeped = Never
  /\ presence = [m \in Macs |-> [first |-> 0, seen |-> 0, hits |-> 0, alerts |-> 0]]

DetNext ==
  \/ \E a \in scene.adverts : onAdvert(a)
  \/ \E f \in scene.frames : onFrame(f)
  \/ Notify
  \/ \E l \in IgnoreLists : ignoreListSet(l)
  \/ \E b \in BOOLEAN : Suppress(b)
  \/ Elapse

DetSpec == DetInit /\ [][DetNext]_detVars

-----------------------------------------------------------------------------
(* Properties.                                                             *)

\* Queue, rings and tags keep to their sizes, and a ring holds an address once.
DetTypeOK ==
  /\ Len(queue) <= QueueDepth
  /\ \A r \in RingNames :
       /\ Len(rings[r].at) <= RingSize
       /\ \A i, j \in DOMAIN rings[r].at : rings[r].at[i].key = rings[r].at[j].key => i = j
  /\ \A i \in DOMAIN tags : tags[i].hits \in 0..TagHits
  /\ storm.count \in 0..StormFrames /\ ticks \in Boot..MaxTime
  /\ writes \in 0..MaxWrites

Window == Rediscover + NotifyCooldown
Within(t) == t # Never /\ ticks - t < Window

\* Two cooldowns in a row, of the engine's ring and of the task, never hide a
\* device for longer than their sum: whoever an engine meets was told to the
\* phone less than that ago, unless the queue was full or the device ignored.
KeptInView ==
  queue = <<>> =>
    \A h \in heard : Within(told[h[1]][h[2]]) \/ Within(excused[h[1]][h[2]])

\* A target is told at most once per NotifyCooldown whichever engines of its
\* class met it on which radio (engineClass, notifyDedup; as many devices as
\* the ring has slots).
OncePerCooldown ==
  last.eng \notin {"none", "WARDRIVE"} => last.gap >= NotifyCooldown

\* A target that is told while the app does not ask for silence is heard: a
\* beep was less than ChimeGap before, also right after a silence.
TargetsBeep ==
  isAlertableEngine(last.eng) /\ last.loud => last.silence < ChimeGap

\* A Find My tag that stays is alerted exactly once each time it comes.
TagsAlertOnce ==
  \A m \in Macs :
    LET p == presence[m]
    IN  /\ p.alerts <= 1
        /\ "DETECTOR" \in Active /\ "tracker" \in SigMask
             /\ p.hits >= TagHits /\ p.seen - p.first >= TagPersist
             => p.alerts = 1

\* A storm is alerted: while its window is open, the last alert is not older
\* than its cooldown.
StormAlerted ==
  storm.count >= StormFrames /\ ticks - storm.start <= 1
    => storm.alert > 0 /\ ticks - storm.alert <= StormCooldown + 1

\* Every alarm is raised: the beep of a target, the alert of a tag that stays,
\* the alert of a storm.
AlarmsRaised == DetTypeOK /\ TargetsBeep /\ TagsAlertOnce /\ StormAlerted
=============================================================================
