-------------------------- MODULE NodeManagedProofs -------------------------
(***************************************************************************)
(* The parts of a managed node that MCNodeManaged checks side by side: its *)
(* firmware, its WiFi station, the lists it gets from the manager and its  *)
(* detection spool.                                                        *)
(*                                                                         *)
(* Firmware, for all images, their sizes, requests and power failures: as  *)
(* long as a record in NVS is written as a whole, the device runs from a   *)
(* whole image made for it, and a manager relays exactly the image it      *)
(* stored the length and the checksum of.  A node has no other images than *)
(* its own.  A manager does, in its spare slot.  There the argument is     *)
(* that whoever might have that slot booted has erased it first and writes *)
(* its own images since, and that a manager with a new image to boot       *)
(* writes nothing more before it restarts.                                 *)
(*                                                                         *)
(* Station, lists and spool have theorems of their own at the end.         *)
(***************************************************************************)
EXTENDS DeviceUpdate, WifiStation, FleetLists, DetSpool, SequenceTheorems,
        FiniteSetTheorems, FunctionTheorems, TLAPS

AnyImage == Firmware \cup {Nobody}
Pieces == {Erased} \cup {Piece(i, k) : i \in Firmware, k \in Places}
Records == [url : AnyImage, pend : BOOLEAN, fleet : BOOLEAN,
            relay : BOOLEAN, sz : AnyImage, crc : AnyImage]
Loads == [task : {Nobody, "boot", "wifi"}, img : AnyImage, pos : 0..Size, fleet : BOOLEAN]
Transfers == [on : BOOLEAN, img : AnyImage, got : Seq(Places)]

Types ==
  /\ role \in {"node", "manager"}
  /\ slot \in [Slots -> [Places -> Pieces]]
  /\ boot \in Slots /\ running \in Slots
  /\ mode \in {"boot", "blocking", "late", "relay", "up"}
  /\ nvs \in Records /\ load \in Loads /\ ble \in Transfers
  /\ otaUrl \in AnyImage /\ notified \in BOOLEAN
  /\ doomed \subseteq {"boot", "ble", "mesh", "wifi"}

\* A request names an image of its kind, and only a manager's is for a fleet.
Requested ==
  /\ nvs.pend => nvs.url \in (IF nvs.fleet THEN Fleet ELSE Own)
                 /\ (nvs.fleet => role = "manager")
  /\ notified => otaUrl \in Own /\ role = "node"
  /\ mode = "blocking" => ~nvs.pend

\* So does a download, and that of setup() is alone: nobody else writes what it
\* has fetched.
Loading ==
  load.task # Nobody =>
    /\ load.img \in (IF load.fleet THEN Fleet ELSE Own)
    /\ load.task = "boot" <=> mode = "blocking"
    /\ load.task = "wifi" => role = "node" /\ mode = "up"
    /\ load.fleet => role = "manager" /\ load.task = "boot"
    /\ load.task = "boot" => \A k \in 1..load.pos : slot[Target][k] = Piece(load.img, k)

Receiving == ble.on => mode = "up" /\ ble.img \in Own /\ Len(ble.got) <= Size

\* The spare slot has pieces of the device's own images only.
OwnPieces(s) == \A k \in Places : slot[s][k].img \in Own \cup {Nobody}

\* This is so whenever the slot might be made the one to boot.
SpareIsOwn ==
  \/ role = "node" \/ ble.on \/ boot # running
  \/ load.task # Nobody /\ ~load.fleet
  => OwnPieces(Target)

\* A manager that has a new image to boot only waits for its restart.
WaitsForRestart ==
  role = "manager" /\ boot # running =>
    /\ Whole(Target) /\ load.task = Nobody
    /\ mode = "blocking" \/ (mode = "up" /\ "ble" \in doomed)

\* What is stored for the relay is what lies in the spare slot, and nobody
\* writes there.
RelayStored ==
  /\ nvs.relay => mode \in {"blocking", "boot"}
  /\ nvs.relay \/ mode = "relay" =>
       /\ role = "manager" /\ boot = running
       /\ slot[Target] = Written(nvs.sz) /\ nvs.sz = nvs.crc /\ nvs.sz \in Fleet
       /\ load.task = Nobody /\ ~nvs.pend

IInv ==
  /\ Types /\ Requested /\ Loading /\ Receiving
  /\ SpareIsOwn /\ WaitsForRestart /\ RelayStored /\ RunsOwn

-----------------------------------------------------------------------------
(* Slots and images.                                                       *)

LEMMA PlacesFacts == Size \in Nat \ {0} /\ 1 \in Places /\ Size \in Places
BY SizeAssumption DEF Places

LEMMA TwoSlots ==
  ASSUME running \in Slots
  PROVE  /\ Target \in Slots /\ Target # running
         /\ \A s \in Slots : s = running \/ s = Target
BY DEF Target, Slots

LEMMA ErasedPiece == Erased \in Pieces /\ Erased.img = Nobody
BY DEF Pieces, Erased

LEMMA PieceFacts ==
  ASSUME NEW i \in Firmware, NEW k \in Places
  PROVE  Piece(i, k) \in Pieces /\ Piece(i, k).img = i
BY DEF Pieces, Piece

LEMMA BlankType == Blank \in [Places -> Pieces] /\ \A k \in Places : Blank[k].img = Nobody
BY ErasedPiece DEF Blank

\* A whole slot with pieces of own images only holds an own image.
LEMMA WholeIsOwn ==
  ASSUME NEW s \in Slots, Whole(s), OwnPieces(s)
  PROVE  ImageIn(s) \in Own
<1>1. PICK i \in Firmware : slot[s] = Written(i)
  BY DEF Whole
<1>2. slot[s][1].img = i
  BY <1>1, PlacesFacts, PieceFacts DEF Written
<1> QED BY <1>2, PlacesFacts, ImagesAssumption DEF OwnPieces, ImageIn

LEMMA OwnIsWhole ==
  ASSUME NEW s \in Slots, Whole(s), ImageIn(s) \in Own
  PROVE  OwnPieces(s)
<1>1. PICK i \in Firmware : slot[s] = Written(i)
  BY DEF Whole
<1>2. \A k \in Places : slot[s][k].img = i
  BY <1>1, PieceFacts DEF Written
<1> QED BY <1>2, PlacesFacts DEF OwnPieces, ImageIn

LEMMA OwnAreImages == Own \subseteq Firmware /\ Fleet \subseteq Firmware /\ Firmware \subseteq AnyImage
BY DEF Firmware, AnyImage

-----------------------------------------------------------------------------
(* The initial state.                                                      *)

LEMMA InitInv == UpdInit => IInv
<1> SUFFICES ASSUME UpdInit PROVE IInv
  OBVIOUS
<1>1. PICK i \in Own : slot = [s \in Slots |-> IF s = 0 THEN Written(i) ELSE Blank]
  BY DEF UpdInit
<1>2. i \in Firmware /\ Written(i) \in [Places -> Pieces]
  BY OwnAreImages, PieceFacts DEF Written
<1>3. slot \in [Slots -> [Places -> Pieces]] /\ slot[0] = Written(i) /\ slot[1] = Blank
  BY <1>1, <1>2, BlankType DEF Slots
<1>4. FreshNvs \in Records /\ NoLoad \in Loads /\ NoBle \in Transfers
  BY PlacesFacts DEF FreshNvs, NoLoad, NoBle, Records, Loads, Transfers, AnyImage
<1>5. Types
  BY <1>3, <1>4 DEF UpdInit, Types, Slots, AnyImage
<1>6. RunsOwn
  <2>1. ImageIn(0) = i
    BY <1>2, <1>3, PlacesFacts, PieceFacts DEF ImageIn, Written
  <2> QED BY <1>2, <1>3, <2>1 DEF UpdInit, RunsOwn, Whole
<1>7. Requested /\ Loading /\ Receiving /\ WaitsForRestart /\ RelayStored
  BY DEF UpdInit, Requested, Loading, Receiving, WaitsForRestart, RelayStored,
         FreshNvs, NoLoad, NoBle
<1>8. SpareIsOwn
  BY <1>3, BlankType DEF UpdInit, SpareIsOwn, OwnPieces, Target
<1> QED BY <1>5, <1>6, <1>7, <1>8 DEF IInv

-----------------------------------------------------------------------------
(* What all steps have in common.                                          *)

\* What does not write the slot that runs, nor restart, leaves it sound.
LEMMA RunsOwnKept ==
  ASSUME RunsOwn, running' = running, slot'[running] = slot[running]
  PROVE  RunsOwn'
BY DEF RunsOwn, Whole, ImageIn

\* Between restart and the end of setup() nothing loads, unless setup() does.
LEMMA Idle ==
  ASSUME IInv
  PROVE  /\ mode \in {"boot", "late", "relay"} => load.task = Nobody /\ ~ble.on
         /\ mode \in {"boot", "late"} /\ role = "manager" => boot = running
         /\ load.task # Nobody /\ load.fleet =>
              mode = "blocking" /\ role = "manager" /\ ~ble.on
         /\ load.task # Nobody =>
              /\ ~nvs.relay /\ mode # "relay"
              /\ role = "manager" => boot = running
         /\ mode = "up" => ~nvs.relay
         /\ mode = "up" /\ "ble" \notin doomed /\ role = "manager" =>
              boot = running /\ load.task = Nobody
BY DEF IInv, Types, Loads, Loading, Receiving, WaitsForRestart, RelayStored

\* Writing into the spare slot keeps the type of both and the running one.
LEMMA SpareErased ==
  ASSUME Types, slot' = [slot EXCEPT ![Target] = Blank]
  PROVE  /\ slot' \in [Slots -> [Places -> Pieces]]
         /\ slot'[running] = slot[running]
         /\ \A k \in Places : slot'[Target][k].img = Nobody
<1>1. slot \in [Slots -> [Places -> Pieces]] /\ Target \in Slots /\ Target # running /\ running \in Slots
  BY TwoSlots DEF Types
<1> QED BY <1>1, BlankType

LEMMA SpareWritten ==
  ASSUME Types, NEW i \in Own \cup Fleet, NEW k \in Places, NEW n \in Places,
         slot' = [slot EXCEPT ![Target][n] = Piece(i, k)]
  PROVE  /\ slot' \in [Slots -> [Places -> Pieces]]
         /\ slot'[running] = slot[running]
         /\ slot'[Target][n] = Piece(i, k)
         /\ \A m \in Places \ {n} : slot'[Target][m] = slot[Target][m]
         /\ i \in Own /\ OwnPieces(Target) =>
              \A m \in Places : slot'[Target][m].img \in Own \cup {Nobody}
<1>1. slot \in [Slots -> [Places -> Pieces]] /\ Target \in Slots /\ Target # running /\ running \in Slots
  BY TwoSlots DEF Types
<1>2. Piece(i, k) \in Pieces /\ Piece(i, k).img = i
  BY PieceFacts DEF Firmware
<1>3. /\ slot'[running] = slot[running]
      /\ slot'[Target] = [slot[Target] EXCEPT ![n] = Piece(i, k)]
      /\ slot' \in [Slots -> [Places -> Pieces]]
  <2>1. [slot[Target] EXCEPT ![n] = Piece(i, k)] \in [Places -> Pieces]
    BY <1>1, <1>2
  <2> QED BY <1>1, <2>1
<1>4. slot[Target] \in [Places -> Pieces]
  BY <1>1
<1>5. /\ slot'[Target][n] = Piece(i, k)
      /\ \A m \in Places \ {n} : slot'[Target][m] = slot[Target][m]
  BY <1>3, <1>4
<1> QED BY <1>2, <1>3, <1>5 DEF OwnPieces

LEMMA RecordFacts ==
  /\ FreshNvs \in Records /\ NoLoad \in Loads /\ NoBle \in Transfers
  /\ ~FreshNvs.pend /\ ~FreshNvs.relay /\ NoLoad.task = Nobody /\ ~NoBle.on
BY PlacesFacts DEF FreshNvs, NoLoad, NoBle, Records, Loads, Transfers, AnyImage

-----------------------------------------------------------------------------
(* Restarts.                                                               *)

\* The bootloader finds a whole own image: in the new slot because only own
\* images were written there, or in the old one because that was not touched.
LEMMA RebootKeeps ==
  ASSUME IInv, Reboot, UNCHANGED <<role, slot, boot, nvs>>
  PROVE  IInv'
<1>1. /\ mode' = "boot" /\ load' = NoLoad /\ ble' = NoBle /\ otaUrl' = Nobody
      /\ notified' = FALSE /\ doomed' = {}
      /\ running' = IF Whole(boot) THEN boot ELSE 1 - boot
  BY DEF Reboot
<1>2. running \in Slots /\ boot \in Slots /\ running' \in Slots
  BY <1>1 DEF IInv, Types, Slots
<1>3. Types'
  BY <1>1, <1>2, RecordFacts DEF IInv, Types, AnyImage
<1>4. Requested' /\ Loading' /\ Receiving'
  BY <1>1, RecordFacts DEF IInv, Requested, Loading, Receiving
<1>5. CASE boot = running
  <2>1. running' = running
    BY <1>1, <1>5 DEF IInv, RunsOwn
  <2>2. RunsOwn'
    BY <2>1, RunsOwnKept DEF IInv
  <2>3. SpareIsOwn' /\ WaitsForRestart'
    BY <1>1, <1>5, <2>1, RecordFacts DEF IInv, SpareIsOwn, WaitsForRestart, OwnPieces, Target
  <2>4. RelayStored'
    BY <1>1, <1>5, <2>1, RecordFacts DEF IInv, RelayStored, Target
  <2> QED BY <1>3, <1>4, <2>2, <2>3, <2>4 DEF IInv
<1>6. CASE boot # running
  <2>1. boot = Target /\ 1 - boot = running /\ OwnPieces(Target)
    BY <1>2, <1>6 DEF Target, Slots, IInv, SpareIsOwn
  <2>2. ~nvs.relay
    BY <1>6 DEF IInv, RelayStored
  <2>3. RelayStored'
    BY <1>1, <2>2 DEF RelayStored
  <2>4. OwnPieces(running)
    BY <1>2, OwnIsWhole DEF IInv, RunsOwn
  <2>5. CASE Whole(boot)
    <3>1. running' = boot /\ Target' = running
      BY <1>1, <2>1, <2>5 DEF Target
    <3>2. ImageIn(boot) \in Own
      BY <1>2, <2>1, <2>5, WholeIsOwn
    <3>3. RunsOwn'
      BY <3>1, <3>2, <2>5 DEF RunsOwn, Whole, ImageIn
    <3>4. SpareIsOwn' /\ WaitsForRestart'
      BY <3>1, <2>4 DEF SpareIsOwn, WaitsForRestart, OwnPieces
    <3> QED BY <1>3, <1>4, <2>3, <3>3, <3>4 DEF IInv
  <2>6. CASE ~Whole(boot)
    <3>1. running' = running /\ Target' = Target
      BY <1>1, <2>1, <2>6 DEF Target
    <3>2. role # "manager"
      BY <1>6, <2>1, <2>6 DEF IInv, WaitsForRestart
    <3>3. RunsOwn'
      BY <3>1, RunsOwnKept DEF IInv
    <3>4. SpareIsOwn' /\ WaitsForRestart'
      BY <3>1, <3>2, <2>1 DEF SpareIsOwn, WaitsForRestart, OwnPieces
    <3> QED BY <1>3, <1>4, <2>3, <3>3, <3>4 DEF IInv
  <2> QED BY <2>5, <2>6
<1> QED BY <1>5, <1>6

LEMMA RestartKeeps ==
  ASSUME IInv, ~TornWrites, esp_restart \/ PowerLoss
  PROVE  IInv'
BY RebootKeeps DEF esp_restart, PowerLoss

-----------------------------------------------------------------------------
(* setup().                                                                *)

LEMMA PendingKeeps ==
  ASSUME IInv, wifiOtaRunPendingBlocking
  PROVE  IInv'
<1>1. /\ mode = "boot" /\ nvs.pend
      /\ UNCHANGED <<role, boot, running, ble, otaUrl, notified, doomed>>
      /\ nvs' = [nvs EXCEPT !.pend = FALSE, !.url = Nobody]
  BY DEF wifiOtaRunPendingBlocking, Forgotten
<1>2. /\ load.task = Nobody /\ ~ble.on /\ (role = "manager" => boot = running)
      /\ ~nvs.relay
  BY <1>1, Idle DEF IInv, RelayStored
<1>3. nvs' \in Records /\ ~nvs'.pend /\ ~nvs'.relay
  BY <1>1, <1>2 DEF IInv, Types, Records, AnyImage
<1>4. Requested' /\ Receiving'
  BY <1>1, <1>2, <1>3 DEF IInv, Requested, Receiving
<1>5. CASE mode' = "late" /\ UNCHANGED <<slot, load>>
  <2>1. Types'
    BY <1>1, <1>3, <1>5 DEF IInv, Types
  <2>2. Loading' /\ WaitsForRestart' /\ RelayStored'
    BY <1>1, <1>2, <1>3, <1>5 DEF Loading, WaitsForRestart, RelayStored
  <2>3. SpareIsOwn'
    BY <1>1, <1>2, <1>5 DEF IInv, SpareIsOwn, OwnPieces, Target
  <2> QED BY <1>1, <1>4, <1>5, <2>1, <2>2, <2>3, RunsOwnKept DEF IInv
<1>6. CASE nvs.url # Nobody /\ mode' = "blocking" /\ StartLoad("boot", nvs.url, nvs.fleet)
  <2>1. /\ load' = [task |-> "boot", img |-> nvs.url, pos |-> 0, fleet |-> nvs.fleet]
        /\ slot' = [slot EXCEPT ![Target] = Blank]
    BY <1>6 DEF StartLoad
  <2>2. /\ slot' \in [Slots -> [Places -> Pieces]] /\ slot'[running] = slot[running]
        /\ \A k \in Places : slot'[Target][k].img = Nobody
    BY <2>1, SpareErased DEF IInv
  <2>3. load' \in Loads
    BY <2>1, PlacesFacts DEF IInv, Types, Records, Loads
  <2>4. Types'
    BY <1>1, <1>3, <1>6, <2>2, <2>3 DEF IInv, Types
  <2>5. Loading'
    BY <1>1, <1>6, <2>1 DEF IInv, Requested, Loading
  <2>6. WaitsForRestart' /\ RelayStored'
    BY <1>1, <1>2, <1>3, <1>6 DEF WaitsForRestart, RelayStored
  <2>7. SpareIsOwn'
    BY <1>1, <2>2 DEF SpareIsOwn, OwnPieces, Target
  <2> QED BY <1>1, <1>4, <2>2, <2>4, <2>5, <2>6, <2>7, RunsOwnKept DEF IInv
<1> QED BY <1>5, <1>6 DEF wifiOtaRunPendingBlocking

LEMMA SetupKeeps ==
  ASSUME IInv, setup
  PROVE  IInv'
<1>1. /\ mode \in {"boot", "late"}
      /\ UNCHANGED <<role, slot, boot, running, load, ble, otaUrl, notified, doomed>>
  BY DEF setup
<1>2. load.task = Nobody /\ ~ble.on /\ (role = "manager" => boot = running)
  BY <1>1, Idle
<1>3. /\ nvs' \in Records /\ nvs'.pend = nvs.pend /\ nvs'.url = nvs.url
      /\ nvs'.fleet = nvs.fleet /\ nvs'.sz = nvs.sz /\ nvs'.crc = nvs.crc
      /\ ~nvs'.relay \/ (role = "node" /\ nvs'.relay = nvs.relay)
  BY DEF IInv, Types, Records, setup, wifiOtaGetRelayPending
<1>4. mode' = "up" \/ (mode' = "relay" /\ nvs.relay)
  BY DEF setup, wifiOtaGetRelayPending
<1>5. ~nvs'.relay
  BY <1>3 DEF IInv, RelayStored
<1>6. Types'
  BY <1>1, <1>3, <1>4 DEF IInv, Types
<1>7. Requested' /\ Loading' /\ Receiving' /\ WaitsForRestart'
  BY <1>1, <1>2, <1>3, <1>4 DEF IInv, Requested, Loading, Receiving, WaitsForRestart
<1>8. SpareIsOwn'
  BY <1>1 DEF IInv, SpareIsOwn, OwnPieces, Target
<1>9. RelayStored'
  BY <1>1, <1>3, <1>4, <1>5 DEF IInv, RelayStored, Target
<1> QED BY <1>1, <1>6, <1>7, <1>8, <1>9, RunsOwnKept DEF IInv

LEMMA RelayEndsKeeps ==
  ASSUME IInv, RelayEnds
  PROVE  IInv'
<1>1. /\ mode = "relay" /\ doomed' = {"boot"}
      /\ UNCHANGED <<role, slot, boot, running, mode, nvs, load, ble, otaUrl, notified>>
  BY DEF RelayEnds
<1>2. Types' /\ Requested' /\ Loading' /\ Receiving'
  BY <1>1 DEF IInv, Types, Requested, Loading, Receiving, Target
<1>3. SpareIsOwn' /\ WaitsForRestart' /\ RelayStored'
  BY <1>1 DEF IInv, SpareIsOwn, WaitsForRestart, RelayStored, OwnPieces, Target
<1> QED BY <1>1, <1>2, <1>3, RunsOwnKept DEF IInv

-----------------------------------------------------------------------------
(* The download.                                                           *)

LEMMA FetchKeeps ==
  ASSUME IInv, Fetch
  PROVE  IInv'
<1>1. /\ load.task # Nobody /\ load.pos < Size
      /\ slot' = [slot EXCEPT ![Target][load.pos + 1] = Piece(load.img, load.pos + 1)]
      /\ load' = [load EXCEPT !.pos = @ + 1]
      /\ UNCHANGED <<role, boot, running, mode, nvs, ble, otaUrl, notified, doomed>>
  BY DEF Fetch
<1>2. load \in Loads /\ load.img \in Own \cup Fleet /\ load.pos + 1 \in Places
  BY <1>1, PlacesFacts DEF IInv, Types, Loads, Loading, Places
<1>3. /\ slot' \in [Slots -> [Places -> Pieces]] /\ slot'[running] = slot[running]
      /\ slot'[Target][load.pos + 1] = Piece(load.img, load.pos + 1)
      /\ \A m \in Places \ {load.pos + 1} : slot'[Target][m] = slot[Target][m]
      /\ load.img \in Own /\ OwnPieces(Target) =>
           \A m \in Places : slot'[Target][m].img \in Own \cup {Nobody}
  BY ZenonT(40), <1>1, <1>2, SpareWritten DEF IInv
<1>4. /\ load' \in Loads /\ load'.task = load.task /\ load'.img = load.img
      /\ load'.fleet = load.fleet /\ load'.pos = load.pos + 1
  BY <1>1, <1>2, PlacesFacts DEF Loads, Places
<1>5. Types'
  BY <1>1, <1>3, <1>4 DEF IInv, Types
<1>6. Requested' /\ Receiving'
  BY <1>1 DEF IInv, Requested, Receiving
<1>7. Loading'
  <2>1. ASSUME load.task = "boot", NEW k \in 1..(load.pos + 1)
        PROVE  slot'[Target][k] = Piece(load.img, k)
    <3>1. k \in Places /\ (k = load.pos + 1 \/ k \in 1..load.pos)
      BY <1>2, PlacesFacts DEF Places, Loads
    <3> QED BY <1>1, <1>3, <2>1, <3>1 DEF IInv, Loading
  <2>2. Target' = Target
    BY <1>1 DEF Target
  <2> QED BY <1>1, <1>4, <2>1, <2>2 DEF IInv, Loading
<1>8. SpareIsOwn'
  <2>1. load.fleet => role = "manager" /\ ~ble.on /\ boot = running
    BY <1>1, Idle
  <2>2. ~load.fleet => load.img \in Own /\ OwnPieces(Target)
    BY <1>1 DEF IInv, SpareIsOwn, Loading
  <2> QED BY <1>1, <1>2, <1>3, <1>4, <2>1, <2>2 DEF SpareIsOwn, OwnPieces, Target, Loads
<1>9. WaitsForRestart' /\ RelayStored'
  BY <1>1, Idle DEF WaitsForRestart, RelayStored
<1> QED BY <1>1, <1>3, <1>5, <1>6, <1>7, <1>8, <1>9, RunsOwnKept DEF IInv

LEMMA FailKeeps ==
  ASSUME IInv, Fail
  PROVE  IInv'
<1>1. /\ load.task # Nobody /\ load' = NoLoad
      /\ mode' = IF load.task = "boot" THEN "late" ELSE mode
      /\ UNCHANGED <<role, slot, boot, running, nvs, ble, otaUrl, notified, doomed>>
  BY DEF Fail, Over
<1>2. Types' /\ Requested' /\ Loading' /\ Receiving'
  BY <1>1, RecordFacts DEF IInv, Types, Requested, Loading, Receiving
<1>3. SpareIsOwn'
  BY <1>1, RecordFacts DEF IInv, SpareIsOwn, OwnPieces, Target
<1>4. WaitsForRestart' /\ RelayStored'
  BY <1>1, Idle DEF WaitsForRestart, RelayStored
<1> QED BY <1>1, <1>2, <1>3, <1>4, RunsOwnKept DEF IInv

LEMMA InstalledKeeps ==
  ASSUME IInv, Installed
  PROVE  IInv'
<1>1. /\ load.task # Nobody /\ ~load.fleet /\ Whole(Target) /\ boot' = Target
      /\ load' = NoLoad /\ doomed' = doomed \cup {load.task}
      /\ UNCHANGED <<role, slot, running, mode, nvs, ble, otaUrl, notified>>
  BY DEF Installed
<1>2. load.task \in {"boot", "wifi"} /\ Target \in Slots
  BY <1>1, TwoSlots DEF IInv, Types, Loads
<1>3. Types' /\ Requested' /\ Loading' /\ Receiving'
  BY <1>1, <1>2, RecordFacts DEF IInv, Types, Requested, Loading, Receiving
<1>4. SpareIsOwn'
  BY <1>1 DEF IInv, SpareIsOwn, OwnPieces, Target
<1>5. WaitsForRestart'
  <2>1. role = "manager" => mode = "blocking"
    BY <1>1, <1>2 DEF IInv, Loading
  <2> QED BY <1>1, <2>1, RecordFacts DEF WaitsForRestart, Whole, Target
<1>6. RelayStored'
  BY <1>1, Idle DEF RelayStored
<1> QED BY <1>1, <1>3, <1>4, <1>5, <1>6, RunsOwnKept DEF IInv

\* All pieces have come, so the spare slot is what its record says.
LEMMA StagedKeeps ==
  ASSUME IInv, Staged
  PROVE  IInv'
<1>1. /\ load.task # Nobody /\ load.fleet /\ load.pos = Size
      /\ nvs' = [nvs EXCEPT !.relay = TRUE, !.sz = load.img, !.crc = load.img]
      /\ load' = NoLoad /\ doomed' = doomed \cup {"boot"}
      /\ UNCHANGED <<role, slot, boot, running, mode, ble, otaUrl, notified>>
  BY DEF Staged, Relayed
<1>2. /\ role = "manager" /\ mode = "blocking" /\ boot = running
      /\ load.task = "boot" /\ load.img \in Fleet /\ ~nvs.pend
  BY <1>1, Idle DEF IInv, Loading, Requested
<1>3. /\ nvs' \in Records /\ nvs'.relay /\ nvs'.sz = load.img /\ nvs'.crc = load.img
      /\ nvs'.pend = nvs.pend /\ nvs'.url = nvs.url /\ nvs'.fleet = nvs.fleet
  BY <1>1 DEF IInv, Types, Records, Loads
<1>4. slot[Target] = Written(load.img)
  <2>1. slot[Target] \in [Places -> Pieces]
    BY TwoSlots DEF IInv, Types
  <2>2. \A k \in Places : slot[Target][k] = Piece(load.img, k)
    BY <1>1, <1>2 DEF IInv, Loading, Places
  <2> QED BY <2>1, <2>2 DEF Written
<1>5. Types' /\ Requested' /\ Loading' /\ Receiving'
  BY <1>1, <1>2, <1>3, RecordFacts DEF IInv, Types, Requested, Loading, Receiving
<1>6. SpareIsOwn' /\ WaitsForRestart'
  BY <1>1, <1>2, RecordFacts, Idle DEF SpareIsOwn, WaitsForRestart
<1>7. RelayStored'
  BY <1>1, <1>2, <1>3, <1>4, RecordFacts DEF RelayStored, Target
<1> QED BY <1>1, <1>5, <1>6, <1>7, RunsOwnKept DEF IInv

-----------------------------------------------------------------------------
(* Requests.                                                               *)

\* A request is stored: nothing but NVS changes, on a device that is up.
LEMMA StoredKeeps ==
  ASSUME IInv, mode = "up", nvs' \in Records, ~nvs'.relay,
         nvs'.pend => nvs'.url \in (IF nvs'.fleet THEN Fleet ELSE Own)
                      /\ (nvs'.fleet => role = "manager"),
         NEW task \in {"ble", "mesh"}, doomed' = doomed \cup {task},
         UNCHANGED <<role, slot, boot, running, mode, load, ble, otaUrl, notified>>
  PROVE  IInv'
<1>1. Types' /\ Requested' /\ Loading' /\ Receiving'
  BY DEF IInv, Types, Requested, Loading, Receiving, Target
<1>2. SpareIsOwn' /\ WaitsForRestart'
  BY DEF IInv, SpareIsOwn, WaitsForRestart, OwnPieces, Whole, Target
<1>3. RelayStored'
  BY DEF RelayStored
<1> QED BY <1>1, <1>2, <1>3, RunsOwnKept DEF IInv

LEMMA SavePendingKeeps ==
  ASSUME IInv, mode = "up", NEW task \in {"ble", "mesh"}, NEW i, NEW f \in BOOLEAN,
         i \in (IF f THEN Fleet ELSE Own), f => role = "manager",
         savePending(task, i, f)
  PROVE  IInv'
<1>1. /\ nvs' = [nvs EXCEPT !.url = i, !.pend = TRUE, !.fleet = f]
      /\ doomed' = doomed \cup {task}
      /\ UNCHANGED <<role, slot, boot, running, mode, load, ble, otaUrl, notified>>
  BY DEF savePending, Pending
<1>2. i \in AnyImage /\ nvs \in Records
  BY OwnAreImages DEF IInv, Types
<1>3. nvs' \in Records /\ nvs'.relay = nvs.relay /\ nvs'.url = i /\ nvs'.fleet = f
  BY <1>1, <1>2 DEF Records
<1> QED BY <1>1, <1>3, Idle, StoredKeeps

LEMMA RequestKeeps ==
  ASSUME IInv, AskManager \/ WifiOtaPacket
  PROVE  IInv'
<1>1. CASE AskManager
  <2>1. role = "manager" /\ mode = "up"
    BY <1>1 DEF AskManager, Runs
  <2>2. CASE \E i \in Own : savePending("ble", i, FALSE)
    BY <2>1, <2>2, SavePendingKeeps
  <2>3. CASE \E i \in Fleet : savePending("ble", i, TRUE)
    BY <2>1, <2>3, SavePendingKeeps
  <2> QED BY <1>1, <2>2, <2>3 DEF AskManager
<1>2. CASE WifiOtaPacket
  BY <1>2, SavePendingKeeps DEF WifiOtaPacket, Runs
<1> QED BY <1>1, <1>2

LEMMA SystemControlKeeps ==
  ASSUME IInv, SystemControl
  PROVE  IInv'
<1>1. /\ mode = "up" /\ nvs' \in {nvs, FreshNvs} /\ doomed' = doomed \cup {"ble"}
      /\ UNCHANGED <<role, slot, boot, running, mode, load, ble, otaUrl, notified>>
  BY DEF SystemControl, Runs
<1>2. /\ nvs' \in Records /\ ~nvs'.relay
      /\ nvs'.pend => nvs'.url \in (IF nvs'.fleet THEN Fleet ELSE Own)
                      /\ (nvs'.fleet => role = "manager")
  BY <1>1, RecordFacts, Idle DEF IInv, Types, Requested
<1> QED BY <1>1, <1>2, StoredKeeps

LEMMA DispatchKeeps ==
  ASSUME IInv, wifiOtaDispatch
  PROVE  IInv'
<1>1. /\ role = "node" /\ otaUrl' \in Own /\ notified' = TRUE
      /\ UNCHANGED <<role, slot, boot, running, mode, nvs, load, ble, doomed>>
  BY DEF wifiOtaDispatch
<1>2. Types' /\ Requested' /\ Loading' /\ Receiving'
  BY <1>1, OwnAreImages DEF IInv, Types, Requested, Loading, Receiving, Target
<1>3. SpareIsOwn' /\ WaitsForRestart' /\ RelayStored'
  BY <1>1 DEF IInv, SpareIsOwn, WaitsForRestart, RelayStored, OwnPieces, Target
<1> QED BY <1>1, <1>2, <1>3, RunsOwnKept DEF IInv

LEMMA TaskLoopKeeps ==
  ASSUME IInv, otaTaskLoop
  PROVE  IInv'
<1>1. /\ mode = "up" /\ notified /\ load.task = Nobody /\ notified' = FALSE
      /\ UNCHANGED <<role, boot, running, mode, nvs, ble, otaUrl, doomed>>
  BY DEF otaTaskLoop, Runs
<1>2. role = "node" /\ otaUrl \in Own /\ ~nvs.relay
  BY <1>1, Idle DEF IInv, Requested
<1>3. Requested' /\ Receiving' /\ WaitsForRestart' /\ RelayStored'
  BY <1>1, <1>2 DEF IInv, Requested, Receiving, WaitsForRestart, RelayStored
<1>4. CASE StartLoad("wifi", otaUrl, FALSE)
  <2>1. /\ load' = [task |-> "wifi", img |-> otaUrl, pos |-> 0, fleet |-> FALSE]
        /\ slot' = [slot EXCEPT ![Target] = Blank]
    BY <1>4 DEF StartLoad
  <2>2. /\ slot' \in [Slots -> [Places -> Pieces]] /\ slot'[running] = slot[running]
        /\ \A k \in Places : slot'[Target][k].img = Nobody
    BY <2>1, SpareErased DEF IInv
  <2>3. load' \in Loads
    BY <2>1, PlacesFacts DEF IInv, Types, Loads
  <2>4. Types'
    BY <1>1, <2>2, <2>3 DEF IInv, Types
  <2>5. Loading' /\ SpareIsOwn'
    BY <1>1, <1>2, <2>1, <2>2 DEF Loading, SpareIsOwn, OwnPieces, Target
  <2> QED BY <1>1, <1>3, <2>2, <2>4, <2>5, RunsOwnKept DEF IInv
<1>5. CASE UNCHANGED <<slot, load, crossed>>
  <2>1. Types' /\ Loading' /\ SpareIsOwn'
    BY <1>1, <1>5 DEF IInv, Types, Loading, SpareIsOwn, OwnPieces, Target
  <2> QED BY <1>1, <1>3, <1>5, <2>1, RunsOwnKept DEF IInv
<1> QED BY <1>4, <1>5 DEF otaTaskLoop

-----------------------------------------------------------------------------
(* The update over BLE.                                                    *)

\* One that ends without a new image to boot.
LEMMA BleOffKeeps ==
  ASSUME IInv, mode = "up", ble' = NoBle,
         UNCHANGED <<role, slot, boot, running, mode, nvs, load, otaUrl, notified, doomed>>
  PROVE  IInv'
<1>1. Types' /\ Requested' /\ Loading' /\ Receiving'
  BY RecordFacts DEF IInv, Types, Requested, Loading, Receiving, Target
<1>2. SpareIsOwn' /\ WaitsForRestart' /\ RelayStored'
  BY RecordFacts DEF IInv, SpareIsOwn, WaitsForRestart, RelayStored, OwnPieces, Whole, Target
<1> QED BY <1>1, <1>2, RunsOwnKept DEF IInv

\* One that goes on has written own pieces only, and none after a new image.
LEMMA BleOnKeeps ==
  ASSUME IInv, mode = "up", "ble" \notin doomed,
         ble' \in Transfers, ble'.img \in Own, Len(ble'.got) <= Size,
         slot' \in [Slots -> [Places -> Pieces]], slot'[running] = slot[running],
         \A m \in Places : slot'[Target][m].img \in Own \cup {Nobody},
         UNCHANGED <<role, boot, running, mode, nvs, load, otaUrl, notified, doomed>>
  PROVE  IInv'
<1>1. Types' /\ Requested' /\ Receiving'
  BY DEF IInv, Types, Requested, Receiving
<1>2. Loading'
  BY DEF IInv, Loading
<1>3. SpareIsOwn'
  BY DEF SpareIsOwn, OwnPieces, Target
<1>4. WaitsForRestart' /\ RelayStored'
  BY Idle DEF WaitsForRestart, RelayStored
<1> QED BY <1>1, <1>2, <1>3, <1>4, RunsOwnKept DEF IInv

LEMMA StartKeeps ==
  ASSUME IInv, handleStart
  PROVE  IInv'
<1>1. /\ mode = "up" /\ "ble" \notin doomed
      /\ UNCHANGED <<role, boot, running, mode, nvs, load, otaUrl, notified, doomed>>
  BY DEF handleStart, Runs
<1>2. ASSUME NEW i \in Own, ble' = [on |-> TRUE, img |-> i, got |-> << >>],
             slot' = [slot EXCEPT ![Target] = Blank]
      PROVE  IInv'
  <2>1. ble' \in Transfers /\ ble'.img \in Own /\ Len(ble'.got) <= Size
    BY <1>2, PlacesFacts, OwnAreImages DEF Transfers
  <2> QED BY <1>1, <1>2, <2>1, SpareErased, BleOnKeeps DEF IInv
<1>3. CASE ble' = NoBle /\ UNCHANGED <<slot, crossed>>
  BY <1>1, <1>3, BleOffKeeps
<1> QED BY <1>2, <1>3 DEF handleStart

LEMMA DataKeeps ==
  ASSUME IInv, handleData
  PROVE  IInv'
<1>1. /\ mode = "up" /\ "ble" \notin doomed /\ ble.on
      /\ UNCHANGED <<role, boot, running, mode, nvs, load, otaUrl, notified, doomed>>
  BY DEF handleData, Runs
<1>2. ASSUME NEW k \in Places, Len(ble.got) < Size,
             ble' = [ble EXCEPT !.got = Append(@, k)],
             slot' = [slot EXCEPT ![Target][Len(ble.got) + 1] = Piece(ble.img, k)]
      PROVE  IInv'
  <2>1. ble \in Transfers /\ ble.img \in Own /\ OwnPieces(Target)
    BY <1>1 DEF IInv, Types, Receiving, SpareIsOwn
  <2>2. ble.got \in Seq(Places)
    BY <2>1 DEF Transfers
  <2>3. Len(ble.got) + 1 \in Places
    BY <1>2, <2>2, PlacesFacts DEF Places
  <2>4. ble' \in Transfers /\ ble'.img = ble.img /\ Len(ble'.got) <= Size
    <3>1. Append(ble.got, k) \in Seq(Places) /\ Len(Append(ble.got, k)) = Len(ble.got) + 1
      BY <2>2
    <3>2. ble' = [ble EXCEPT !.got = Append(ble.got, k)]
      BY <1>2
    <3>3. ble' \in Transfers /\ ble'.img = ble.img /\ ble'.got = Append(ble.got, k)
      BY <2>1, <3>1, <3>2 DEF Transfers
    <3>4. Len(ble.got) + 1 <= Size
      BY <2>3 DEF Places
    <3> QED BY <3>1, <3>3, <3>4
  <2>5. /\ slot' \in [Slots -> [Places -> Pieces]] /\ slot'[running] = slot[running]
        /\ \A m \in Places : slot'[Target][m].img \in Own \cup {Nobody}
    BY <1>2, <2>1, <2>3, SpareWritten DEF IInv
  <2> QED BY <1>1, <2>1, <2>4, <2>5, BleOnKeeps
<1>3. CASE ble' = NoBle /\ UNCHANGED <<slot, crossed>>
  BY <1>1, <1>3, BleOffKeeps
<1> QED BY <1>2, <1>3 DEF handleData

LEMMA CommitKeeps ==
  ASSUME IInv, handleCommit \/ handleAbort
  PROVE  IInv'
<1>1. /\ mode = "up" /\ ble.on /\ ble' = NoBle
      /\ UNCHANGED <<role, slot, running, mode, nvs, load, otaUrl, notified>>
  BY DEF handleCommit, handleAbort, Runs
<1>2. CASE UNCHANGED <<boot, doomed>>
  BY <1>1, <1>2, BleOffKeeps
<1>3. CASE /\ Whole(Target) /\ boot' = Target /\ doomed' = doomed \cup {"ble"}
           /\ "ble" \notin doomed
  <2>1. Types'
    BY <1>1, <1>3, TwoSlots, RecordFacts DEF IInv, Types
  <2>2. Requested' /\ Loading' /\ Receiving'
    BY <1>1, RecordFacts DEF IInv, Requested, Loading, Receiving, Target
  <2>3. SpareIsOwn'
    BY <1>1 DEF IInv, SpareIsOwn, OwnPieces, Target
  <2>4. WaitsForRestart' /\ RelayStored'
    BY <1>1, <1>3, Idle DEF WaitsForRestart, RelayStored, Whole, Target
  <2> QED BY <1>1, <2>1, <2>2, <2>3, <2>4, RunsOwnKept DEF IInv
<1> QED BY <1>2, <1>3 DEF handleCommit, handleAbort, Accepts, Runs

-----------------------------------------------------------------------------
(* The theorem.                                                            *)

LEMMA NextKeeps ==
  ASSUME IInv, ~TornWrites, [UpdNext]_updVars
  PROVE  IInv'
<1>1. CASE UNCHANGED updVars
  BY <1>1 DEF updVars, IInv, Types, Requested, Loading, Receiving, SpareIsOwn,
              WaitsForRestart, RelayStored, RunsOwn, OwnPieces, Whole, ImageIn, Target
<1>2. CASE Download
  BY <1>2, FetchKeeps, FailKeeps, InstalledKeeps, StagedKeeps DEF Download
<1> QED BY <1>1, <1>2, RestartKeeps, PendingKeeps, SetupKeeps, RelayEndsKeeps,
           RequestKeeps, SystemControlKeeps, DispatchKeeps, TaskLoopKeeps,
           StartKeeps, DataKeeps, CommitKeeps DEF UpdNext

LEMMA InvIsSound == IInv => SlotsSound
<1> SUFFICES ASSUME IInv PROVE SlotsSound
  OBVIOUS
<1>1. slot \in [Slots -> [Places -> {Erased} \cup {Piece(i, k) : i \in Firmware, k \in Places}]]
  BY DEF IInv, Types, Pieces
<1>2. nvs.pend => nvs.url # Nobody
  BY OwnAreImages, ImagesAssumption DEF IInv, Requested
<1>3. load.task # Nobody => (load.task = "boot" <=> mode = "blocking")
  BY DEF IInv, Loading
<1>4. UpdTypeOK
  BY <1>1, <1>2, <1>3 DEF UpdTypeOK, IInv, Types, Receiving
<1>5. RelayMatches
  BY DEF IInv, RelayStored, RelayMatches
<1> QED BY <1>4, <1>5 DEF SlotsSound, IInv

\* The device always runs from a whole image made for it, and a manager relays
\* the image it stored, in the slot the relay reads (savePending,
\* wifiOtaStageToPartition, handleCommit, esp_ota_get_next_update_partition), if
\* the values of one record in NVS are written together or not at all.
THEOREM UpdatesAreSound == ASSUME ~TornWrites PROVE UpdSpec => []SlotsSound
<1>1. UpdInit => IInv
  BY InitInv
<1>2. IInv /\ [UpdNext]_updVars => IInv'
  BY NextKeeps
<1>3. IInv => SlotsSound
  BY InvIsSound
<1> QED BY <1>1, <1>2, <1>3, PTL DEF UpdSpec
-----------------------------------------------------------------------------
(* The image that was announced is the one that runs.                      *)

\* The slots are tables of pieces, and the download is a record.
Shape ==
  /\ boot \in Slots /\ running \in Slots
  /\ slot = [s \in Slots |-> [k \in Places |-> slot[s][k]]]
  /\ load = [task |-> load.task, img |-> load.img, pos |-> load.pos, fleet |-> load.fleet]
  /\ load.pos \in 0..Size

\* What was downloaded lies in the spare slot, unless somebody else wrote there.
Fetched ==
  load.task # Nobody /\ ~crossed =>
    \A k \in 1..load.pos : slot[Target][k] = Piece(load.img, k)

\* The image the device has said it restarts into is whole in the slot to boot,
\* unless another update goes on; no word outlives the restart.
ToldInv ==
  /\ Shape /\ crossed \in BOOLEAN
  /\ mode = "boot" => told = Nobody /\ load.task = Nobody
  /\ told # Nobody /\ ~crossed =>
       boot = Target /\ told \in Firmware /\ slot[Target] = Written(told)
  /\ Fetched

LEMMA InitTold == UpdInit => ToldInv
<1> SUFFICES ASSUME UpdInit PROVE ToldInv
  OBVIOUS
<1>1. PICK i \in Own : slot = [s \in Slots |-> IF s = 0 THEN Written(i) ELSE Blank]
  BY DEF UpdInit
<1>2. slot = [s \in Slots |-> [k \in Places |-> slot[s][k]]]
  BY <1>1 DEF Written, Blank
<1>3. /\ boot = 0 /\ running = 0 /\ load = NoLoad /\ told = Nobody /\ crossed = FALSE
  BY DEF UpdInit
<1>4. Shape
  BY <1>2, <1>3, PlacesFacts DEF Shape, NoLoad, Slots
<1> QED BY <1>3, <1>4 DEF ToldInv, Fetched, NoLoad

\* A step that writes no slot and announces nothing keeps all of it.
LEMMA QuietTold ==
  ASSUME ToldInv, UNCHANGED <<slot, boot, running, told, crossed>>, load' \in {load, NoLoad},
         mode' = "boot" => mode = "boot"
  PROVE  ToldInv'
<1>1. Target' = Target
  BY DEF Target
<1>2. load'.task = Nobody \/ load' = load
  BY DEF NoLoad
<1>3. Shape'
  <2>1. /\ NoLoad = [task |-> NoLoad.task, img |-> NoLoad.img, pos |-> NoLoad.pos,
                     fleet |-> NoLoad.fleet]
        /\ NoLoad.pos \in 0..Size
    BY PlacesFacts DEF NoLoad
  <2>2. CASE load' = load
    BY <2>2 DEF ToldInv, Shape
  <2>3. CASE load' = NoLoad
    BY <2>1, <2>3 DEF ToldInv, Shape
  <2> QED BY <2>2, <2>3
<1>4. Fetched'
  BY <1>1, <1>2 DEF ToldInv, Fetched
<1>5. mode' = "boot" => told' = Nobody /\ load'.task = Nobody
  BY <1>2 DEF ToldInv
<1> QED BY <1>1, <1>3, <1>4, <1>5 DEF ToldInv

LEMMA RebootTold ==
  ASSUME ToldInv, Reboot, UNCHANGED <<slot, boot>>
  PROVE  ToldInv'
<1>1. running' \in Slots /\ load' = NoLoad /\ told' = Nobody /\ crossed' = FALSE
  BY DEF Reboot, ToldInv, Shape, Slots
<1>2. Shape'
  BY <1>1, PlacesFacts DEF ToldInv, Shape, NoLoad
<1> QED BY <1>1, <1>2 DEF ToldInv, Fetched, NoLoad

\* What is written into the spare slot leaves its shape.
LEMMA SpareShape ==
  ASSUME Shape, UNCHANGED <<boot, running>>,
         \/ slot' = [slot EXCEPT ![Target] = Blank]
         \/ \E k, x : slot' = [slot EXCEPT ![Target][k] = x]
  PROVE  slot' = [s \in Slots |-> [k \in Places |-> slot'[s][k]]]
<1>1. CASE slot' = [slot EXCEPT ![Target] = Blank]
  BY <1>1 DEF Shape, Blank
<1>2. ASSUME NEW k, NEW x, slot' = [slot EXCEPT ![Target][k] = x]
      PROVE  slot' = [s \in Slots |-> [m \in Places |-> slot'[s][m]]]
  BY <1>2, ZenonT(40) DEF Shape
<1> QED BY <1>1, <1>2

LEMMA StartLoadTold ==
  ASSUME ToldInv, NEW task, NEW i, NEW fleet, StartLoad(task, i, fleet),
         UNCHANGED <<boot, running, told>>, mode' # "boot",
         told # Nobody => crossed' = TRUE, crossed' \in BOOLEAN
  PROVE  ToldInv'
<1>1. load' = [task |-> task, img |-> i, pos |-> 0, fleet |-> fleet]
  BY DEF StartLoad
<1>2. Shape'
  BY <1>1, SpareShape, PlacesFacts DEF StartLoad, ToldInv, Shape
<1> QED BY <1>1, <1>2 DEF ToldInv, Fetched

LEMMA FetchTold ==
  ASSUME ToldInv, Fetch
  PROVE  ToldInv'
<1>1. /\ load.task # Nobody /\ load.pos < Size /\ load.pos \in 0..Size
      /\ slot' = [slot EXCEPT ![Target][load.pos + 1] = Piece(load.img, load.pos + 1)]
      /\ load' = [load EXCEPT !.pos = @ + 1]
      /\ crossed' = (crossed \/ ble.on \/ told # Nobody)
      /\ UNCHANGED <<boot, running, mode, told>>
  BY DEF Fetch, Crossing, ToldInv, Shape
<1>2. /\ load'.pos = load.pos + 1 /\ load'.img = load.img /\ load'.task = load.task
      /\ load' = [task |-> load'.task, img |-> load'.img, pos |-> load'.pos,
                  fleet |-> load'.fleet]
  BY <1>1 DEF ToldInv, Shape
<1>3. load.pos + 1 \in Places /\ load.pos + 1 \in 0..Size /\ 1..load.pos \subseteq Places
  BY <1>1, PlacesFacts DEF Places
<1>4. Shape'
  BY <1>1, <1>2, <1>3, SpareShape DEF ToldInv, Shape
<1>5. Target' = Target /\ Target \in Slots
  BY <1>1 DEF ToldInv, Shape, Target, Slots
<1>6. \A k \in Places : slot'[Target][k] = IF k = load.pos + 1 THEN Piece(load.img, k)
                                           ELSE slot[Target][k]
  BY <1>1, <1>3, <1>5 DEF ToldInv, Shape
<1>7. Fetched'
  <2> SUFFICES ASSUME ~crossed', NEW k \in 1..(load.pos + 1)
               PROVE  slot'[Target][k] = Piece(load.img, k)
    BY <1>2, <1>5 DEF Fetched
  <2>1. ~crossed
    BY Zenon, <1>1
  <2>2. (k = load.pos + 1 \/ k \in 1..load.pos) /\ k \in Places
    BY <1>1, <1>3 DEF Places
  <2> QED BY <1>1, <1>6, <2>1, <2>2 DEF ToldInv, Fetched
<1>8. told' # Nobody => crossed'
  BY <1>1
<1>9. crossed' \in BOOLEAN
  BY <1>1
<1> QED BY <1>1, <1>4, <1>7, <1>8, <1>9 DEF ToldInv

LEMMA InstalledTold ==
  ASSUME ToldInv, Installed
  PROVE  ToldInv'
<1>1. /\ load.task # Nobody /\ load.pos = Size /\ Whole(Target) /\ boot' = Target
      /\ told' = load.img /\ load' = NoLoad /\ crossed' = (crossed \/ told # Nobody)
      /\ UNCHANGED <<slot, running, mode>>
  BY DEF Installed
<1>2. Target' = Target /\ Target \in Slots
  BY <1>1 DEF ToldInv, Shape, Target, Slots
<1>3. Shape' /\ Fetched'
  BY <1>1, <1>2, PlacesFacts DEF ToldInv, Shape, Fetched, NoLoad
<1>4. crossed' \in BOOLEAN
  BY <1>1
<1>5. ASSUME ~crossed' PROVE told' \in Firmware /\ slot[Target] = Written(told')
  <2>1. PICK i \in Firmware : slot[Target] = Written(i)
    BY <1>1 DEF Whole
  <2>2. slot[Target][1] = Piece(i, 1)
    BY <2>1, PlacesFacts DEF Written
  <2>3. slot[Target][1] = Piece(load.img, 1)
    BY <1>1, <1>5, PlacesFacts DEF ToldInv, Fetched, Places
  <2>4. i = load.img
    BY <2>2, <2>3 DEF Piece
  <2> QED BY <1>1, <2>1, <2>4
<1>6. mode' # "boot"
  BY <1>1 DEF ToldInv
<1> QED BY <1>1, <1>2, <1>3, <1>4, <1>5, <1>6 DEF ToldInv

LEMMA BleTold ==
  ASSUME ToldInv, handleStart \/ handleData
  PROVE  ToldInv'
<1>1. mode = "up" /\ UNCHANGED <<boot, running, mode, load, told>>
  BY DEF handleStart, handleData, Runs
<1>2. CASE UNCHANGED <<slot, crossed>>
  BY <1>1, <1>2, QuietTold
<1>3. CASE /\ Interfering
           /\ \/ slot' = [slot EXCEPT ![Target] = Blank]
              \/ \E k, x : slot' = [slot EXCEPT ![Target][k] = x]
  <2>1. crossed' = (crossed \/ load.task # Nobody \/ told # Nobody)
    BY <1>3 DEF Interfering
  <2>2. slot' = [s \in Slots |-> [k \in Places |-> slot'[s][k]]]
    BY <1>1, <1>3, SpareShape DEF ToldInv
  <2>3. Shape'
    BY <1>1, <2>2 DEF ToldInv, Shape
  <2>4. crossed' \in BOOLEAN /\ (~crossed' => load.task = Nobody /\ told = Nobody)
    BY <2>1
  <2> QED BY <1>1, <2>3, <2>4 DEF ToldInv, Fetched
<1> QED BY <1>2, <1>3 DEF handleStart, handleData

LEMMA CommitTold ==
  ASSUME ToldInv, handleCommit
  PROVE  ToldInv'
<1>1. mode = "up" /\ UNCHANGED <<slot, running, mode, load>>
  BY DEF handleCommit, Runs
<1>2. CASE UNCHANGED <<boot, told, doomed, crossed>>
  BY <1>1, <1>2, QuietTold
<1>3. CASE /\ Accepts /\ boot' = Target /\ told' = ImageIn(Target)
           /\ crossed' = (crossed \/ told # Nobody)
  <2>1. Target' = Target /\ Target \in Slots
    BY <1>1 DEF ToldInv, Shape, Target, Slots
  <2>2. PICK i \in Firmware : slot[Target] = Written(i)
    BY <1>3 DEF Accepts, Whole
  <2>3. told' = i
    BY <1>3, <2>2, PlacesFacts DEF ImageIn, Written, Piece
  <2>4. Shape'
    BY <1>1, <1>3, <2>1 DEF ToldInv, Shape
  <2>5. Fetched' /\ crossed' \in BOOLEAN
    BY <1>1, <1>3, <2>1 DEF ToldInv, Fetched
  <2> QED BY <1>1, <1>3, <2>1, <2>2, <2>3, <2>4, <2>5 DEF ToldInv
<1> QED BY <1>2, <1>3 DEF handleCommit

LEMMA StepTold ==
  ASSUME ToldInv, [UpdNext]_updVars
  PROVE  ToldInv'
<1>1. CASE UNCHANGED updVars
  BY <1>1, QuietTold DEF updVars, updHistory
<1>2. CASE esp_restart \/ PowerLoss
  BY <1>2, RebootTold DEF esp_restart, PowerLoss
<1>3. CASE wifiOtaRunPendingBlocking
  <2>1. mode = "boot" /\ UNCHANGED <<boot, running, told, crossed>>
    BY <1>3 DEF wifiOtaRunPendingBlocking, updHistory
  <2>2. CASE mode' = "late" /\ UNCHANGED <<slot, load>>
    BY <2>1, <2>2, QuietTold
  <2>3. CASE mode' = "blocking" /\ StartLoad("boot", nvs.url, nvs.fleet)
    <3>1. told = Nobody /\ crossed' \in BOOLEAN
      BY <2>1 DEF ToldInv
    <3> QED BY <2>1, <2>3, <3>1, StartLoadTold
  <2> QED BY <1>3, <2>2, <2>3 DEF wifiOtaRunPendingBlocking
<1>4. CASE setup
  <2>1. mode' # "boot" /\ UNCHANGED <<slot, boot, running, load, told, crossed>>
    BY <1>4 DEF setup, wifiOtaGetRelayPending, updHistory
  <2> QED BY <2>1, QuietTold
<1>5. CASE RelayEnds \/ AskManager \/ WifiOtaPacket \/ SystemControl \/ wifiOtaDispatch
           \/ handleAbort
  <2>1. UNCHANGED <<slot, boot, running, load, mode, told, crossed>>
    BY <1>5 DEF RelayEnds, AskManager, WifiOtaPacket, savePending, SystemControl,
                wifiOtaDispatch, handleAbort, updHistory
  <2> QED BY <2>1, QuietTold
<1>6. CASE Fail
  <2>1. UNCHANGED <<slot, boot, running, told, crossed>> /\ load' = NoLoad
        /\ (mode' = "boot" => mode = "boot")
    BY <1>6 DEF Fail, Over, updHistory
  <2> QED BY <2>1, QuietTold
<1>7. CASE Staged
  <2>1. UNCHANGED <<slot, boot, running, told, crossed, mode>> /\ load' = NoLoad
    BY <1>7 DEF Staged, updHistory
  <2> QED BY <2>1, QuietTold
<1>8. CASE otaTaskLoop
  <2>1. mode = "up" /\ UNCHANGED <<boot, running, mode, told>>
    BY <1>8 DEF otaTaskLoop, Runs
  <2>2. CASE StartLoad("wifi", otaUrl, FALSE) /\ Crossing
    <3>1. crossed' = (crossed \/ ble.on \/ told # Nobody)
      BY <2>2 DEF Crossing
    <3>2. crossed' \in BOOLEAN /\ (told # Nobody => crossed' = TRUE)
      BY <3>1
    <3> QED BY <2>1, <2>2, <3>2, StartLoadTold
  <2>3. CASE UNCHANGED <<slot, load, crossed>>
    BY <2>1, <2>3, QuietTold
  <2> QED BY <1>8, <2>2, <2>3 DEF otaTaskLoop
<1> QED BY <1>1, <1>2, <1>3, <1>4, <1>5, <1>6, <1>7, <1>8, FetchTold, InstalledTold, BleTold,
           CommitTold DEF UpdNext, Download

\* Only the restart begins anew, and it runs what was announced.
LEMMA StepRunsTold ==
  ASSUME ToldInv, [UpdNext]_updVars
  PROVE  [(mode' = "boot" /\ told # Nobody /\ ~crossed) => ImageIn(running') = told]_updVars
<1> SUFFICES ASSUME UpdNext, mode' = "boot", told # Nobody, ~crossed
             PROVE  ImageIn(running') = told
  OBVIOUS
<1>1. mode # "boot" /\ boot = Target /\ told \in Firmware /\ slot[Target] = Written(told)
  BY DEF ToldInv
<1>2. Reboot /\ UNCHANGED <<slot, boot>>
  BY <1>1 DEF UpdNext, esp_restart, PowerLoss, wifiOtaRunPendingBlocking, setup,
              wifiOtaGetRelayPending, RelayEnds, Download, Fetch, Fail, Over, Installed, Staged,
              AskManager, WifiOtaPacket, savePending, wifiOtaDispatch, otaTaskLoop,
              SystemControl, handleStart, handleData, handleCommit, handleAbort
<1>3. Whole(boot)
  BY <1>1 DEF Whole
<1>4. running' = boot
  BY <1>2, <1>3 DEF Reboot
<1>5. slot[running'][1].img = told
  BY <1>1, <1>4, PlacesFacts DEF Written, Piece
<1> QED BY <1>5 DEF ImageIn

\* When the device has said that it restarts into an image, that image runs after
\* the restart, wherever the power fails, unless two updates wrote the spare slot
\* at the same time (handleCommit, runOta, esp_ota_set_boot_partition).
THEOREM AnnouncedImageRuns == UpdSpec => OkMeansRuns
<1>1. UpdInit => ToldInv
  BY InitTold
<1>2. ToldInv /\ [UpdNext]_updVars => ToldInv'
  BY StepTold
<1>3. ToldInv /\ [UpdNext]_updVars =>
        [(mode' = "boot" /\ told # Nobody /\ ~crossed) => ImageIn(running') = told]_updVars
  BY StepRunsTold
<1> QED BY <1>1, <1>2, <1>3, PTL DEF UpdSpec, OkMeansRuns
-----------------------------------------------------------------------------
(* The station, for all networks, writes of the phone, engines that scan   *)
(* and events still on the way.  Four tasks write what the phone is shown, *)
(* and none of them looks at the link itself.  It is the order of the      *)
(* reports that makes it true: the newest one says how the link is, and    *)
(* whoever ends the link has it reported.                                  *)

Newest(q) == q[Len(q)]

StaTypes ==
  /\ enabled \in BOOLEAN /\ wanted \in BOOLEAN /\ connected \in BOOLEAN
  /\ wifiOn \in BOOLEAN /\ status \in BOOLEAN /\ scanning \in BOOLEAN
  /\ creds \in Nets \cup {NoNet} /\ ssid \in Nets \cup {NoNet}
  /\ link \in [st : {"down", "joining", "up"}, net : Nets \cup {NoNet}]
  /\ joiner \in [pc : {"out", "wait", "seen"}, net : Nets \cup {NoNet}]
  /\ events \in Seq({"got", "lost"}) /\ Len(events) <= MaxReports + 1
  /\ link.st # "down" => link.net # NoNet

\* What the driver has reported last is how the link is; the flags show it once
\* it is delivered.
FlagsFollow ==
  /\ events # << >> => (Newest(events) = "got" <=> link.st = "up")
  /\ events = << >> => (status <=> link.st = "up") /\ (connected <=> status)
  /\ joiner.pc = "seen" => status

\* A station that is wanted is wanted for the network named last.
NetFollows ==
  /\ wanted => creds # NoNet /\ link.net = creds
  /\ creds # NoNet => ssid \in {creds, NoNet}
  /\ joiner.pc # "out" => joiner.net = creds /\ creds # NoNet
  /\ joiner.pc = "out" => joiner = Out

StaInv == StaTypes /\ FlagsFollow /\ NetFollows

\* A report that is added is the newest one.
LEMMA NewestAdded ==
  ASSUME NEW S, NEW q \in Seq(S), NEW e \in S
  PROVE  /\ Append(q, e) \in Seq(S) /\ Append(q, e) # << >>
         /\ Len(Append(q, e)) = Len(q) + 1 /\ Newest(Append(q, e)) = e
  BY DEF Newest

\* A report that is delivered leaves the newest one, unless it was the last.
LEMMA NewestLeft ==
  ASSUME NEW S, NEW q \in Seq(S), q # << >>
  PROVE  /\ Tail(q) \in Seq(S) /\ Len(Tail(q)) = Len(q) - 1 /\ Head(q) \in S
         /\ Tail(q) = << >> => Newest(q) = Head(q)
         /\ Tail(q) # << >> => Newest(Tail(q)) = Newest(q)
  <1>1. Len(q) \in Nat \ {0} /\ Head(q) = q[1] /\ Head(q) \in S
    OBVIOUS
  <1>2. Tail(q) \in Seq(S) /\ Len(Tail(q)) = Len(q) - 1
    BY <1>1
  <1>3. ASSUME Tail(q) = << >> PROVE Newest(q) = Head(q)
    <2>1. Len(q) = 1
      BY <1>1, <1>2, <1>3
    <2> QED  BY <1>1, <2>1 DEF Newest
  <1>4. ASSUME Tail(q) # << >> PROVE Newest(Tail(q)) = Newest(q)
    <2>1. Len(Tail(q)) \in Nat \ {0}
      BY <1>2, <1>4
    <2>2. Len(Tail(q)) \in 1..Len(Tail(q)) /\ Len(Tail(q)) + 1 = Len(q)
      BY <1>1, <1>2, <2>1
    <2>3. Tail(q)[Len(Tail(q))] = q[Len(Tail(q)) + 1]
      BY <1>1, <1>2, <2>2
    <2> QED  BY <2>2, <2>3 DEF Newest
  <1> QED  BY <1>1, <1>2, <1>3, <1>4

LEMMA StaInitInv == StaInit => StaInv
  <1> SUFFICES ASSUME StaInit PROVE StaInv
    OBVIOUS
  <1>1. StaTypes
    <2>1. Len(events) <= MaxReports + 1
      BY ReportsAssumption DEF StaInit
    <2>2. link \in [st : {"down", "joining", "up"}, net : Nets \cup {NoNet}] /\ link.st = "down"
      BY DEF StaInit, Down
    <2>3. joiner \in [pc : {"out", "wait", "seen"}, net : Nets \cup {NoNet}]
      BY DEF StaInit, Out
    <2>4. /\ enabled \in BOOLEAN /\ wanted \in BOOLEAN /\ connected \in BOOLEAN
          /\ wifiOn \in BOOLEAN /\ status \in BOOLEAN /\ scanning \in BOOLEAN
      BY RadioAssumption, Zenon DEF StaInit
    <2>5. creds \in Nets \cup {NoNet} /\ ssid \in Nets \cup {NoNet}
      BY DEF StaInit
    <2>6. events \in Seq({"got", "lost"})
      BY DEF StaInit
    <2> QED  BY <2>1, <2>2, <2>3, <2>4, <2>5, <2>6 DEF StaTypes
  <1>2. FlagsFollow /\ NetFollows
    BY DEF StaInit, FlagsFollow, NetFollows, Down, Out
  <1> QED  BY <1>1, <1>2 DEF StaInv

\* A link that is left is down, and has been reported if it was not before.
LEMMA LeaveFacts ==
  ASSUME StaInv, Leave, Room
  PROVE  /\ link' \in [st : {"down", "joining", "up"}, net : Nets \cup {NoNet}]
         /\ link'.st = "down" /\ link'.net = link.net
         /\ events' \in Seq({"got", "lost"}) /\ Len(events') <= MaxReports + 1
         /\ events' # << >> => Newest(events') # "got"
         /\ events' = << >> => events = << >> /\ link.st = "down"
  <1>1. /\ link' \in [st : {"down", "joining", "up"}, net : Nets \cup {NoNet}]
        /\ link'.st = "down" /\ link'.net = link.net
    BY DEF StaInv, StaTypes, Leave
  <1>2. CASE link.st = "down"
    BY <1>1, <1>2 DEF StaInv, StaTypes, FlagsFollow, Leave, Ended
  <1>3. CASE link.st # "down"
    <2>1. events' = Append(events, "lost")
      BY <1>3 DEF Leave, Ended
    <2> QED
      BY <1>1, <2>1, NewestAdded, ReportsAssumption, SMTT(30) DEF StaInv, StaTypes, Room
  <1> QED  BY <1>2, <1>3

\* An attempt that begins is not up; what was up before has been reported lost.
LEMMA BeginFacts ==
  ASSUME StaInv, Room, NEW n \in Nets \cup {NoNet}, n # NoNet, Begin(n)
  PROVE  /\ wifiOn' = TRUE
         /\ link' \in [st : {"down", "joining", "up"}, net : Nets \cup {NoNet}]
         /\ link'.net = n
         /\ events' \in Seq({"got", "lost"}) /\ Len(events') <= MaxReports + 1
         /\ events' # << >> => (Newest(events') = "got" <=> link'.st = "up")
         /\ events' = << >> => events = << >> /\ (link'.st = "up" <=> link.st = "up")
  <1>1. CASE link.net = n /\ link.st # "down"
    BY <1>1 DEF Begin, StaInv, StaTypes, FlagsFollow
  <1>2. CASE ~(link.net = n /\ link.st # "down")
    <2>1. wifiOn' = TRUE /\ link' = [st |-> "joining", net |-> n] /\ events' = Ended
      BY <1>2 DEF Begin
    <2>2. CASE link.st = "down"
      BY <2>1, <2>2 DEF StaInv, StaTypes, FlagsFollow, Ended
    <2>3. CASE link.st # "down"
      <3>1. events' = Append(events, "lost")
        BY <2>1, <2>3 DEF Ended
      <3> QED
        BY <2>1, <3>1, NewestAdded, ReportsAssumption, SMTT(30) DEF StaInv, StaTypes, Room
    <2> QED  BY <2>2, <2>3
  <1> QED  BY <1>1, <1>2
\* What the driver does of itself is reported as it happens.
LEMMA DriverKeeps ==
  ASSUME StaInv, Joined \/ NotJoined \/ Dropped
  PROVE  StaInv'
  <1>1. UNCHANGED <<enabled, creds, wanted, connected, ssid, wifiOn, status, joiner, scanning>>
    BY DEF Joined, NotJoined, Dropped, flags
  <1>2. link.st # "down" /\ Room
    BY DEF Joined, NotJoined, Dropped
  <1>3. /\ link' \in [st : {"down", "joining", "up"}, net : Nets \cup {NoNet}]
        /\ link'.net = link.net
        /\ events' \in Seq({"got", "lost"}) /\ Len(events') <= MaxReports + 1
        /\ events' # << >> /\ (Newest(events') = "got" <=> link'.st = "up")
    <2>1. CASE Joined
      <3>1. link' = [link EXCEPT !.st = "up"] /\ events' = Append(events, "got")
        BY <2>1 DEF Joined
      <3> QED
        BY <1>2, <3>1, NewestAdded, ReportsAssumption DEF StaInv, StaTypes, Room
    <2>2. CASE NotJoined \/ Dropped
      <3>1. Leave
        BY <2>2 DEF NotJoined, Dropped
      <3>2. events' # << >>
        BY <1>2, <3>1, LeaveFacts
      <3> QED  BY <1>2, <3>1, <3>2, LeaveFacts
    <2> QED  BY <2>1, <2>2
  <1>4. link.net # NoNet
    BY <1>2 DEF StaInv, StaTypes
  <1>5. StaTypes'
    BY <1>1, <1>3, <1>4 DEF StaInv, StaTypes
  <1>6. FlagsFollow' /\ NetFollows'
    BY <1>1, <1>3 DEF StaInv, FlagsFollow, NetFollows
  <1> QED  BY <1>5, <1>6 DEF StaInv

\* A station taken up again joins the network it is wanted for.
LEMMA ReconnectFacts ==
  ASSUME StaInv, Reconnect
  PROVE  /\ link' \in [st : {"down", "joining", "up"}, net : Nets \cup {NoNet}]
         /\ link'.net = link.net /\ (link'.st = "up" <=> link.st = "up")
         /\ link'.st # "down" => link'.net # NoNet
  <1>1. CASE wanted /\ wifiOn /\ link.st = "down"
    <2>1. link' = [link EXCEPT !.st = "joining"] /\ link.net # NoNet
      BY <1>1 DEF Reconnect, StaInv, NetFollows
    <2> QED  BY <1>1, <2>1 DEF StaInv, StaTypes
  <1>2. CASE ~(wanted /\ wifiOn /\ link.st = "down")
    <2>1. link' = link
      BY <1>2 DEF Reconnect
    <2> QED  BY <2>1 DEF StaInv, StaTypes
  <1> QED  BY <1>1, <1>2

\* Once the newest report is delivered the flags show how the link is.
LEMMA EventKeeps ==
  ASSUME StaInv, ~Impatient, wifiEvent
  PROVE  StaInv'
  <1>1. UNCHANGED <<enabled, creds, wanted, ssid, wifiOn, joiner, scanning>>
    BY DEF wifiEvent
  <1>2. joiner.pc # "seen" /\ events # << >> /\ events' = Tail(events)
    BY DEF wifiEvent, Undisturbed
  <1>3. /\ events' \in Seq({"got", "lost"}) /\ Len(events') = Len(events) - 1
        /\ events' = << >> => Newest(events) = Head(events)
        /\ events' # << >> => Newest(events') = Newest(events)
    BY <1>2, NewestLeft DEF StaInv, StaTypes
  <1>4. Len(events') <= MaxReports + 1
    BY <1>2, <1>3, ReportsAssumption DEF StaInv, StaTypes
  <1>5. (status' <=> Head(events) = "got") /\ status' \in BOOLEAN
    BY DEF wifiEvent
  <1>6. /\ link' \in [st : {"down", "joining", "up"}, net : Nets \cup {NoNet}]
        /\ link'.net = link.net /\ (link'.st = "up" <=> link.st = "up")
        /\ link'.st # "down" => link'.net # NoNet
        /\ connected' \in BOOLEAN /\ (connected' <=> Head(events) = "got")
    <2>1. CASE Head(events) = "got" /\ connected' = TRUE /\ UNCHANGED link
      BY <2>1 DEF StaInv, StaTypes
    <2>2. CASE Head(events) = "lost" /\ Lost
      BY <2>2, ReconnectFacts DEF Lost
    <2> QED  BY <2>1, <2>2 DEF wifiEvent
  <1>7. StaTypes'
    BY <1>1, <1>3, <1>4, <1>5, <1>6 DEF StaInv, StaTypes
  <1>8. FlagsFollow'
    BY <1>1, <1>2, <1>3, <1>5, <1>6 DEF StaInv, FlagsFollow
  <1>9. NetFollows'
    BY <1>1, <1>6 DEF StaInv, NetFollows
  <1> QED  BY <1>7, <1>8, <1>9 DEF StaInv

\* A network that is asked for is the one the phone named last, or the station
\* is on it already.
LEMMA ConnectKeeps ==
  ASSUME StaInv, Room, joiner = Out, NEW n \in Nets \cup {NoNet}, creds' = n,
         n = creds \/ n # NoNet,
         wifiStaConnectAsync(n), enabled' \in BOOLEAN, UNCHANGED <<status, joiner, scanning>>
  PROVE  StaInv'
  <1>1. CASE UNCHANGED <<flags, link, wifiOn, events>> /\ (n = NoNet \/ Current(n))
    <2>1. UNCHANGED <<wanted, connected, ssid, link, wifiOn, events>>
      BY <1>1 DEF flags
    <2>2. n = creds \/ ~wanted
      BY <1>1 DEF StaInv, NetFollows, Current
    <2>3. n # NoNet => ssid \in {n, NoNet}
      BY <1>1 DEF StaInv, NetFollows, Current
    <2>4. StaTypes'
      BY <2>1 DEF StaInv, StaTypes
    <2>5. FlagsFollow'
      BY <2>1 DEF StaInv, FlagsFollow
    <2>6. NetFollows'
      BY <2>1, <2>2, <2>3 DEF StaInv, NetFollows, Out
    <2> QED  BY <2>4, <2>5, <2>6 DEF StaInv
  <1>2. CASE n # NoNet /\ wanted' = TRUE /\ ssid' = n /\ Begin(n) /\ UNCHANGED connected
    <2>1. /\ wifiOn' = TRUE
          /\ link' \in [st : {"down", "joining", "up"}, net : Nets \cup {NoNet}]
          /\ link'.net = n
          /\ events' \in Seq({"got", "lost"}) /\ Len(events') <= MaxReports + 1
          /\ events' # << >> => (Newest(events') = "got" <=> link'.st = "up")
          /\ events' = << >> => events = << >> /\ (link'.st = "up" <=> link.st = "up")
      BY <1>2, BeginFacts
    <2>2. StaTypes'
      BY <1>2, <2>1 DEF StaInv, StaTypes
    <2>3. FlagsFollow'
      BY <1>2, <2>1 DEF StaInv, FlagsFollow
    <2>4. NetFollows'
      BY <1>2, <2>1 DEF StaInv, NetFollows, Out
    <2> QED  BY <2>2, <2>3, <2>4 DEF StaInv
  <1> QED  BY <1>1, <1>2 DEF wifiStaConnectAsync, Known

\* A station given up is not wanted, and what it shows is what is reported.
LEMMA GivenUpKeeps ==
  ASSUME StaInv, joiner = Out, UNCHANGED <<status, joiner>>,
         enabled' \in BOOLEAN, scanning' \in BOOLEAN, wifiOn' \in BOOLEAN,
         creds' \in {creds, NoNet}, Room,
         \/ Leave /\ wanted' = FALSE /\ connected' = FALSE /\ ssid' = NoNet
         \/ wanted' = FALSE /\ UNCHANGED <<connected, ssid, link, events>>
  PROVE  StaInv'
  <1>1. CASE Leave /\ wanted' = FALSE /\ connected' = FALSE /\ ssid' = NoNet
    <2>1. /\ link' \in [st : {"down", "joining", "up"}, net : Nets \cup {NoNet}]
          /\ link'.st = "down" /\ link'.net = link.net
          /\ events' \in Seq({"got", "lost"}) /\ Len(events') <= MaxReports + 1
          /\ events' # << >> => Newest(events') # "got"
          /\ events' = << >> => events = << >> /\ link.st = "down"
      BY <1>1, LeaveFacts
    <2>2. StaTypes'
      BY <1>1, <2>1 DEF StaInv, StaTypes
    <2>3. FlagsFollow'
      BY <1>1, <2>1 DEF StaInv, FlagsFollow
    <2>4. NetFollows'
      BY <1>1, <2>1 DEF StaInv, NetFollows, Out
    <2> QED  BY <2>2, <2>3, <2>4 DEF StaInv
  <1>2. CASE wanted' = FALSE /\ UNCHANGED <<connected, ssid, link, events>>
    <2>1. StaTypes'
      BY <1>2 DEF StaInv, StaTypes
    <2>2. FlagsFollow'
      BY <1>2 DEF StaInv, FlagsFollow
    <2>3. NetFollows'
      BY <1>2 DEF StaInv, NetFollows, Out
    <2> QED  BY <2>1, <2>2, <2>3 DEF StaInv
  <1> QED  BY <1>1, <1>2

LEMMA PhoneKeeps ==
  ASSUME StaInv, ~Impatient, PhoneWrites
  PROVE  StaInv'
  <1>1. Room /\ joiner = Out /\ UNCHANGED <<status, joiner, scanning>>
    BY DEF PhoneWrites, Write
  <1>2. enabled \in BOOLEAN /\ scanning \in BOOLEAN /\ wifiOn \in BOOLEAN
        /\ creds \in Nets \cup {NoNet}
    BY DEF StaInv, StaTypes
  <1>3. CASE TurnOn
    <2>1. enabled' \in BOOLEAN /\ wifiStaConnectAsync(creds) /\ creds' = creds
      BY <1>3 DEF TurnOn
    <2> QED  BY <1>1, <1>2, <2>1, ConnectKeeps
  <1>4. ASSUME NEW n \in Nets, SetNet(n) PROVE StaInv'
    <2>1. enabled' \in BOOLEAN /\ wifiStaConnectAsync(n) /\ creds' = n
      BY <1>4 DEF SetNet
    <2>2. n # NoNet
      BY NetsAssumption
    <2> QED  BY <1>1, <1>2, <2>1, <2>2, ConnectKeeps
  <1>5. CASE TurnOff \/ Wipe \/ Hang
    <2>1. wifiStaDisconnect
      BY <1>5 DEF TurnOff, Wipe, Hang
    <2>2. enabled' \in BOOLEAN /\ creds' \in {creds, NoNet}
      BY <1>2, <1>5 DEF TurnOff, Wipe, Hang
    <2>3. wifiOn' \in BOOLEAN
      BY <1>2, <2>1 DEF wifiStaDisconnect
    <2>4. \/ Leave /\ wanted' = FALSE /\ connected' = FALSE /\ ssid' = NoNet
          \/ wanted' = FALSE /\ UNCHANGED <<connected, ssid, link, events>>
      BY <2>1 DEF wifiStaDisconnect
    <2>5. scanning' \in BOOLEAN
      BY <1>1, <1>2
    <2> QED  BY <1>1, <2>2, <2>3, <2>4, <2>5, GivenUpKeeps
  <1> QED  BY <1>3, <1>4, <1>5 DEF PhoneWrites

LEMMA EnginesKeep ==
  ASSUME StaInv, ~Impatient, wifiStaReleaseForScan
  PROVE  StaInv'
  <1>1. Room /\ joiner = Out /\ UNCHANGED <<enabled, creds, status, joiner>>
    BY DEF wifiStaReleaseForScan
  <1>2. scanning' \in BOOLEAN /\ wifiOn' \in BOOLEAN
    BY DEF wifiStaReleaseForScan
  <1>3. enabled' \in BOOLEAN
    BY <1>1 DEF StaInv, StaTypes
  <1>4. \/ Leave /\ wanted' = FALSE /\ connected' = FALSE /\ ssid' = NoNet
        \/ wanted' = FALSE /\ UNCHANGED <<connected, ssid, link, events>>
    BY DEF wifiStaReleaseForScan, Released, flags, StaInv, StaTypes
  <1> QED  BY <1>1, <1>2, <1>3, <1>4, GivenUpKeeps

\* An engine that stops ends the link, wanted or not: it is down until the
\* report of that is delivered.
LEMMA StopScanKeeps ==
  ASSUME StaInv, ~Impatient, StopScan
  PROVE  StaInv'
  <1>1. /\ Room /\ Leave
        /\ UNCHANGED <<enabled, creds, wanted, connected, ssid, status, joiner>>
    BY DEF StopScan, flags
  <1>2. scanning' \in BOOLEAN /\ wifiOn' \in BOOLEAN
    BY RadioAssumption DEF StopScan
  <1>3. /\ link' \in [st : {"down", "joining", "up"}, net : Nets \cup {NoNet}]
        /\ link'.st = "down" /\ link'.net = link.net
        /\ events' \in Seq({"got", "lost"}) /\ Len(events') <= MaxReports + 1
        /\ events' # << >> => Newest(events') # "got"
        /\ events' = << >> => events = << >> /\ link.st = "down"
    BY <1>1, LeaveFacts
  <1>4. StaTypes'
    BY <1>1, <1>2, <1>3 DEF StaInv, StaTypes
  <1>5. FlagsFollow'
    BY <1>1, <1>3 DEF StaInv, FlagsFollow
  <1>6. NetFollows'
    BY <1>1, <1>3 DEF StaInv, NetFollows
  <1> QED  BY <1>4, <1>5, <1>6 DEF StaInv

\* The update task takes the network it found, which nobody changes meanwhile.
LEMMA JoinerKeeps ==
  ASSUME StaInv, joinStation \/ JoinSees \/ JoinEnds \/ JoinTimeout
  PROVE  StaInv'
  <1>1. CASE joinStation
    <2>1. /\ Room /\ creds \in Nets \cup {NoNet} /\ creds # NoNet /\ wanted' = TRUE /\ Begin(creds)
          /\ joiner' = [pc |-> "wait", net |-> creds]
          /\ UNCHANGED <<enabled, creds, connected, ssid, status, scanning>>
      BY <1>1 DEF joinStation, Known, StaInv, StaTypes
    <2>2. /\ wifiOn' = TRUE
          /\ link' \in [st : {"down", "joining", "up"}, net : Nets \cup {NoNet}]
          /\ link'.net = creds
          /\ events' \in Seq({"got", "lost"}) /\ Len(events') <= MaxReports + 1
          /\ events' # << >> => (Newest(events') = "got" <=> link'.st = "up")
          /\ events' = << >> => events = << >> /\ (link'.st = "up" <=> link.st = "up")
      BY <2>1, BeginFacts
    <2>3. joiner' \in [pc : {"out", "wait", "seen"}, net : Nets \cup {NoNet}]
          /\ joiner'.pc = "wait" /\ joiner'.net = creds
      BY <2>1
    <2>4. StaTypes'
      BY <2>1, <2>2, <2>3 DEF StaInv, StaTypes
    <2>5. FlagsFollow'
      BY <2>1, <2>2, <2>3 DEF StaInv, FlagsFollow
    <2>6. NetFollows'
      BY <2>1, <2>2, <2>3 DEF StaInv, NetFollows
    <2> QED  BY <2>4, <2>5, <2>6 DEF StaInv
  <1>2. CASE JoinSees
    <2>1. /\ joiner.pc = "wait" /\ status /\ joiner' = [joiner EXCEPT !.pc = "seen"]
          /\ UNCHANGED <<enabled, creds, wanted, connected, ssid, link, wifiOn, status,
                         events, scanning>>
      BY <1>2 DEF JoinSees, flags
    <2>2. joiner' \in [pc : {"out", "wait", "seen"}, net : Nets \cup {NoNet}]
          /\ joiner'.pc = "seen" /\ joiner'.net = joiner.net
      BY <2>1 DEF StaInv, StaTypes
    <2>3. StaTypes'
      BY <2>1, <2>2 DEF StaInv, StaTypes
    <2>4. FlagsFollow' /\ NetFollows'
      BY <2>1, <2>2 DEF StaInv, FlagsFollow, NetFollows
    <2> QED  BY <2>3, <2>4 DEF StaInv
  <1>3. CASE JoinEnds
    <2>1. /\ joiner.pc = "seen" /\ joiner' = Out /\ connected' = TRUE /\ ssid' = joiner.net
          /\ UNCHANGED <<enabled, creds, wanted, link, wifiOn, status, events, scanning>>
      BY <1>3 DEF JoinEnds
    <2>2. status /\ joiner.net = creds
      BY <2>1 DEF StaInv, FlagsFollow, NetFollows
    <2>3. joiner' \in [pc : {"out", "wait", "seen"}, net : Nets \cup {NoNet}]
          /\ joiner'.pc = "out"
      BY <2>1 DEF Out
    <2>4. StaTypes'
      BY <2>1, <2>2, <2>3 DEF StaInv, StaTypes
    <2>5. FlagsFollow' /\ NetFollows'
      BY <2>1, <2>2, <2>3 DEF StaInv, FlagsFollow, NetFollows, Out
    <2> QED  BY <2>4, <2>5 DEF StaInv
  <1>4. CASE JoinTimeout
    <2>1. /\ joiner' = Out
          /\ UNCHANGED <<enabled, creds, wanted, connected, ssid, link, wifiOn, status,
                         events, scanning>>
      BY <1>4 DEF JoinTimeout, flags
    <2>2. joiner' \in [pc : {"out", "wait", "seen"}, net : Nets \cup {NoNet}]
          /\ joiner'.pc = "out"
      BY <2>1 DEF Out
    <2>3. StaTypes'
      BY <2>1, <2>2 DEF StaInv, StaTypes
    <2>4. FlagsFollow' /\ NetFollows'
      BY <2>1, <2>2 DEF StaInv, FlagsFollow, NetFollows, Out
    <2> QED  BY <2>3, <2>4 DEF StaInv
  <1> QED  BY <1>1, <1>2, <1>3, <1>4

LEMMA StaStepKeeps == ASSUME StaInv, ~Impatient, [StaNext]_staVars PROVE StaInv'
  <1>1. ASSUME UNCHANGED staVars PROVE StaInv'
    BY <1>1 DEF staVars, flags, StaInv, StaTypes, FlagsFollow, NetFollows, Newest
  <1> QED
    BY <1>1, DriverKeeps, EventKeeps, PhoneKeeps, EnginesKeep, StopScanKeeps, JoinerKeeps
    DEF StaNext

LEMMA StaInvIsTrue == StaInv => StationTrue
  <1> SUFFICES ASSUME StaInv PROVE StationTrue
    OBVIOUS
  <1>1. {enabled, wanted, connected, wifiOn, status, scanning} \subseteq BOOLEAN
    BY Zenon DEF StaInv, StaTypes
  <1>2. StaTypeOK
    BY <1>1 DEF StaInv, StaTypes, StaTypeOK
  <1>3. OnAskedNet
    BY DEF StaInv, NetFollows, OnAskedNet, Delivered
  <1>4. Delivered => (connected <=> link.st = "up") /\ (status <=> connected)
    BY Zenon DEF StaInv, FlagsFollow, Delivered
  <1>5. FlagTellsLink
    BY <1>4, Zenon DEF FlagTellsLink, StaInv, StaTypes
  <1> QED  BY <1>2, <1>3, <1>5 DEF StationTrue

\* What the phone is told of the station is true of its link whenever all
\* reports are delivered: connected or not, and to the network named last
\* (wifi_ota_handler.cpp).  That takes a phone and engines that leave the station
\* alone while the update task waits in joinStation.
THEOREM StationIsTrue == ASSUME ~Impatient PROVE StaSpec => []StationTrue
  <1>1. StaInit => StaInv
    BY StaInitInv
  <1>2. StaInv /\ [StaNext]_staVars => StaInv'
    BY StaStepKeeps
  <1> QED  BY <1>1, <1>2, StaInvIsTrue, PTL DEF StaSpec
-----------------------------------------------------------------------------
(* The lists, for all nodes, lists of the app, changes of phones and       *)
(* restarts.  The app writes its watch list in pieces that the manager     *)
(* passes on one by one, so what is invariant is about the writes still    *)
(* to come: applied to the manager's list they make it the app's.          *)

Filters == UNION {{w[i] : i \in DOMAIN w} : w \in WatchLists}
Writes == {<<"clear">>} \cup {<<"add", f>> : f \in Filters}

ListTypes ==
  /\ appIgnore \in IgnoreLists \cup {{}} /\ mgrIgnore \in IgnoreLists \cup {{}}
  /\ ignore \in [Nodes -> IgnoreLists \cup {{}}]
  /\ appWatch \in Seq(Filters) /\ mgrWatch \in Seq(Filters) /\ saved \in Seq(Filters)
  /\ lastCount = NoCount \/ lastCount = Len(saved)
  /\ watch = [n \in Nodes |-> watch[n]] /\ lastWatch = [n \in Nodes |-> lastWatch[n]]
  /\ linked \in BOOLEAN
  /\ syncs \in Seq(Seq(Writes) \ {<< >>}) /\ Len(syncs) <= 1

\* What nodes were sent fits into a packet, and what they have too.
Fits ==
  "watch" \notin LocalEdits =>
    \A n \in Nodes : /\ Len(watch[n]) <= WireMax
                     /\ lastWatch[n] = None \/ Len(lastWatch[n]) <= WireMax

\* A call that is not through yet clears and then adds all of the app's list, or
\* adds what the manager does not have of it yet.
Clears(call) ==
  /\ call[1] = <<"clear">> /\ Len(call) = Len(appWatch) + 1
  /\ \A i \in 1..Len(appWatch) : call[i + 1] = <<"add", appWatch[i]>>

Adds(call) ==
  /\ Len(mgrWatch) + Len(call) = Len(appWatch)
  /\ \A i \in 1..Len(mgrWatch) : mgrWatch[i] = appWatch[i]
  /\ \A i \in 1..Len(call) : call[i] = <<"add", appWatch[Len(mgrWatch) + i]>>

WritesComplete ==
  /\ ~linked => syncs = << >>
  /\ linked /\ syncs = << >> => mgrWatch = appWatch
  /\ syncs # << >> => Clears(syncs[1]) \/ Adds(syncs[1])

ListInv == ListTypes /\ Fits /\ WritesComplete

\* The writes of one call, from its first to its last.
LEMMA CallFacts ==
  ASSUME NEW list \in Seq(Filters)
  PROVE  /\ Sync(list) \in Seq(Writes) \ {<< >>}
         /\ Len(Sync(list)) = Len(list) + 1 /\ Sync(list)[1] = <<"clear">>
         /\ \A i \in 1..Len(list) : Sync(list)[i + 1] = <<"add", list[i]>>
  <1> DEFINE first == << <<"clear">> >>
             adds == [i \in DOMAIN list |-> <<"add", list[i]>>]
  <1>1. DOMAIN list = 1..Len(list) /\ Len(list) \in Nat /\ \A i \in 1..Len(list) : list[i] \in Filters
    OBVIOUS
  <1>2. first \in Seq(Writes) /\ Len(first) = 1 /\ first[1] = <<"clear">>
    BY DEF Writes
  <1>3. adds \in Seq(Writes) /\ Len(adds) = Len(list)
    BY <1>1 DEF Writes
  <1>4. \A i \in 1..Len(list) : adds[i] = <<"add", list[i]>>
    BY <1>1
  <1> HIDE DEF first, adds
  <1>5. /\ first \o adds \in Seq(Writes)
        /\ Len(first \o adds) = Len(first) + Len(adds)
        /\ \A i \in 1..Len(first) + Len(adds) :
             (first \o adds)[i] = IF i <= Len(first) THEN first[i] ELSE adds[i - Len(first)]
    BY <1>2, <1>3, ConcatProperties
  <1>6. Sync(list) = first \o adds
    BY DEF Sync, first, adds
  <1>7. Len(Sync(list)) = Len(list) + 1 /\ Sync(list) # << >>
    BY <1>1, <1>2, <1>3, <1>5, <1>6
  <1>8. (first \o adds)[1] = <<"clear">>
    BY <1>1, <1>2, <1>3, <1>5
  <1>9. ASSUME NEW i \in 1..Len(list) PROVE (first \o adds)[i + 1] = <<"add", list[i]>>
    <2>1. i + 1 \in 1..Len(first) + Len(adds) /\ ~(i + 1 <= Len(first)) /\ i + 1 - Len(first) = i
      BY <1>1, <1>2, <1>3
    <2> QED  BY <1>4, <1>5, <2>1
  <1> QED  BY <1>5, <1>6, <1>7, <1>8, <1>9

\* What remains of a call when its first write is through.
LEMMA RestFacts ==
  ASSUME NEW call \in Seq(Writes) \ {<< >>}
  PROVE  /\ Head(call) = call[1] /\ call[1] \in Writes
         /\ Tail(call) \in Seq(Writes) /\ Len(call) \in Nat \ {0}
         /\ Len(Tail(call)) = Len(call) - 1 /\ (Tail(call) = << >> <=> Len(call) = 1)
         /\ \A i \in 1..Len(call) - 1 : Tail(call)[i] = call[i + 1]
  <1>1. Len(call) \in Nat \ {0}
    BY EmptySeq
  <1>2. /\ Head(call) = call[1] /\ Head(call) \in Writes
        /\ Tail(call) \in Seq(Writes) /\ Len(Tail(call)) = Len(call) - 1
        /\ \A i \in 1..Len(Tail(call)) : Tail(call)[i] = call[i + 1]
    BY <1>1, HeadTailProperties
  <1>3. Tail(call) = << >> <=> Len(Tail(call)) = 0
    BY <1>2, EmptySeq
  <1> QED  BY <1>1, <1>2, <1>3

\* At most one call is under way; what is left of it takes its place.
LEMMA OneCall ==
  ASSUME NEW S, NEW q \in Seq(S), Len(q) <= 1, NEW c \in DOMAIN q, NEW rest \in S
  PROVE  /\ c = 1 /\ q # << >> /\ q[1] \in S
         /\ [q EXCEPT ![c] = rest] \in Seq(S) /\ Len([q EXCEPT ![c] = rest]) = 1
         /\ [q EXCEPT ![c] = rest] # << >> /\ [q EXCEPT ![c] = rest][1] = rest
  <1>1. c = 1 /\ Len(q) = 1
    OBVIOUS
  <1>2. [q EXCEPT ![1] = rest] \in Seq(S) /\ Len([q EXCEPT ![1] = rest]) = 1
        /\ [q EXCEPT ![1] = rest][1] = rest
    BY <1>1, ExceptSeq
  <1> QED  BY <1>1, <1>2, EmptySeq

LEMMA LastCallEnds ==
  ASSUME NEW S, NEW q \in Seq(S), Len(q) = 1
  PROVE  SubSeq(q, 1, 0) \o SubSeq(q, 2, Len(q)) = << >>
  <1>1. SubSeq(q, 1, 0) = << >> /\ SubSeq(q, 2, Len(q)) = << >>
    BY SubSeqEmpty
  <1> QED  BY <1>1

LEMMA SerializedFits ==
  ASSUME NEW S, NEW list \in Seq(S)
  PROVE  Len(Serialized(list)) <= WireMax
  <1>1. CASE Len(list) > WireMax
    <2>1. Len(SubSeq(list, 1, WireMax)) = WireMax
      BY <1>1, WireAssumption
    <2> QED  BY <1>1, <2>1, WireAssumption DEF Serialized
  <1>2. CASE ~(Len(list) > WireMax)
    BY <1>2, WireAssumption DEF Serialized
  <1> QED  BY <1>1, <1>2

LEMMA ListInitInv == ListInit => ListInv
  <1> SUFFICES ASSUME ListInit PROVE ListInv
    OBVIOUS
  <1>1. ListTypes
    <2>1. /\ appIgnore \in IgnoreLists \cup {{}} /\ mgrIgnore \in IgnoreLists \cup {{}}
          /\ ignore \in [Nodes -> IgnoreLists \cup {{}}]
          /\ lastCount = NoCount /\ linked \in BOOLEAN
      BY DEF ListInit, ListsEmpty
    <2>2. /\ appWatch \in Seq(Filters) /\ mgrWatch \in Seq(Filters) /\ saved \in Seq(Filters)
          /\ syncs \in Seq(Seq(Writes) \ {<< >>}) /\ Len(syncs) <= 1
      BY EmptySeq DEF ListInit, ListsEmpty
    <2>3. watch = [n \in Nodes |-> watch[n]] /\ lastWatch = [n \in Nodes |-> lastWatch[n]]
      BY DEF ListInit, ListsEmpty
    <2> QED  BY <2>1, <2>2, <2>3 DEF ListTypes
  <1>2. Fits
    BY WireAssumption DEF ListInit, ListsEmpty, Fits
  <1>3. WritesComplete
    BY DEF ListInit, ListsEmpty, WritesComplete
  <1> QED  BY <1>1, <1>2, <1>3 DEF ListInv

\* Nodes take over what they hear of the manager's lists.
LEMMA IgnoreHeard ==
  ASSUME ListTypes, NEW heard \in SUBSET Nodes, NEW list \in IgnoreLists \cup {{}},
         HearIgnore(heard, list)
  PROVE  ignore' \in [Nodes -> IgnoreLists \cup {{}}]
  BY DEF ListTypes, HearIgnore, ignoreListSet

LEMMA WatchHeard ==
  ASSUME ListTypes, Fits, NEW heard \in SUBSET Nodes, NEW list \in Seq(Filters),
         detectorSetFilters(heard, Serialized(list))
  PROVE  /\ watch' = [n \in Nodes |-> watch'[n]] /\ lastWatch' = [n \in Nodes |-> lastWatch'[n]]
         /\ Fits'
  <1> DEFINE sent == Serialized(list)
  <1>1. Len(sent) <= WireMax
    BY SerializedFits
  <1> HIDE DEF sent
  <1>2. PICK new \in SUBSET Nodes :
          /\ watch' = [n \in Nodes |-> IF n \in new THEN sent ELSE watch[n]]
          /\ lastWatch' = [n \in Nodes |-> IF n \in new THEN sent ELSE lastWatch[n]]
    BY DEF detectorSetFilters, sent
  <1> QED  BY <1>1, <1>2 DEF Fits
LEMMA AppIgnoresKeeps ==
  ASSUME ListInv, AppIgnores
  PROVE  ListInv'
  <1>1. /\ appIgnore' \in IgnoreLists
        /\ UNCHANGED <<appWatch, linked, syncs, mgrWatch, saved, lastCount, watch, lastWatch>>
    BY DEF AppIgnores
  <1>2. mgrIgnore' \in IgnoreLists \cup {{}} /\ ignore' \in [Nodes -> IgnoreLists \cup {{}}]
    <2>1. ASSUME WriteIgnore(appIgnore')
          PROVE  mgrIgnore' \in IgnoreLists \cup {{}} /\ ignore' \in [Nodes -> IgnoreLists \cup {{}}]
      BY <1>1, <2>1, IgnoreHeard DEF WriteIgnore, ListInv
    <2>2. ASSUME UNCHANGED <<mgrIgnore, ignore>>
          PROVE  mgrIgnore' \in IgnoreLists \cup {{}} /\ ignore' \in [Nodes -> IgnoreLists \cup {{}}]
      BY <2>2 DEF ListInv, ListTypes
    <2> QED  BY <2>1, <2>2 DEF AppIgnores
  <1>3. ListTypes'
    BY <1>1, <1>2 DEF ListInv, ListTypes
  <1>4. Fits'
    BY <1>1 DEF ListInv, Fits
  <1>5. WritesComplete'
    BY <1>1 DEF ListInv, WritesComplete, Clears, Adds
  <1> QED  BY <1>3, <1>4, <1>5 DEF ListInv

\* A call that has just begun will write all of the list.
LEMMA CallBegins ==
  ASSUME appWatch' \in Seq(Filters), syncs' = << Sync(appWatch') >>, linked'
  PROVE  /\ syncs' \in Seq(Seq(Writes) \ {<< >>}) /\ Len(syncs') <= 1
         /\ WritesComplete'
  <1>1. /\ Sync(appWatch') \in Seq(Writes) \ {<< >>}
        /\ Len(Sync(appWatch')) = Len(appWatch') + 1 /\ Sync(appWatch')[1] = <<"clear">>
        /\ \A i \in 1..Len(appWatch') : Sync(appWatch')[i + 1] = <<"add", appWatch'[i]>>
    BY CallFacts
  <1>2. /\ syncs' \in Seq(Seq(Writes) \ {<< >>}) /\ Len(syncs') = 1
        /\ syncs'[1] = Sync(appWatch') /\ syncs' # << >>
    BY <1>1
  <1>3. Clears(syncs[1])'
    BY <1>1, <1>2 DEF Clears
  <1> QED  BY <1>2, <1>3 DEF WritesComplete

LEMMA AppWatchesKeeps ==
  ASSUME ListInv, OneSync, AppWatches
  PROVE  ListInv'
  <1>1. UNCHANGED <<appIgnore, linked, mgrIgnore, mgrWatch, saved, lastCount, ignore, watch, lastWatch>>
    BY DEF AppWatches, mgr, nodeLists
  <1>2. syncs = << >> /\ appWatch' \in Seq(Filters)
    BY WatchListsAssumption DEF AppWatches, Filters
  <1>3. syncs' \in Seq(Seq(Writes) \ {<< >>}) /\ Len(syncs') <= 1 /\ WritesComplete'
    <2>1. CASE linked
      <3>1. syncs' = << Sync(appWatch') >>
        BY <1>2, <2>1 DEF AppWatches
      <3> QED  BY <1>1, <1>2, <2>1, <3>1, CallBegins
    <2>2. CASE ~linked
      <3>1. syncs' = << >>
        BY <1>2, <2>2 DEF AppWatches
      <3> QED  BY <1>1, <2>2, <3>1, EmptySeq DEF WritesComplete
    <2> QED  BY <2>1, <2>2
  <1>4. ListTypes'
    BY <1>1, <1>2, <1>3 DEF ListInv, ListTypes
  <1>5. Fits'
    BY <1>1 DEF ListInv, Fits
  <1> QED  BY <1>3, <1>4, <1>5 DEF ListInv

LEMMA AppConnectsKeeps ==
  ASSUME ListInv, AppConnects
  PROVE  ListInv'
  <1>1. /\ linked' = TRUE /\ syncs' = << Sync(appWatch') >> /\ appWatch' \in Seq(Filters)
        /\ UNCHANGED <<appIgnore, appWatch, mgrWatch, saved, lastCount, watch, lastWatch>>
    BY DEF AppConnects, ListInv, ListTypes
  <1>2. syncs' \in Seq(Seq(Writes) \ {<< >>}) /\ Len(syncs') <= 1 /\ WritesComplete'
    BY <1>1, CallBegins
  <1>3. mgrIgnore' \in IgnoreLists \cup {{}} /\ ignore' \in [Nodes -> IgnoreLists \cup {{}}]
    <2>1. appIgnore \in IgnoreLists \cup {{}} /\ ListTypes
      BY DEF ListInv, ListTypes
    <2> QED  BY <2>1, IgnoreHeard DEF AppConnects, WriteIgnore
  <1>4. ListTypes'
    BY <1>1, <1>2, <1>3 DEF ListInv, ListTypes
  <1>5. Fits'
    BY <1>1 DEF ListInv, Fits
  <1> QED  BY <1>2, <1>4, <1>5 DEF ListInv

\* The app is gone: nothing is said of what it had written so far.
LEMMA AppGoneKeeps ==
  ASSUME ListInv, AppLeaves \/ MgrRestarts
  PROVE  ListInv'
  <1>1. /\ linked' = FALSE /\ syncs' = << >>
        /\ UNCHANGED <<appIgnore, appWatch, saved, ignore, watch, lastWatch>>
    BY DEF AppLeaves, Abandoned, MgrRestarts, mgr, nodeLists
  <1>2. /\ mgrIgnore' \in IgnoreLists \cup {{}} /\ mgrWatch' \in Seq(Filters)
        /\ lastCount' = NoCount \/ lastCount' = Len(saved)
    BY DEF AppLeaves, MgrRestarts, mgr, ListInv, ListTypes
  <1>3. ListTypes'
    <2>1. linked' \in BOOLEAN /\ syncs' \in Seq(Seq(Writes) \ {<< >>}) /\ Len(syncs') <= 1
      <3>1. syncs' \in Seq(Seq(Writes) \ {<< >>})
        BY <1>1
      <3>2. Len(syncs') = 0
        BY <1>1
      <3>3. linked' \in BOOLEAN
        BY <1>1
      <3>4. \A k : k = 0 => k <= 1
        OBVIOUS
      <3>5. Len(syncs') <= 1
        BY <3>2, <3>4, Zenon
      <3> QED  BY <3>1, <3>3, <3>5, Zenon
    <2> QED  BY <1>1, <1>2, <2>1 DEF ListInv, ListTypes
  <1>4. Fits' /\ WritesComplete'
    BY <1>1 DEF ListInv, Fits, WritesComplete
  <1> QED  BY <1>3, <1>4 DEF ListInv

\* A write of the app takes the call one step on.
LEMMA SyncWritesKeeps ==
  ASSUME ListInv, NEW c \in DOMAIN syncs, SyncWrites(c)
  PROVE  ListInv'
  <1> DEFINE call == syncs[1]
  <1>1. /\ c = 1 /\ Len(syncs) = 1 /\ syncs # << >> /\ call \in Seq(Writes) \ {<< >>}
        /\ syncs \in Seq(Seq(Writes) \ {<< >>})
    BY OneCall DEF ListInv, ListTypes
  <1>2. /\ UNCHANGED <<appIgnore, appWatch, linked, mgrIgnore, saved, lastCount, ignore>>
        /\ mgrWatch' = IF call[1][1] = "clear" THEN << >> ELSE Append(mgrWatch, call[1][2])
        /\ syncs' = IF Tail(call) # << >> THEN [syncs EXCEPT ![1] = Tail(call)]
                    ELSE SubSeq(syncs, 1, 0) \o SubSeq(syncs, 2, Len(syncs))
    BY <1>1, RestFacts DEF SyncWrites, Cleared
  <1>3. linked
    BY <1>1 DEF ListInv, WritesComplete
  <1> HIDE DEF call
  <1>4. /\ call[1] \in Writes /\ Tail(call) \in Seq(Writes) /\ Len(call) \in Nat \ {0}
        /\ Len(Tail(call)) = Len(call) - 1 /\ (Tail(call) = << >> <=> Len(call) = 1)
        /\ \A i \in 1..Len(call) - 1 : Tail(call)[i] = call[i + 1]
    BY <1>1, RestFacts
  <1>5. appWatch \in Seq(Filters) /\ mgrWatch \in Seq(Filters)
    BY DEF ListInv, ListTypes
  <1>6. /\ mgrWatch' \in Seq(Filters)
        /\ Len(mgrWatch') + Len(Tail(call)) = Len(appWatch)
        /\ \A i \in 1..Len(mgrWatch') : mgrWatch'[i] = appWatch[i]
        /\ \A i \in 1..Len(Tail(call)) : Tail(call)[i] = <<"add", appWatch[Len(mgrWatch') + i]>>
    <2>1. CASE Clears(call)
      <3>1. mgrWatch' = << >>
        BY <1>2, <2>1 DEF Clears
      <3>2. /\ Len(call) = Len(appWatch) + 1
            /\ \A i \in 1..Len(appWatch) : call[i + 1] = <<"add", appWatch[i]>>
        BY <2>1 DEF Clears
      <3>3. Len(mgrWatch') = 0 /\ mgrWatch' \in Seq(Filters)
        BY <3>1
      <3>4. Len(Tail(call)) = Len(appWatch) /\ Len(appWatch) \in Nat
        BY <1>4, <1>5, <3>2
      <3>5. \A i \in 1..Len(Tail(call)) : Tail(call)[i] = <<"add", appWatch[i]>>
        BY <1>4, <3>2, <3>4
      <3>6. \A i \in 1..Len(Tail(call)) : Len(mgrWatch') + i = i
        BY <3>3
      <3>7. \A i \in 1..Len(Tail(call)) : Tail(call)[i] = <<"add", appWatch[Len(mgrWatch') + i]>>
        BY <3>5, <3>6
      <3>8. \A i \in 1..Len(mgrWatch') : mgrWatch'[i] = appWatch[i]
        BY <3>3
      <3>9. Len(mgrWatch') + Len(Tail(call)) = Len(appWatch)
        BY <3>3, <3>4
      <3> QED  BY <3>3, <3>7, <3>8, <3>9, Zenon
    <2>2. CASE Adds(call)
      <3>1. /\ Len(mgrWatch) + Len(call) = Len(appWatch)
            /\ \A i \in 1..Len(mgrWatch) : mgrWatch[i] = appWatch[i]
            /\ \A i \in 1..Len(call) : call[i] = <<"add", appWatch[Len(mgrWatch) + i]>>
        BY <2>2 DEF Adds
      <3>2. Len(mgrWatch) \in Nat /\ Len(appWatch) \in Nat
        BY <1>5
      <3>3. /\ call[1] = <<"add", appWatch[Len(mgrWatch) + 1]>>
            /\ Len(mgrWatch) + 1 \in 1..Len(appWatch)
        BY <1>4, <3>1, <3>2
      <3> DEFINE added == appWatch[Len(mgrWatch) + 1]
      <3>4. added \in Filters
        BY <1>5, <3>3
      <3> HIDE DEF added
      <3>5. mgrWatch' = Append(mgrWatch, added)
        <4>1. call[1] = <<"add", added>>
          BY <3>3 DEF added
        <4> QED  BY <1>2, <4>1
      <3>6. /\ mgrWatch' \in Seq(Filters) /\ Len(mgrWatch') = Len(mgrWatch) + 1
            /\ \A i \in 1..Len(mgrWatch) : mgrWatch'[i] = mgrWatch[i]
            /\ mgrWatch'[Len(mgrWatch) + 1] = added
        BY <1>5, <3>4, <3>5
      <3>7. Len(mgrWatch') + Len(Tail(call)) = Len(appWatch)
        BY <1>4, <3>1, <3>2, <3>6
      <3>8. \A i \in 1..Len(mgrWatch') : mgrWatch'[i] = appWatch[i]
        BY <3>1, <3>2, <3>6 DEF added
      <3>9. ASSUME NEW i \in 1..Len(Tail(call))
            PROVE  Tail(call)[i] = <<"add", appWatch[Len(mgrWatch') + i]>>
        <4>1. i \in 1..Len(call) - 1 /\ i + 1 \in 1..Len(call)
              /\ Len(mgrWatch) + (i + 1) = Len(mgrWatch') + i
          BY <1>4, <3>2, <3>6
        <4>2. Tail(call)[i] = call[i + 1]
          BY <1>4, <4>1
        <4>3. call[i + 1] = <<"add", appWatch[Len(mgrWatch) + (i + 1)]>>
          BY <3>1, <4>1
        <4> QED  BY <4>1, <4>2, <4>3
      <3> QED  BY <3>6, <3>7, <3>8, <3>9
    <2> QED  BY <1>1, <2>1, <2>2 DEF ListInv, WritesComplete, call
  <1>7. syncs' \in Seq(Seq(Writes) \ {<< >>}) /\ Len(syncs') <= 1 /\ WritesComplete'
    <2>1. CASE Tail(call) # << >>
      <3>1. /\ syncs' \in Seq(Seq(Writes) \ {<< >>}) /\ Len(syncs') = 1
            /\ syncs' # << >> /\ syncs'[1] = Tail(call)
        BY <1>1, <1>2, <1>4, <2>1, OneCall
      <3>2. Adds(syncs[1])'
        BY <1>2, <1>6, <3>1 DEF Adds
      <3>3. WritesComplete'
        BY <1>2, <1>3, <3>1, <3>2, Zenon DEF WritesComplete
      <3> QED  BY <3>1, <3>3
    <2>2. CASE Tail(call) = << >>
      <3>1. syncs' = << >>
        BY <1>1, <1>2, <2>2, LastCallEnds
      <3>2. Len(mgrWatch') = Len(appWatch)
        <4>1. Len(Tail(call)) = 0 /\ Len(mgrWatch') \in Nat /\ Len(appWatch) \in Nat
          BY <1>4, <1>5, <1>6, <2>2
        <4>2. Len(mgrWatch') + Len(Tail(call)) = Len(appWatch)
          BY <1>6, Zenon
        <4>3. Len(mgrWatch') + 0 = Len(appWatch)
          BY <4>1, <4>2, Zenon
        <4> QED  BY <4>1, <4>3
      <3>3. mgrWatch' = appWatch
        BY <1>5, <1>6, <3>2, SeqEqual
      <3>4. syncs' \in Seq(Seq(Writes) \ {<< >>}) /\ Len(syncs') <= 1
        BY <3>1, EmptySeq
      <3>5. WritesComplete'
        BY <1>2, <3>1, <3>3, Zenon DEF WritesComplete
      <3> QED  BY <3>4, <3>5
    <2> QED  BY <2>1, <2>2
  <1>8. /\ watch' = [n \in Nodes |-> watch'[n]] /\ lastWatch' = [n \in Nodes |-> lastWatch'[n]]
        /\ Fits'
    <2>1. PICK heard \in SUBSET Nodes : detectorSetFilters(heard, Serialized(mgrWatch'))
      BY DEF SyncWrites
    <2> QED  BY <1>6, <2>1, WatchHeard DEF ListInv
  <1>9. ListTypes'
    BY <1>2, <1>6, <1>7, <1>8 DEF ListInv, ListTypes
  <1> QED  BY <1>7, <1>8, <1>9 DEF ListInv

LEMMA HeartbeatKeeps ==
  ASSUME ListInv,
         \/ bleGattMgrPersistOfflineTick
         \/ \E heard \in SUBSET Nodes : RepeatIgnore(heard) \/ RepeatWatch(heard)
  PROVE  ListInv'
  <1>1. UNCHANGED <<appIgnore, appWatch, linked, syncs, mgrIgnore, mgrWatch>>
    BY DEF bleGattMgrPersistOfflineTick, RepeatIgnore, RepeatWatch, app, mgr
  <1>2. saved' \in Seq(Filters) /\ (lastCount' = NoCount \/ lastCount' = Len(saved'))
    BY DEF bleGattMgrPersistOfflineTick, RepeatIgnore, RepeatWatch, mgr, ListInv, ListTypes
  <1>3. ignore' \in [Nodes -> IgnoreLists \cup {{}}]
    <2>1. ASSUME NEW heard \in SUBSET Nodes, RepeatIgnore(heard)
          PROVE  ignore' \in [Nodes -> IgnoreLists \cup {{}}]
      <3>1. mgrIgnore \in IgnoreLists \cup {{}} /\ ListTypes
        BY DEF ListInv, ListTypes
      <3> QED  BY <2>1, <3>1, IgnoreHeard DEF RepeatIgnore
    <2>2. ASSUME UNCHANGED ignore PROVE ignore' \in [Nodes -> IgnoreLists \cup {{}}]
      BY <2>2 DEF ListInv, ListTypes
    <2> QED  BY <2>1, <2>2 DEF bleGattMgrPersistOfflineTick, RepeatWatch, nodeLists
  <1>4. /\ watch' = [n \in Nodes |-> watch'[n]] /\ lastWatch' = [n \in Nodes |-> lastWatch'[n]]
        /\ Fits'
    <2> DEFINE Goal == /\ watch' = [n \in Nodes |-> watch'[n]]
                       /\ lastWatch' = [n \in Nodes |-> lastWatch'[n]] /\ Fits'
    <2>1. ASSUME NEW heard \in SUBSET Nodes, RepeatWatch(heard) PROVE Goal
      <3>1. mgrWatch \in Seq(Filters) /\ ListTypes /\ Fits
        BY DEF ListInv, ListTypes
      <3> QED  BY <2>1, <3>1, WatchHeard DEF RepeatWatch
    <2>2. ASSUME UNCHANGED <<watch, lastWatch>> PROVE Goal
      BY <2>2 DEF ListInv, ListTypes, Fits
    <2> QED  BY <2>1, <2>2 DEF bleGattMgrPersistOfflineTick, RepeatIgnore, nodeLists
  <1>5. ListTypes'
    BY <1>1, <1>2, <1>3, <1>4 DEF ListInv, ListTypes
  <1>6. WritesComplete'
    BY <1>1 DEF ListInv, WritesComplete, Clears, Adds
  <1> QED  BY <1>4, <1>5, <1>6 DEF ListInv

\* What happens to a node changes its own copies.
LEMMA NodeKeeps ==
  ASSUME ListInv, NEW n \in Nodes, LocalEdit(n) \/ NodeRestarts(n)
  PROVE  ListInv'
  <1>1. UNCHANGED <<appIgnore, appWatch, linked, syncs, mgrIgnore, mgrWatch, saved, lastCount>>
    BY DEF LocalEdit, NodeRestarts, app, mgr
  <1>2. ignore' \in [Nodes -> IgnoreLists \cup {{}}]
    <2>1. ignore \in [Nodes -> IgnoreLists \cup {{}}]
      BY DEF ListInv, ListTypes
    <2>2. \E x \in IgnoreLists \cup {{}} : ignore' = [ignore EXCEPT ![n] = x]
      BY <2>1 DEF LocalEdit, NodeRestarts
    <2> QED  BY <2>1, <2>2
  <1>3. /\ watch' = [m \in Nodes |-> watch'[m]] /\ lastWatch' = [m \in Nodes |-> lastWatch'[m]]
        /\ Fits'
    <2>1. watch = [m \in Nodes |-> watch[m]] /\ lastWatch = [m \in Nodes |-> lastWatch[m]]
      BY DEF ListInv, ListTypes
    <2>2. ASSUME LocalEdit(n), NEW what \in LocalEdits, NEW w \in WatchLists,
                 watch' = [watch EXCEPT ![n] = IF what = "watch" THEN w ELSE @]
          PROVE  watch' = [m \in Nodes |-> watch'[m]] /\ Fits'
      BY <2>1, <2>2 DEF ListInv, Fits, LocalEdit
    <2>3. ASSUME NodeRestarts(n), NEW kept \in {<< >>, watch[n]},
                 watch' = [watch EXCEPT ![n] = kept],
                 lastWatch' = [lastWatch EXCEPT ![n] = IF kept = << >> THEN None ELSE kept]
          PROVE  /\ watch' = [m \in Nodes |-> watch'[m]]
                 /\ lastWatch' = [m \in Nodes |-> lastWatch'[m]] /\ Fits'
      <3>1. /\ watch' = [m \in Nodes |-> watch'[m]]
            /\ lastWatch' = [m \in Nodes |-> lastWatch'[m]]
            /\ \A m \in Nodes : watch'[m] = watch[m] \/ watch'[m] = << >>
            /\ \A m \in Nodes : lastWatch'[m] \in {lastWatch[m], None, watch[m]}
        BY <2>1, <2>3
      <3>2. Len(<< >>) <= WireMax
        BY WireAssumption
      <3> QED  BY <3>1, <3>2 DEF ListInv, Fits
    <2>4. CASE LocalEdit(n)
      BY <2>1, <2>2, <2>4 DEF LocalEdit
    <2>5. CASE NodeRestarts(n)
      BY <2>3, <2>5 DEF NodeRestarts
    <2> QED  BY <2>4, <2>5
  <1>4. ListTypes'
    BY <1>1, <1>2, <1>3 DEF ListInv, ListTypes
  <1>5. WritesComplete'
    BY <1>1 DEF ListInv, WritesComplete, Clears, Adds
  <1> QED  BY <1>3, <1>4, <1>5 DEF ListInv

LEMMA ListStepKeeps == ASSUME ListInv, OneSync, [ListNext]_listVars PROVE ListInv'
  <1>1. ASSUME UNCHANGED listVars PROVE ListInv'
    BY <1>1 DEF listVars, app, mgr, nodeLists, ListInv, ListTypes, Fits, WritesComplete, Clears, Adds
  <1> QED
    BY <1>1, AppIgnoresKeeps, AppWatchesKeeps, AppConnectsKeeps, AppGoneKeeps, SyncWritesKeeps,
       HeartbeatKeeps, NodeKeeps DEF ListNext

LEMMA ListInvIsTrue == ListInv => ManagerListTrue
  <1> SUFFICES ASSUME ListInv PROVE ManagerListTrue
    OBVIOUS
  <1>1. {mgrIgnore} \cup {ignore[n] : n \in Nodes} \subseteq IgnoreLists \cup {{}}
    BY DEF ListInv, ListTypes
  <1>2. lastCount = NoCount \/ lastCount <= Len(saved)
    BY DEF ListInv, ListTypes
  <1>3. ListTypeOK
    BY <1>1, <1>2 DEF ListInv, Fits, WritesComplete, ListTypeOK
  <1>4. SyncedIsCurrent
    BY DEF ListInv, WritesComplete, SyncedIsCurrent
  <1> QED  BY <1>3, <1>4 DEF ManagerListTrue

\* When the app has written all of its watch list, one filter at a time and with
\* connections that end in between, the manager has exactly that list
\* (DetectorConfigCallbacks, bleGattMgrPersistOfflineTick).  That takes an app
\* that changes its list only when the last call is through.
THEOREM ManagerListIsTrue == ASSUME OneSync PROVE ListSpec => []ManagerListTrue
  <1>1. ListInit => ListInv
    BY ListInitInv
  <1>2. ListInv /\ [ListNext]_listVars => ListInv'
    BY ListStepKeeps
  <1> QED  BY <1>1, <1>2, ListInvIsTrue, PTL DEF ListSpec

(***************************************************************************)
(* The spool's table and its counts, for every set of keys, every capacity *)
(* and every fault.  DropsCounted is not inductive by itself: a restart    *)
(* takes the counts from the file, so the file's must add up too.  That    *)
(* the table implements LatestDetections needs the same invariant: with    *)
(* two slots of one key it would hold an outdated detection beside the     *)
(* latest.                                                                 *)
(***************************************************************************)

\* What the file promises the next boot.
FileCounted == flash.created = Len(flash.slots) + flash.dropped

SpoolInv == TypeOK /\ SlotsDistinct /\ DropsCounted /\ FileCounted

USE CapAssumption, LimitAssumption

\* The empty table and the missing file.
LEMMA EmptyHolds ==
  /\ OnePerKey(<<>>)
  /\ NoFile \in Images /\ NoFile.slots = <<>>
  /\ NoFile.created = Len(NoFile.slots) + NoFile.dropped
<1>1. <<>> \in Seq(Slot) /\ Len(<<>>) = 0
  OBVIOUS
<1>2. OnePerKey(<<>>)
  BY <1>1 DEF OnePerKey
<1>3. NoFile \in Images
  BY <1>1 DEF NoFile, Images
<1> QED BY <1>1, <1>2, <1>3 DEF NoFile

LEMMA InitHolds == Init => SpoolInv
<1> SUFFICES ASSUME Init PROVE SpoolInv
  OBVIOUS
<1>1. <<>> \in Seq(Slot) /\ Len(<<>>) = 0
  OBVIOUS
<1>2. TypeOK
  BY <1>1, EmptyHolds DEF Init, TypeOK
<1>3. SlotsDistinct /\ FileCounted
  BY EmptyHolds DEF Init, SlotsDistinct, FileCounted
<1>4. DropsCounted
  BY <1>1 DEF Init, DropsCounted
<1> QED BY <1>2, <1>3, <1>4 DEF SpoolInv

\* A new detection is a slot.
LEMMA EntryIsSlot ==
  ASSUME TypeOK, NEW k \in Keys, NEW h \in 1..HitLimit
  PROVE  Entry(k, h) \in Slot
  BY DEF TypeOK, Entry, Slot

\* The hit count saturates.
LEMMA HitsStayInRange ==
  ASSUME NEW h \in 1..HitLimit
  PROVE  OneMore(h) \in 1..HitLimit
  BY DEF OneMore

\* Writing one slot of the table keeps its length and the other slots.
LEMMA Overwrite ==
  ASSUME TypeOK, NEW i \in DOMAIN slots, NEW e \in Slot,
         slots' = [slots EXCEPT ![i] = e]
  PROVE  /\ slots' \in Seq(Slot) /\ Len(slots') = Len(slots)
         /\ \A j \in DOMAIN slots' :
              j \in DOMAIN slots /\ slots'[j] = IF j = i THEN e ELSE slots[j]
  BY DEF TypeOK

LEMMA RefreshHolds ==
  ASSUME SpoolInv, NEW k \in Keys, Refresh(k)
  PROVE  slots' \in Seq(Slot) /\ OnePerKey(slots)' /\ Len(slots') = Len(slots)
<1> USE DEF SpoolInv
<1>1. PICK i \in DOMAIN slots :
        /\ slots[i].key = k
        /\ slots' = [slots EXCEPT ![i] = Entry(k, OneMore(slots[i].hits))]
  BY DEF Refresh
<1>2. slots[i].hits \in 1..HitLimit
  <2>1. slots[i] \in Slot
    BY DEF TypeOK
  <2> QED BY <2>1 DEF Slot
<1> DEFINE e == Entry(k, OneMore(slots[i].hits))
<1>3. e \in Slot /\ e.key = k
  BY <1>2, HitsStayInRange, EntryIsSlot DEF Entry
<1> HIDE DEF e
<1>4. slots' = [slots EXCEPT ![i] = e]
  BY <1>1 DEF e
<1>5. /\ slots' \in Seq(Slot) /\ Len(slots') = Len(slots)
      /\ \A j \in DOMAIN slots' :
           j \in DOMAIN slots /\ slots'[j] = IF j = i THEN e ELSE slots[j]
  BY <1>3, <1>4, Overwrite
<1>6. \A j \in DOMAIN slots' : slots'[j].key = slots[j].key
  BY <1>1, <1>3, <1>5
<1> QED BY <1>5, <1>6 DEF SlotsDistinct, OnePerKey

LEMMA InsertHolds ==
  ASSUME SpoolInv, NEW k \in Keys, Insert(k)
  PROVE  slots' \in Seq(Slot) /\ OnePerKey(slots)' /\ Len(slots') = Len(slots) + 1
<1> USE DEF SpoolInv
<1>1. Entry(k, 1) \in Slot /\ Entry(k, 1).key = k
  BY EntryIsSlot DEF Entry
<1> DEFINE e == Entry(k, 1)
<1> HIDE DEF e
<1>2. slots \in Seq(Slot) /\ slots' = Append(slots, e) /\ Len(slots) < Cap
  BY DEF TypeOK, Insert, e
<1>3. e \in Slot /\ e.key = k
  BY <1>1 DEF e
<1>4. /\ slots' \in Seq(Slot) /\ Len(slots') = Len(slots) + 1
      /\ DOMAIN slots' = 1..Len(slots)+1
      /\ \A j \in 1..Len(slots) : slots'[j] = slots[j]
      /\ slots'[Len(slots) + 1] = e
  BY <1>2, <1>3
<1>5. \A j \in 1..Len(slots) : slots[j].key # k
  BY <1>2 DEF Insert, Holds
<1>6. \A i, j \in DOMAIN slots' : slots'[i].key = slots'[j].key => i = j
  BY <1>2, <1>3, <1>4, <1>5 DEF SlotsDistinct, OnePerKey
<1> QED BY <1>2, <1>4, <1>6 DEF OnePerKey

LEMMA EvictHolds ==
  ASSUME SpoolInv, NEW k \in Keys, Evict(k)
  PROVE  slots' \in Seq(Slot) /\ OnePerKey(slots)' /\ Len(slots') = Len(slots)
<1> USE DEF SpoolInv
<1>1. PICK o \in DOMAIN slots : slots' = [slots EXCEPT ![o] = Entry(k, 1)]
  BY DEF Evict
<1> DEFINE e == Entry(k, 1)
<1>2. e \in Slot /\ e.key = k
  BY EntryIsSlot DEF Entry
<1> HIDE DEF e
<1>3. slots' = [slots EXCEPT ![o] = e]
  BY <1>1 DEF e
<1>4. /\ slots' \in Seq(Slot) /\ Len(slots') = Len(slots)
      /\ \A j \in DOMAIN slots' :
           j \in DOMAIN slots /\ slots'[j] = IF j = o THEN e ELSE slots[j]
  BY <1>2, <1>3, Overwrite
<1>5. \A j \in DOMAIN slots : slots[j].key # k
  BY DEF Evict, Holds
<1>6. \A i, j \in DOMAIN slots' : slots'[i].key = slots'[j].key => i = j
  BY <1>2, <1>4, <1>5 DEF SlotsDistinct, OnePerKey
<1> QED BY <1>4, <1>6 DEF SlotsDistinct, OnePerKey

-----------------------------------------------------------------------------

LEMMA AppendHolds ==
  ASSUME SpoolInv, NEW k \in Keys, detSpoolAppend(k)
  PROVE  SpoolInv'
<1>0. /\ UNCHANGED flash /\ dirty' = TRUE /\ now' \in Nat /\ next' \in Nat
  BY DEF SpoolInv, TypeOK, detSpoolAppend
<1>1. CASE Refresh(k)
  <2>1. slots' \in Seq(Slot) /\ OnePerKey(slots)' /\ Len(slots') = Len(slots)
    BY <1>1, RefreshHolds
  <2>2. UNCHANGED <<dropped, created>>
    BY <1>1 DEF Refresh
  <2> QED BY <1>0, <2>1, <2>2
          DEF SpoolInv, TypeOK, SlotsDistinct, DropsCounted, FileCounted, OnePerKey
<1>2. CASE Insert(k)
  <2>1. slots' \in Seq(Slot) /\ OnePerKey(slots)' /\ Len(slots') = Len(slots) + 1
    BY <1>2, InsertHolds
  <2>2. dropped' = dropped /\ created' = created + 1
    BY <1>2 DEF Insert
  <2>3. Len(slots) \in Nat
    BY DEF SpoolInv, TypeOK
  <2> QED BY <1>0, <2>1, <2>2, <2>3
          DEF SpoolInv, TypeOK, SlotsDistinct, DropsCounted, FileCounted, OnePerKey
<1>3. CASE Evict(k)
  <2>1. slots' \in Seq(Slot) /\ OnePerKey(slots)' /\ Len(slots') = Len(slots)
    BY <1>3, EvictHolds
  <2>2. dropped' = dropped + 1 /\ created' = created + 1
    BY <1>3 DEF Evict
  <2>3. Len(slots) \in Nat
    BY DEF SpoolInv, TypeOK
  <2> QED BY <1>0, <2>1, <2>2, <2>3
          DEF SpoolInv, TypeOK, SlotsDistinct, DropsCounted, FileCounted, OnePerKey
<1> QED BY <1>1, <1>2, <1>3 DEF detSpoolAppend

\* The spool's inductive invariant.
LEMMA StepHolds == SpoolInv /\ [Next]_vars => SpoolInv'
<1> SUFFICES ASSUME SpoolInv, [Next]_vars PROVE SpoolInv'
  OBVIOUS
<1> USE DEF SpoolInv, TypeOK, SlotsDistinct, DropsCounted, FileCounted, OnePerKey
<1>1. CASE UNCHANGED vars
  BY <1>1 DEF vars
<1>2. CASE \E k \in Keys : detSpoolAppend(k)
  BY <1>2, AppendHolds
<1>3. CASE FlushIfDirty
  <2>1. CASE persist
    <3>1. flash' \in Images
      BY <2>1 DEF persist, Image, Images
    <3>2. /\ flash'.slots = slots /\ flash'.dropped = dropped
          /\ flash'.created = created
      BY <2>1 DEF persist, Image
    <3> QED BY <1>3, <2>1, <3>1, <3>2 DEF FlushIfDirty, persist
  <2>2. CASE PersistFails
    BY <1>3, <2>2 DEF FlushIfDirty, PersistFails
  <2> QED BY <1>3, <2>1, <2>2 DEF FlushIfDirty
<1>4. CASE detSpoolClear
  <2>1. <<>> \in Seq(Slot) /\ Len(<<>>) = 0
    OBVIOUS
  <2>2. /\ slots' = <<>> /\ dropped' = 0 /\ created' = 0 /\ flash' = NoFile
        /\ dirty' = FALSE /\ UNCHANGED <<now, next>>
    BY <1>4 DEF detSpoolClear
  <2>3. TypeOK' /\ SlotsDistinct' /\ FileCounted' /\ DropsCounted'
    <3>1. NoFile \in Images /\ OnePerKey(<<>>) /\ OnePerKey(NoFile.slots)
      BY EmptyHolds
    <3>2. TypeOK'
      BY <2>1, <2>2, <3>1
    <3>3. SlotsDistinct'
      BY <2>2, <3>1
    <3>4. FileCounted'
      BY <2>2, EmptyHolds
    <3> QED BY <2>1, <2>2, <3>2, <3>3, <3>4
  <2> QED BY <2>3
<1>5. CASE Restart
  BY <1>5 DEF Restart, Images
<1> QED BY <1>1, <1>2, <1>3, <1>4, <1>5 DEF Next

\* Type correctness of the spool in RAM and in the file.
THEOREM SpoolTypeCorrect == Spec => []TypeOK
<1>1. SpoolInv => TypeOK
  BY DEF SpoolInv
<1> QED BY <1>1, InitHolds, StepHolds, PTL DEF Spec

\* At most one slot per engine and MAC, and never more than the capacity.
THEOREM OneSlotPerKey == Spec => []SlotsDistinct
<1>1. SpoolInv => SlotsDistinct
  BY DEF SpoolInv
<1> QED BY <1>1, InitHolds, StepHolds, PTL DEF Spec

\* Slots and drops account for every new key since the last clear, across
\* saves and restarts.
THEOREM CountsAddUp == Spec => []DropsCounted
<1>1. SpoolInv => DropsCounted
  BY DEF SpoolInv
<1> QED BY <1>1, InitHolds, StepHolds, PTL DEF Spec

\* While no write fails, a crash with the dirty flag down loses nothing: the file
\* holds the table. detSpoolFlushIfDirty, detSpoolClear and detSpoolInit bring
\* both together and take the flag down, and every append puts it up.
THEOREM SavedWhenClean == ASSUME "openfail" \notin Faults PROVE Spec => []CleanMeansSaved
<1>1. Init => CleanMeansSaved
  BY DEF Init, CleanMeansSaved, NoFile
<1>2. CleanMeansSaved /\ [Next]_vars => CleanMeansSaved'
  BY DEF CleanMeansSaved, Next, vars, detSpoolAppend, FlushIfDirty, persist, PersistFails,
         Image, detSpoolClear, NoFile, Restart
<1> QED BY <1>1, <1>2, PTL DEF Spec

-----------------------------------------------------------------------------
(* The spool implements LatestDetections: searched and overwritten in      *)
(* place, its table is the set of the latest detections.                   *)

Mapped(e) == [key |-> e.key, id |-> e.id]

LEMMA FoundIn ==
  ASSUME NEW s
  PROVE  /\ \A i \in DOMAIN s : Mapped(s[i]) \in Found(s)
         /\ \A x \in Found(s) : \E i \in DOMAIN s : x = Mapped(s[i])
BY DEF Found, Mapped

\* The instance has its own name for Cardinality.
LEMMA SameCardinality ==
  ASSUME NEW s
  PROVE  Kept!Cardinality(s) = Cardinality(s)
BY DEF Kept!Cardinality, Cardinality, Kept!IsFiniteSet, IsFiniteSet

\* As many detections as slots: no two slots map to one detection.
LEMMA FoundCount ==
  ASSUME NEW s \in Seq(Slot), OnePerKey(s)
  PROVE  Cardinality(Found(s)) = Len(s)
<1> DEFINE f == [i \in 1..Len(s) |-> Mapped(s[i])]
<1>1. f \in [1..Len(s) -> Found(s)]
  BY FoundIn
<1>2. \A a, b \in 1..Len(s) : f[a] = f[b] => a = b
  BY DEF OnePerKey, Mapped
<1>3. \A x \in Found(s) : \E i \in 1..Len(s) : f[i] = x
  BY FoundIn
<1> HIDE DEF f
<1>4. f \in Bijection(1..Len(s), Found(s))
  BY <1>1, <1>2, <1>3, Fun_IsBij
<1>5. ExistsBijection(1..Len(s), Found(s)) /\ Len(s) \in Nat
  BY <1>4 DEF ExistsBijection
<1> QED BY <1>5, FS_CountingElements

\* The slot of a key is all there is of that key.
LEMMA FoundOf ==
  ASSUME SpoolInv, NEW i \in DOMAIN slots
  PROVE  Kept!Of(slots[i].key) = {Mapped(slots[i])}
<1>1. \A j \in DOMAIN slots : slots[j].key = slots[i].key => j = i
  BY DEF SpoolInv, SlotsDistinct, OnePerKey
<1>2. \A x : x \in Kept!Of(slots[i].key) <=> x = Mapped(slots[i])
  BY <1>1, FoundIn DEF Kept!Of, Mapped
<1> QED BY <1>2

\* Overwriting a slot exchanges its detection.
LEMMA FoundOverwrite ==
  ASSUME SpoolInv, NEW i \in DOMAIN slots, NEW e \in Slot,
         slots' = [slots EXCEPT ![i] = e]
  PROVE  Found(slots)' = (Found(slots) \ {Mapped(slots[i])}) \cup {Mapped(e)}
<1>1. /\ DOMAIN slots' = DOMAIN slots
      /\ \A j \in DOMAIN slots : slots'[j] = IF j = i THEN e ELSE slots[j]
  BY DEF SpoolInv, TypeOK
<1>2. \A j \in DOMAIN slots : j # i => Mapped(slots[j]) # Mapped(slots[i])
  BY DEF SpoolInv, SlotsDistinct, OnePerKey, Mapped
<1>3. \A x : x \in Found(slots)' <=>
               \E j \in DOMAIN slots : x = Mapped(slots'[j])
  BY <1>1 DEF Found, Mapped
<1>4. \A x : x \in Found(slots)' <=>
               x = Mapped(e) \/ \E j \in DOMAIN slots \ {i} : x = Mapped(slots[j])
  BY <1>1, <1>3
<1>5. \A x : x \in Found(slots) \ {Mapped(slots[i])} <=>
               \E j \in DOMAIN slots \ {i} : x = Mapped(slots[j])
  BY <1>2, FoundIn
<1>6. \A x : x \in Found(slots)' <=>
               x \in (Found(slots) \ {Mapped(slots[i])}) \cup {Mapped(e)}
  BY <1>4, <1>5
<1> QED BY <1>6

LEMMA FoundAppend ==
  ASSUME SpoolInv, NEW e \in Slot, slots' = Append(slots, e)
  PROVE  Found(slots)' = Found(slots) \cup {Mapped(e)}
<1>1. /\ DOMAIN slots' = DOMAIN slots \cup {Len(slots) + 1}
      /\ \A j \in DOMAIN slots : slots'[j] = slots[j]
      /\ slots'[Len(slots) + 1] = e
  BY DEF SpoolInv, TypeOK
<1>2. \A x : x \in Found(slots)' <=>
               \E j \in DOMAIN slots' : x = Mapped(slots'[j])
  BY DEF Found, Mapped
<1>3. \A x : x \in Found(slots)' <=> x \in Found(slots) \cup {Mapped(e)}
  BY <1>1, <1>2, FoundIn
<1> QED BY <1>3

\* A detection of another key is not found.
LEMMA FoundNone ==
  ASSUME NEW k \in Keys, ~Holds(slots, k)
  PROVE  Kept!Of(k) = {}
BY FoundIn DEF Kept!Of, Holds, Mapped

-----------------------------------------------------------------------------

LEMMA RefreshKeeps ==
  ASSUME SpoolInv, NEW k \in Keys, Refresh(k)
  PROVE  Kept!Keep(k)
<1>1. PICK i \in DOMAIN slots :
        /\ slots[i].key = k
        /\ slots' = [slots EXCEPT ![i] = Entry(k, OneMore(slots[i].hits))]
  BY DEF Refresh
<1>2. slots[i].hits \in 1..HitLimit
  <2>1. slots[i] \in Slot
    BY DEF SpoolInv, TypeOK
  <2> QED BY <2>1 DEF Slot
<1> DEFINE e == Entry(k, OneMore(slots[i].hits))
<1>3. e \in Slot /\ Mapped(e) = Kept!Fresh(k)
  BY <1>2, HitsStayInRange, EntryIsSlot DEF SpoolInv, Entry, Mapped, Kept!Fresh
<1>4. Found(slots)' = (Found(slots) \ {Mapped(slots[i])}) \cup {Mapped(e)}
  BY <1>1, <1>3, FoundOverwrite
<1>5. Kept!Of(k) = {Mapped(slots[i])}
  BY <1>1, FoundOf
<1> QED BY <1>3, <1>4, <1>5 DEF Refresh, Kept!Keep

LEMMA InsertKeeps ==
  ASSUME SpoolInv, NEW k \in Keys, Insert(k)
  PROVE  Kept!Keep(k)
<1> DEFINE e == Entry(k, 1)
<1>1. e \in Slot /\ Mapped(e) = Kept!Fresh(k)
  <2>1. 1 \in 1..HitLimit
    BY LimitAssumption
  <2>2. e \in Slot
    BY <2>1, EntryIsSlot DEF SpoolInv
  <2> QED BY <2>2 DEF Entry, Mapped, Kept!Fresh
<1>2. Found(slots)' = Found(slots) \cup {Mapped(e)}
  BY <1>1, FoundAppend DEF Insert
<1> HIDE DEF e
<1>3. Cardinality(Found(slots)) = Len(slots)
  BY FoundCount DEF SpoolInv, TypeOK, SlotsDistinct
<1>4. Kept!Of(k) = {}
  BY FoundNone DEF Insert
<1>5. Found(slots)' = (Found(slots) \ Kept!Of(k)) \cup {Kept!Fresh(k)}
  BY <1>1, <1>2, <1>4
<1>6. Len(slots) < Cap /\ UNCHANGED dropped
  BY DEF Insert
<1> QED BY <1>3, <1>5, <1>6, SameCardinality DEF Kept!Keep

LEMMA EvictGivesUp ==
  ASSUME SpoolInv, NEW k \in Keys, Evict(k)
  PROVE  Kept!GiveUp(k)
<1>1. PICK o \in DOMAIN slots : slots' = [slots EXCEPT ![o] = Entry(k, 1)]
  BY DEF Evict
<1> DEFINE e == Entry(k, 1)
<1>2. e \in Slot /\ Mapped(e) = Kept!Fresh(k)
  <2>1. 1 \in 1..HitLimit
    BY LimitAssumption
  <2>2. e \in Slot
    BY <2>1, EntryIsSlot DEF SpoolInv
  <2> QED BY <2>2 DEF Entry, Mapped, Kept!Fresh
<1>3. Found(slots)' = (Found(slots) \ {Mapped(slots[o])}) \cup {Mapped(e)}
  BY <1>1, <1>2, FoundOverwrite
<1> HIDE DEF e
<1>4. Cardinality(Found(slots)) = Cap
  BY FoundCount DEF SpoolInv, TypeOK, SlotsDistinct, Evict
<1>5. Kept!Of(k) = {} /\ Mapped(slots[o]) \in Found(slots)
  BY <1>1, FoundNone, FoundIn DEF Evict
<1>6. dropped' = dropped + 1
  BY DEF Evict
<1>7. \E x \in Found(slots) :
        Found(slots)' = (Found(slots) \ {x}) \cup {Kept!Fresh(k)}
  BY <1>2, <1>3, <1>5
<1> QED BY <1>4, <1>5, <1>6, <1>7, SameCardinality DEF Kept!GiveUp

LEMMA StepRefines ==
  ASSUME SpoolInv, [Next]_vars
  PROVE  [Kept!Next]_(Kept!vars)
<1>1. CASE UNCHANGED vars
  BY <1>1 DEF vars, Kept!vars, Found
<1>2. ASSUME NEW k \in Keys, detSpoolAppend(k) PROVE Kept!Next
  <2>1. UNCHANGED flash /\ next' = next + 1
    BY <1>2 DEF detSpoolAppend
  <2>2. Kept!Keep(k) \/ Kept!GiveUp(k)
    BY <1>2, RefreshKeeps, InsertKeeps, EvictGivesUp DEF detSpoolAppend
  <2>3. Kept!Record(k)
    BY <2>1, <2>2 DEF Kept!Record, Found
  <2> QED BY <2>3 DEF Kept!Next
<1>3. CASE FlushIfDirty
  <2>1. UNCHANGED <<slots, dropped, next>>
    BY <1>3 DEF FlushIfDirty
  <2>2. CASE persist
    <3>1. flash'.slots = slots /\ flash'.dropped = dropped
      BY <2>2 DEF persist, Image
    <3>2. Kept!Save
      BY <2>1, <3>1 DEF Kept!Save, Found
    <3> QED BY <3>2 DEF Kept!Next
  <2>3. CASE PersistFails
    BY <2>1, <2>3 DEF PersistFails, Kept!vars, Found
  <2> QED BY <1>3, <2>2, <2>3 DEF FlushIfDirty
<1>4. CASE detSpoolClear
  <2>1. slots' = <<>> /\ dropped' = 0 /\ flash' = NoFile /\ next' = next
    BY <1>4 DEF detSpoolClear
  <2>2. Found(slots)' = {} /\ Found(flash.slots)' = {} /\ flash'.dropped = 0
    BY <2>1 DEF Found, NoFile
  <2>3. Kept!Clear
    BY <2>1, <2>2 DEF Kept!Clear, Kept!Empty
  <2> QED BY <2>3 DEF Kept!Next
<1>5. CASE Restart
  <2>1. slots' = flash.slots /\ dropped' = flash.dropped /\ UNCHANGED <<flash, next>>
    BY <1>5 DEF Restart
  <2>2. Kept!Reboot
    BY <2>1 DEF Kept!Reboot, Found
  <2> QED BY <2>2 DEF Kept!Next
<1> QED BY <1>1, <1>2, <1>3, <1>4, <1>5 DEF Next

\* Whatever crashes and whichever save fails, the spool keeps the latest
\* detection of every engine and MAC until it is full, and gives up one at a
\* time after that.
THEOREM ImplementsLatest == Spec => KeepsLatest
<1>1. Init => Kept!Init
  <2>1. Found(<<>>) = {}
    BY DEF Found
  <2>2. NoFile.slots = <<>> /\ NoFile.dropped = 0
    BY DEF NoFile
  <2> QED BY <2>1, <2>2 DEF Init, Kept!Init, Kept!Empty
<1> QED BY <1>1, StepRefines, InitHolds, StepHolds, PTL
        DEF Spec, KeepsLatest, Kept!Spec
=============================================================================
