------------------------------- MODULE DetSpool -------------------------------
(***************************************************************************)
(* The offline detection spool of a node (src/src/det_spool.cpp): a        *)
(* bounded table of detections in RAM, one slot per engine and MAC, saved  *)
(* to flash every few seconds while it changes and reloaded at boot.       *)
(*                                                                         *)
(* detectionNotifyTask appends, statusHeartbeatTask saves, the BLE task    *)
(* clears; each holds s_mutex for its whole operation, so each is one step.*)
(* A crash may happen between any two of them.                             *)
(***************************************************************************)
EXTENDS Naturals, Sequences, FiniteSets

CONSTANTS
  Keys,        \* what findSlot compares: an engine and a MAC
  Cap,         \* s_cap, the number of slots
  HitLimit,    \* where hit_count stops counting (0xFFFF in the code)
  MaxEvents,   \* bound: detections recorded in a behaviour
  Faults       \* the faults of this instance: "crash", "openfail"

ASSUME CapAssumption == Cap \in Nat \ {0}
ASSUME LimitAssumption == HitLimit \in Nat \ {0}
ASSUME BoundAssumption == MaxEvents \in Nat
ASSUME FaultsAssumption == Faults \subseteq {"crash", "openfail"}

VARIABLES
  slots,       \* s_slots[0 .. s_count - 1]
  dropped,     \* s_dropped; no bound of an instance reaches its limit 0xFFFF
  dirty,       \* s_dirty
  flash,       \* what a boot finds in /spool.bin
  now,         \* millis(), which starts again at boot
  next,        \* history: serial number of the next detection
  created      \* history: slots filled since the spool was last empty

vars == <<slots, dropped, dirty, flash, now, next, created>>

\* A slot; id is the history part: which detection it holds.
Slot == [key : Keys, id : Nat, ts : Nat, hits : 1..HitLimit]

\* The contents of the file; a missing file loads like an empty one.
Images == [slots : Seq(Slot), dropped : Nat, created : Nat]
Image  == [slots |-> slots, dropped |-> dropped, created |-> created]
NoFile == [slots |-> <<>>, dropped |-> 0, created |-> 0]

Holds(s, k) == \E i \in DOMAIN s : s[i].key = k

Entry(k, h) == [key |-> k, id |-> next, ts |-> now, hits |-> h]

\* hit_count saturates.
OneMore(h) == IF h < HitLimit THEN h + 1 ELSE h

Init ==
  /\ slots = <<>> /\ dropped = 0 /\ dirty = FALSE /\ flash = NoFile
  /\ now = 0 /\ next = 0 /\ created = 0

-----------------------------------------------------------------------------
(* detSpoolAppend.                                                         *)

\* Mutant: a detection that is known is counted only.
RefreshCounts(k) ==
  /\ \E i \in DOMAIN slots :
       /\ slots[i].key = k
       /\ slots' = [slots EXCEPT ![i].hits = OneMore(@)]
  /\ UNCHANGED <<dropped, created>>

\* A detection of a known engine and MAC takes over its slot.
Refresh(k) ==
  /\ \E i \in DOMAIN slots :
       /\ slots[i].key = k
       /\ slots' = [slots EXCEPT ![i] = Entry(k, OneMore(slots[i].hits))]
  /\ UNCHANGED <<dropped, created>>

Insert(k) ==
  /\ ~Holds(slots, k) /\ Len(slots) < Cap
  /\ slots' = Append(slots, Entry(k, 1))
  /\ created' = created + 1
  /\ UNCHANGED dropped

\* oldestSlot: the first slot with the smallest timestamp.
IsOldest(o) ==
  \A j \in DOMAIN slots :
    slots[o].ts <= slots[j].ts /\ (j < o => slots[o].ts < slots[j].ts)

\* Mutant: an eviction is not counted.
EvictUncounted(k) ==
  /\ ~Holds(slots, k) /\ Len(slots) = Cap
  /\ \E o \in DOMAIN slots :
       IsOldest(o) /\ slots' = [slots EXCEPT ![o] = Entry(k, 1)]
  /\ dropped' = dropped /\ created' = created + 1

Evict(k) ==
  /\ ~Holds(slots, k) /\ Len(slots) = Cap
  /\ \E o \in DOMAIN slots :
       IsOldest(o) /\ slots' = [slots EXCEPT ![o] = Entry(k, 1)]
  /\ dropped' = dropped + 1 /\ created' = created + 1

detSpoolAppend(k) ==
  /\ next < MaxEvents
  /\ Refresh(k) \/ Insert(k) \/ Evict(k)
  /\ dirty' = TRUE
  /\ next' = next + 1 /\ now' = now + 1
  /\ UNCHANGED flash

-----------------------------------------------------------------------------
(* Saving, clearing, restarting.                                           *)

\* The file is replaced when it is closed: a crash leaves the old one.
persist == flash' = Image /\ dirty' = FALSE

\* The file cannot be opened: the table counts as saved all the same.
PersistFails ==
  /\ "openfail" \in Faults
  /\ dirty' = FALSE
  /\ UNCHANGED flash

\* detSpoolFlushIfDirty, at most once every SPOOL_FLUSH_MS.
FlushIfDirty ==
  /\ dirty
  /\ persist \/ PersistFails
  /\ UNCHANGED <<slots, dropped, now, next, created>>

\* Mutant: the file stays when the table is emptied.
ClearKeepsFile ==
  /\ slots' = <<>> /\ dropped' = 0 /\ created' = 0
  /\ dirty' = FALSE
  /\ UNCHANGED <<flash, now, next>>

detSpoolClear ==
  /\ slots' = <<>> /\ dropped' = 0 /\ created' = 0
  /\ flash' = NoFile /\ dirty' = FALSE
  /\ UNCHANGED <<now, next>>

\* A crash, and detSpoolInit at the next boot.
Restart ==
  /\ "crash" \in Faults
  /\ slots' = flash.slots
  /\ dropped' = flash.dropped /\ created' = flash.created
  /\ dirty' = FALSE /\ now' = 0
  /\ UNCHANGED <<flash, next>>

Next ==
  \/ \E k \in Keys : detSpoolAppend(k)
  \/ FlushIfDirty
  \/ detSpoolClear
  \/ Restart

\* statusHeartbeatTask calls detSpoolFlushIfDirty every five seconds.
Spec == Init /\ [][Next]_vars /\ WF_vars(FlushIfDirty)

-----------------------------------------------------------------------------
(* Properties.                                                             *)

\* Types, in RAM and in the file.
TypeOK ==
  /\ slots \in Seq(Slot) /\ dropped \in Nat /\ created \in Nat
  /\ dirty \in BOOLEAN /\ now \in Nat /\ next \in Nat
  /\ flash \in Images

\* One slot per engine and MAC and never more than the table has, before and
\* after any reload (findSlot and the count check of detSpoolAppend).
OnePerKey(s) ==
  /\ Len(s) <= Cap
  /\ \A i, j \in DOMAIN s : s[i].key = s[j].key => i = j
SlotsDistinct == OnePerKey(slots) /\ OnePerKey(flash.slots)

\* The counts the phone is told add up: every detection of a new engine and
\* MAC since the last clear is in a slot or counted as dropped, across saves
\* and restarts.
DropsCounted == created = Len(slots) + dropped

\* A full spool gives up the detection recorded longest ago (the self test:
\* "count pinned, oldest evicted").
EvictsOldest ==
  [][\A k \in Keys : Evict(k) =>
       \E o \in DOMAIN slots :
         /\ slots'[o].id = next
         /\ \A j \in DOMAIN slots : slots[o].id <= slots[j].id]_vars

\* While the dirty flag is down a crash loses nothing: the file holds the
\* table ("hits buffer to flash").
CleanMeansSaved ==
  ~dirty => flash.slots = slots

\* The table, searched and overwritten in place, keeps the latest detection
\* of every engine and MAC, in RAM and in the file: it implements
\* LatestDetections, whatever crashes and failed saves come between.
Found(s) == {[key |-> s[i].key, id |-> s[i].id] : i \in DOMAIN s}
Kept == INSTANCE LatestDetections WITH
          latest <- Found(slots), lost <- dropped,
          saved <- [latest |-> Found(flash.slots), lost |-> flash.dropped]
KeepsLatest == Kept!Spec

=============================================================================
