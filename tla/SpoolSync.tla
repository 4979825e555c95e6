------------------------------ MODULE SpoolSync ------------------------------
(***************************************************************************)
(* How the detections a node spooled while no phone was there reach the    *)
(* app's database: the node streams the spool on request (ble_gatt.cpp),   *)
(* the app counts what it inserted and then has the spool cleared          *)
(* (ble_manager.dart, wardrive_state.dart).                                *)
(*                                                                         *)
(* Actors: the node's capture path and its status task, the BLE link (in   *)
(* order, emptied by a disconnect), the app's notification handler and its *)
(* database inserts, which finish later, in order. The spool itself is     *)
(* DetSpool; here it is the sequence of the detections it holds, all of    *)
(* them of different keys.                                                 *)
(***************************************************************************)
EXTENDS Integers, Sequences

CONSTANTS
  MaxIds,      \* bound: detections in a behaviour
  MaxInbox,    \* bound: inserts under way when a phone connects
  MaxLost,     \* bound: notifications the node cannot queue
  Faults       \* what may happen in this instance, a subset of FaultNames

FaultNames == {"midimport",    \* the link drops while inserts are under way
               "live",         \* detections arrive while the phone is there
               "dbfail"}       \* an insert throws

ASSUME BoundAssumption == {MaxIds, MaxInbox, MaxLost} \subseteq Nat
ASSUME FaultsAssumption == Faults \subseteq FaultNames

VARIABLES
  next,        \* the next detection
  spool,       \* the detections in the node's spool
  phone,       \* phoneConnected
  flushReq,    \* g_spoolFlushPending
  stream,      \* streamSpoolToPhone: running, next slot, count at its start
  air,         \* notifications on their way to the app
  lost,        \* bound: notifications lost so far
  whole,       \* history: none of them in this connection
  importing,   \* _importing
  total,       \* _spoolExpectedTotal
  inserted,    \* _spoolInserted
  done,        \* _spoolDone
  confirmed,   \* _spoolConfirmed
  inbox,       \* detections handed to _onImportedDetection, not yet inserted
  db           \* detections in the app's database

node == <<next, spool, flushReq, stream>>
link == <<air, lost, whole>>
app  == <<importing, total, inserted, done, confirmed>>
vars == <<node, phone, link, app, inbox, db>>

NoStream == [on |-> FALSE, i |-> 1, n |-> 0]
Hdr(n)  == [t |-> "hdr", v |-> n]
Det(id) == [t |-> "det", v |-> id]
Done    == [t |-> "done", v |-> 0]

Init ==
  /\ next = 1 /\ spool = <<>> /\ phone = FALSE /\ flushReq = FALSE
  /\ stream = NoStream /\ air = <<>> /\ lost = 0 /\ whole = TRUE
  /\ importing = FALSE /\ total = -1 /\ inserted = 0
  /\ done = FALSE /\ confirmed = FALSE
  /\ inbox = <<>> /\ db = {}

-----------------------------------------------------------------------------
(* The node.                                                               *)

\* A notification is queued for the phone, or lost for want of a buffer.
Notify(m) ==
  \/ air' = Append(air, m) /\ UNCHANGED <<lost, whole>>
  \/ /\ lost < MaxLost /\ lost' = lost + 1
     /\ whole' = FALSE /\ UNCHANGED air

\* bleGattNotifyDetection: to the spool without a phone, else to the phone.
bleGattNotifyDetection ==
  /\ next <= MaxIds /\ next' = next + 1
  /\ \/ ~phone /\ spool' = Append(spool, next) /\ UNCHANGED link
     \/ phone /\ "live" \in Faults /\ Notify(Det(next)) /\ UNCHANGED spool
  /\ UNCHANGED <<phone, flushReq, stream, app, inbox, db>>

\* bleGattSpoolFlushPump and the head of streamSpoolToPhone.
StreamStart ==
  /\ flushReq /\ ~stream.on
  /\ flushReq' = FALSE
  /\ IF phone
     THEN /\ stream' = [on |-> TRUE, i |-> 1, n |-> Len(spool)]
          /\ Notify(Hdr(Len(spool)))
     ELSE UNCHANGED <<stream, link>>
  /\ UNCHANGED <<next, spool, phone, app, inbox, db>>

\* Mutant: the loop ends one slot early.
StreamStepShort ==
  /\ stream.on
  /\ IF ~phone THEN stream' = NoStream /\ UNCHANGED link
     ELSE IF stream.i < stream.n
     THEN /\ stream' = [stream EXCEPT !.i = @ + 1]
          /\ IF stream.i \in DOMAIN spool
             THEN Notify(Det(spool[stream.i])) ELSE UNCHANGED link
     ELSE stream' = NoStream /\ Notify(Done)
  /\ UNCHANGED <<next, spool, flushReq, phone, app, inbox, db>>

\* One slot, or the end marker after the last; a slot that is gone by now is
\* skipped, and without the phone the rest is given up.
StreamStep ==
  /\ stream.on
  /\ IF ~phone THEN stream' = NoStream /\ UNCHANGED link
     ELSE IF stream.i <= stream.n
     THEN /\ stream' = [stream EXCEPT !.i = @ + 1]
          /\ IF stream.i \in DOMAIN spool
             THEN Notify(Det(spool[stream.i])) ELSE UNCHANGED link
     ELSE stream' = NoStream /\ Notify(Done)
  /\ UNCHANGED <<next, spool, flushReq, phone, app, inbox, db>>

-----------------------------------------------------------------------------
(* The link.                                                               *)

\* The app connects and asks for the spool. Connecting takes far longer than
\* the 8 ms in which a running stream notices that the phone has gone.
Connect ==
  /\ ~phone /\ ~stream.on /\ Len(inbox) <= MaxInbox
  /\ phone' = TRUE /\ flushReq' = TRUE /\ importing' = TRUE
  /\ whole' = TRUE
  /\ UNCHANGED <<next, spool, stream, air, lost, total, inserted, done,
                 confirmed, inbox, db>>

\* _abortImport and the aborted branch of _onSpoolProgress.
Aborted ==
  /\ importing' = FALSE /\ total' = -1 /\ inserted' = 0
  /\ done' = FALSE /\ confirmed' = FALSE

Disconnect ==
  /\ phone /\ phone' = FALSE
  /\ "midimport" \in Faults \/ inbox = <<>>
  /\ air' = <<>>
  /\ IF importing THEN Aborted ELSE UNCHANGED app
  /\ UNCHANGED <<node, lost, whole, inbox, db>>

\* Twelve seconds without a notification.
AbortTimeout ==
  /\ importing /\ air = <<>> /\ ~stream.on /\ ~flushReq
  /\ Aborted
  /\ UNCHANGED <<node, phone, link, inbox, db>>

-----------------------------------------------------------------------------
(* The app.                                                                *)

\* _maybeConfirmSpool: when all announced detections were counted, the node
\* clears its spool (SYS_CMD_SPOOL_CLEAR) and the counters start again. With
\* the link down the write throws and only the confirmed flag stays behind.
Complete(d, t, n, c) == d /\ t >= 0 /\ n >= t /\ ~c

MaybeConfirm(d, t, n, c) ==
  IF Complete(d, t, n, c)
  THEN IF phone
       THEN /\ spool' = <<>>
            /\ done' = FALSE /\ total' = -1 /\ inserted' = 0
            /\ confirmed' = FALSE
       ELSE /\ confirmed' = TRUE
            /\ done' = d /\ total' = t /\ inserted' = n
            /\ UNCHANGED spool
  ELSE /\ done' = d /\ total' = t /\ inserted' = n /\ confirmed' = c
       /\ UNCHANGED spool

\* Mutant: the spool is confirmed when its last notification arrives.
AppReceiveConfirms ==
  /\ air # <<>> /\ air' = Tail(air)
  /\ LET m == Head(air) IN
     \/ /\ m.t = "hdr" /\ importing
        /\ total' = m.v /\ inserted' = 0 /\ done' = FALSE /\ confirmed' = FALSE
        /\ UNCHANGED <<importing, spool, inbox, db>>
     \/ /\ m.t = "done" /\ importing /\ importing' = FALSE
        /\ MaybeConfirm(TRUE, total, total, confirmed)
        /\ UNCHANGED <<inbox, db>>
     \/ /\ m.t = "det" /\ importing
        /\ inbox' = Append(inbox, m.v)
        /\ UNCHANGED <<app, spool, db>>
     \/ /\ m.t # "det" /\ ~importing
        /\ UNCHANGED <<app, spool, inbox, db>>
     \/ /\ m.t = "det" /\ ~importing
        /\ db' = db \cup {m.v}
        /\ UNCHANGED <<app, spool, inbox>>
  /\ UNCHANGED <<next, flushReq, stream, phone, lost, whole>>

\* _onDetection. Outside an import, detections go to the live feed and short
\* notifications are ignored.
AppReceive ==
  /\ air # <<>> /\ air' = Tail(air)
  /\ LET m == Head(air) IN
     \/ /\ m.t = "hdr" /\ importing
        /\ total' = m.v /\ inserted' = 0 /\ done' = FALSE /\ confirmed' = FALSE
        /\ UNCHANGED <<importing, spool, inbox, db>>
     \/ /\ m.t = "done" /\ importing /\ importing' = FALSE
        /\ MaybeConfirm(TRUE, total, inserted, confirmed)
        /\ UNCHANGED <<inbox, db>>
     \/ /\ m.t = "det" /\ importing
        /\ inbox' = Append(inbox, m.v)
        /\ UNCHANGED <<app, spool, db>>
     \/ /\ m.t # "det" /\ ~importing
        /\ UNCHANGED <<app, spool, inbox, db>>
     \/ /\ m.t = "det" /\ ~importing
        /\ db' = db \cup {m.v}
        /\ UNCHANGED <<app, spool, inbox>>
  /\ UNCHANGED <<next, flushReq, stream, phone, lost, whole>>

\* The rest of _onImportedDetection: a failed insert is logged and counted.
AppInsert ==
  /\ inbox # <<>> /\ inbox' = Tail(inbox)
  /\ \/ db' = db \cup {Head(inbox)}
     \/ "dbfail" \in Faults /\ UNCHANGED db
  /\ MaybeConfirm(done, total, inserted + 1, confirmed)
  /\ UNCHANGED <<next, flushReq, stream, phone, link, importing>>

-----------------------------------------------------------------------------

Next ==
  \/ bleGattNotifyDetection
  \/ StreamStart \/ StreamStep
  \/ Connect \/ Disconnect \/ AbortTimeout
  \/ AppReceive \/ AppInsert

\* The status task, the link and the app's event loop keep running.
Fairness ==
  /\ WF_vars(StreamStart) /\ WF_vars(StreamStep)
  /\ WF_vars(AppReceive) /\ WF_vars(AppInsert)

Spec == Init /\ [][Next]_vars /\ Fairness

-----------------------------------------------------------------------------
(* Properties.                                                             *)

Ids == 1..MaxIds

\* Types of both sides' variables.
TypeOK ==
  /\ next \in 1..MaxIds + 1 /\ spool \in Seq(Ids)
  /\ phone \in BOOLEAN /\ flushReq \in BOOLEAN
  /\ stream \in [on : BOOLEAN, i : Nat, n : Nat]
  /\ air \in Seq([t : {"hdr", "det", "done"}, v : Nat])
  /\ lost \in 0..MaxLost /\ whole \in BOOLEAN
  /\ importing \in BOOLEAN /\ total \in Int /\ inserted \in Nat
  /\ done \in BOOLEAN /\ confirmed \in BOOLEAN
  /\ inbox \in Seq(Ids) /\ db \subseteq Ids

\* The node gives up a spooled detection only when the app's database has it
\* (confirmSpoolImported: "spool clear sent after DB commit").
ClearOnlyCommitted ==
  [][Len(spool') < Len(spool) =>
       \A i \in DOMAIN spool : spool[i] \in db']_vars

\* A phone that stays connected ends up with the whole spool, when nothing
\* was lost since it connected ("hits buffer to flash and sync when you
\* reconnect").
SyncCompletes == <>[](phone /\ whole) => <>[](spool = <<>>)

\* Both sides' variables keep their types, and the spool empties.
SyncRunsThrough == []TypeOK /\ SyncCompletes

==============================================================================
