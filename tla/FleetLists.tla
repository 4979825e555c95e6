----------------------------- MODULE FleetLists -----------------------------
(***************************************************************************)
(* The two lists the whole fleet works by: what to ignore                  *)
(* (src/src/ignore_list.cpp) and what to watch for (the filters of         *)
(* src/src/engines/detector.cpp).  The app owns both; it writes the first  *)
(* in one piece and the second as a clear and one write per entry.  The    *)
(* manager passes every write on and repeats both lists by itself          *)
(* (src/src/manager/manager_main.cpp); a node may miss any of it.          *)
(*                                                                         *)
(* A node takes over an ignore list that differs from its own, but a       *)
(* watch list only if it differs from the one it was sent last.            *)
(***************************************************************************)
EXTENDS Naturals, Sequences, FiniteSets

CONSTANTS
  Nodes,
  IgnoreLists,   \* lists the app may have
  WatchLists,    \* and watch lists: sequences of filters
  WireMax,       \* filters that fit into a mesh packet
  OneSync,       \* the app changes its watch list when the last one is through
  LocalEdits,    \* what phones change on nodes: a subset of {"ignore", "watch"}
  MaxEdits,      \* bound: changes in the app
  MaxConnects,   \* bound: connections of the app to the manager
  MaxLocal,      \* bound: changes on a node
  MaxRestarts    \* bound: restarts of the manager and the nodes

VARIABLES
  appIgnore, appWatch,   \* the lists of the app
  linked,             \* the app is connected to the manager
  syncs,                 \* syncDetectorWatchlist: the writes still to come, per call
  mgrIgnore, mgrWatch,   \* the manager's copies
  saved, lastCount,      \* "mgr_filt", and lastFiltCount (none before the first)
  ignore, watch,         \* the copies of each node
  lastWatch,             \* lastFilters of each node
  edits, connects, locals, restarts

app == <<appIgnore, appWatch, linked, syncs>>
mgr == <<mgrIgnore, mgrWatch, saved, lastCount>>
nodeLists == <<ignore, watch, lastWatch>>
listBounds == <<edits, connects, locals, restarts>>
listVars == <<app, mgr, nodeLists, listBounds>>

None == <<"none">>
NoCount == 99

ASSUME WireAssumption == WireMax \in Nat
ASSUME WatchListsAssumption ==
  WatchLists \subseteq Seq(UNION {{w[i] : i \in DOMAIN w} : w \in WatchLists})

ListsEmpty ==
  /\ appIgnore = {} /\ appWatch = << >> /\ linked = FALSE /\ syncs = << >>
  /\ mgrIgnore = {} /\ mgrWatch = << >> /\ saved = << >>
  /\ ignore = [n \in Nodes |-> {}] /\ watch = [n \in Nodes |-> << >>]
  /\ edits = 0 /\ connects = 0 /\ locals = 0 /\ restarts = 0

ListInit == ListsEmpty /\ lastCount = NoCount /\ lastWatch = [n \in Nodes |-> None]

-----------------------------------------------------------------------------
(* What a node takes over.                                                 *)

\* The list is compared with the one the node has.
ignoreListSet(old, list) == list

\* Mutant: only the number of filters is compared.
KnownListMutant(n, list) == lastWatch[n] # None /\ Len(list) = Len(lastWatch[n])

\* The list is compared with the one it was sent last.
KnownList(n, list) == list = lastWatch[n]

HearIgnore(heard, list) ==
  ignore' = [n \in Nodes |-> IF n \in heard THEN ignoreListSet(ignore[n], list) ELSE ignore[n]]

detectorSetFilters(heard, list) ==
  LET new == {n \in heard : ~KnownList(n, list)}
  IN  /\ watch' = [n \in Nodes |-> IF n \in new THEN list ELSE watch[n]]
      /\ lastWatch' = [n \in Nodes |-> IF n \in new THEN list ELSE lastWatch[n]]

\* detectorSerialize: as many filters as there is room for.
Serialized(list) == IF Len(list) > WireMax THEN SubSeq(list, 1, WireMax) ELSE list

-----------------------------------------------------------------------------
(* The app.                                                                *)

Sync(list) == << <<"clear">> >> \o [i \in DOMAIN list |-> <<"add", list[i]>>]

\* IgnoreListCallbacks on the manager.
WriteIgnore(list) ==
  /\ mgrIgnore' = list
  /\ \E heard \in SUBSET Nodes : HearIgnore(heard, list)

AppIgnores ==
  /\ edits < MaxEdits /\ edits' = edits + 1
  /\ appIgnore' \in IgnoreLists \ {appIgnore}
  /\ \/ linked /\ WriteIgnore(appIgnore')
     \/ ~linked /\ UNCHANGED <<mgrIgnore, ignore>>
  /\ UNCHANGED <<appWatch, linked, syncs, mgrWatch, saved, lastCount, watch, lastWatch,
                 connects, locals, restarts>>

AppWatches ==
  /\ edits < MaxEdits /\ edits' = edits + 1
  /\ OneSync => syncs = << >>
  /\ appWatch' \in WatchLists \ {appWatch}
  /\ syncs' = IF linked THEN Append(syncs, Sync(appWatch')) ELSE syncs
  /\ UNCHANGED <<appIgnore, linked, mgr, nodeLists, connects, locals, restarts>>

AppConnects ==
  /\ ~linked /\ connects < MaxConnects /\ connects' = connects + 1
  /\ linked' = TRUE
  /\ syncs' = << Sync(appWatch) >>
  /\ WriteIgnore(appIgnore)
  /\ UNCHANGED <<appIgnore, appWatch, mgrWatch, saved, lastCount, watch, lastWatch,
                 edits, locals, restarts>>

\* A write without a connection throws, which ends the call.
Abandoned == << >>

AppLeaves ==
  /\ linked /\ connects < MaxConnects
  /\ linked' = FALSE /\ syncs' = Abandoned
  /\ UNCHANGED <<appIgnore, appWatch, mgr, nodeLists, listBounds>>

\* Mutant: the filters are kept.
ClearedMutant == mgrWatch

Cleared == << >>

\* DetectorConfigCallbacks: one write of one of the calls, passed on as the list
\* is then.
SyncWrites(c) ==
  LET op == Head(syncs[c])
      rest == Tail(syncs[c])
  IN  /\ mgrWatch' = IF op[1] = "clear" THEN Cleared ELSE Append(mgrWatch, op[2])
      /\ syncs' = IF rest # << >> THEN [syncs EXCEPT ![c] = rest]
                  ELSE SubSeq(syncs, 1, c - 1) \o SubSeq(syncs, c + 1, Len(syncs))
      /\ \E heard \in SUBSET Nodes : detectorSetFilters(heard, Serialized(mgrWatch'))
      /\ UNCHANGED <<appIgnore, appWatch, linked, mgrIgnore, saved, lastCount, ignore,
                     listBounds>>

-----------------------------------------------------------------------------
(* The manager's heartbeat.                                                *)

\* With offline scan on; the engine set is the other half of the condition.
bleGattMgrPersistOfflineTick ==
  /\ lastCount # Len(mgrWatch)
  /\ lastCount' = Len(mgrWatch) /\ saved' = mgrWatch
  /\ UNCHANGED <<app, mgrIgnore, mgrWatch, nodeLists, listBounds>>

RepeatIgnore(heard) ==
  /\ HearIgnore(heard, mgrIgnore)
  /\ UNCHANGED <<app, mgr, watch, lastWatch, listBounds>>

RepeatWatch(heard) ==
  /\ detectorSetFilters(heard, Serialized(mgrWatch))
  /\ UNCHANGED <<app, mgr, ignore, listBounds>>

-----------------------------------------------------------------------------
(* Phones at nodes, and restarts.                                          *)

\* The same characteristics of a node: nobody else is told.
LocalEdit(n) ==
  /\ locals < MaxLocal /\ locals' = locals + 1
  /\ \E what \in LocalEdits, i \in IgnoreLists, w \in WatchLists :
       /\ ignore' = [ignore EXCEPT ![n] = IF what = "ignore" THEN i ELSE @]
       /\ watch' = [watch EXCEPT ![n] = IF what = "watch" THEN w ELSE @]
  /\ UNCHANGED <<app, mgr, lastWatch, edits, connects, restarts>>

CountRestart == restarts < MaxRestarts /\ restarts' = restarts + 1

\* The ignore list is kept in RAM only; bleGattMgrRestoreOffline.
MgrRestarts ==
  /\ CountRestart
  /\ mgrIgnore' = {} /\ mgrWatch' = saved /\ lastCount' = NoCount
  /\ linked' = FALSE /\ syncs' = << >>
  /\ UNCHANGED <<appIgnore, appWatch, saved, nodeLists, edits, connects, locals>>

\* A node that kept its filters takes them for the list it was sent last.
NodeRestarts(n) ==
  /\ CountRestart
  /\ ignore' = [ignore EXCEPT ![n] = {}]
  /\ \E kept \in {<< >>, watch[n]} :
       /\ watch' = [watch EXCEPT ![n] = kept]
       /\ lastWatch' = [lastWatch EXCEPT ![n] = IF kept = << >> THEN None ELSE kept]
  /\ UNCHANGED <<app, mgr, edits, connects, locals>>

ListNext ==
  \/ AppIgnores \/ AppWatches \/ AppConnects \/ AppLeaves
  \/ \E c \in DOMAIN syncs : SyncWrites(c)
  \/ bleGattMgrPersistOfflineTick
  \/ \E heard \in SUBSET Nodes : RepeatIgnore(heard) \/ RepeatWatch(heard)
  \/ MgrRestarts
  \/ \E n \in Nodes : LocalEdit(n) \/ NodeRestarts(n)

\* The app goes on writing, and a node hears one of the repeated lists now and
\* then.
ListFairness ==
  /\ WF_listVars(\E c \in DOMAIN syncs : SyncWrites(c))
  /\ WF_listVars(bleGattMgrPersistOfflineTick)
  /\ \A n \in Nodes :
       /\ WF_listVars(\E heard \in SUBSET Nodes : n \in heard /\ RepeatIgnore(heard))
       /\ WF_listVars(\E heard \in SUBSET Nodes : n \in heard /\ RepeatWatch(heard))

ListSpec == ListInit /\ [][ListNext]_listVars /\ ListFairness
-----------------------------------------------------------------------------
(* Properties.                                                             *)

\* The lists are made of what the app may have, whoever wrote last, and a node
\* remembers no more than a packet holds unless phones give it longer lists.
ListTypeOK ==
  /\ {mgrIgnore} \cup {ignore[n] : n \in Nodes} \subseteq IgnoreLists \cup {{}}
  /\ lastCount = NoCount \/ lastCount <= Len(saved)
  /\ \/ "watch" \in LocalEdits
     \/ \A n \in Nodes : lastWatch[n] = None \/ Len(lastWatch[n]) <= WireMax
  /\ ~linked => syncs = << >>

\* When the app has written all of its watch list, the manager has that list.
SyncedIsCurrent == linked /\ syncs = << >> => mgrWatch = appWatch

\* As long as the app stays connected and changes nothing more, every node comes
\* to ignore what the app ignores, although packets are lost, nodes and the
\* manager restart and phones change the lists of nodes.
IgnoreSettles == <>[](linked => \A n \in Nodes : ignore[n] = appIgnore)

\* The same for the watch list.
WatchSettles == <>[](linked => \A n \in Nodes : watch[n] = appWatch)

\* What the manager has when the app has written all its list.
ManagerListTrue == ListTypeOK /\ SyncedIsCurrent

\* Both lists of the app reach every node.
ListsSettle == IgnoreSettles /\ WatchSettles

\* What the manager would restore is what it has, once nothing changes.
SavedIsCurrent == <>[](saved = mgrWatch)
=============================================================================
