--------------------------- MODULE LatestDetections ---------------------------
(***************************************************************************)
(* What the detection spool promises, without its table: it keeps the      *)
(* latest detection of each engine and MAC, at most Cap of them; it gives  *)
(* one up, and counts it, only for a new engine and MAC when it is full;   *)
(* and a reboot goes back to what was saved last. Which one is given up is *)
(* left open: timestamps of different boots cannot be compared.            *)
(***************************************************************************)
EXTENDS Naturals, FiniteSets

CONSTANTS Keys, Cap

VARIABLES
  latest,   \* the detections kept, each with its engine and MAC
  lost,     \* how many were given up
  saved,    \* both, as a reboot finds them
  next      \* serial number of the next detection

vars == <<latest, lost, saved, next>>

Empty == [latest |-> {}, lost |-> 0]

Init == latest = {} /\ lost = 0 /\ saved = Empty /\ next = 0

Fresh(k) == [key |-> k, id |-> next]
Of(k) == {x \in latest : x.key = k}

\* A known engine and MAC, or room for one more.
Keep(k) ==
  /\ Of(k) # {} \/ Cardinality(latest) < Cap
  /\ latest' = (latest \ Of(k)) \cup {Fresh(k)}
  /\ UNCHANGED lost

GiveUp(k) ==
  /\ Of(k) = {} /\ Cardinality(latest) = Cap
  /\ \E x \in latest : latest' = (latest \ {x}) \cup {Fresh(k)}
  /\ lost' = lost + 1

Record(k) == (Keep(k) \/ GiveUp(k)) /\ next' = next + 1 /\ UNCHANGED saved

Save == saved' = [latest |-> latest, lost |-> lost] /\ UNCHANGED <<latest, lost, next>>

Clear == latest' = {} /\ lost' = 0 /\ saved' = Empty /\ UNCHANGED next

Reboot == latest' = saved.latest /\ lost' = saved.lost /\ UNCHANGED <<saved, next>>

Next == (\E k \in Keys : Record(k)) \/ Save \/ Clear \/ Reboot

Spec == Init /\ [][Next]_vars
===============================================================================
