--------------------------- MODULE AlertTrackerTimer ---------------------------
(***************************************************************************)
(* AlertTracker seen from one collection: whatever the other collections   *)
(* of its batches do, its alerts follow a LoadingTimer of its own.         *)
(***************************************************************************)
EXTENDS AlertTracker

CONSTANT Watched  \* the collection looked at: any one of them

ASSUME WatchedAssumption == Watched \in Collections

StartedAt ==
  IF Watched \in DOMAIN states THEN states[Watched].startedAt ELSE ZeroTime
LastSentAt ==
  IF Watched \in DOMAIN states THEN states[Watched].lastSentAt ELSE ZeroTime
AlertsOfWatched ==
  {m.at : m \in {k \in Acknowledged : k.collection = Watched}}

Timer == INSTANCE LoadingTimer
           WITH now <- clock, since <- StartedAt,
                lastAlert <- LastSentAt, alerts <- AlertsOfWatched

(* The tracker implements the timer of the watched collection: one map of      *)
(* timers and one batch for all of them (tracker.go:60-112) never let a        *)
(* collection start, clear or delay the alert of another.                      *)
CollectionIsTimedAlone == Timer!Spec

===============================================================================
