---------------------------- MODULE MCAlertTracker ----------------------------
(***************************************************************************)
(* AlertTracker for TLC: two collections, a few instants, and timeouts     *)
(* short enough for a first alert, its reminder and a second period.       *)
(***************************************************************************)
EXTENDS AlertTrackerTimer, TLC

CONSTANTS c1, c2

MCReportedStates == {LoadStateLoading, LoadStateLoaded}

CollectionSymmetry == Permutations(Collections)

===============================================================================
