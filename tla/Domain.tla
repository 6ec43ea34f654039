-------------------------------- MODULE Domain --------------------------------
(***************************************************************************)
(* The vocabulary every part of milvus-check shares                        *)
(* (internal/domain/types.go).                                             *)
(***************************************************************************)
EXTENDS Integers

CONSTANT Collections  \* the keys database "\x00" collection

(* The load states of a collection.  A Go string type has a zero value, "",  *)
(* which a CollectionReport keeps when its inspection fails.                 *)
LoadStateUnset   == ""
LoadStateUnknown == "unknown"
LoadStateNotLoad == "not_load"
LoadStateLoading == "loading"
LoadStateLoaded  == "loaded"

LoadStates == {LoadStateUnset, LoadStateUnknown, LoadStateNotLoad,
               LoadStateLoading, LoadStateLoaded}

(* What report.Collections can be when an entry ranges over S: some of the *)
(* collections, each with an entry.                                        *)
CollectionMaps(S) == UNION {[C -> S] : C \in SUBSET Collections}

IsCollectionMap(m, S) == DOMAIN m \subseteq Collections /\ m \in [DOMAIN m -> S]

EmptyMap == [c \in {} |-> c]

(* A CollectionReport, as far as health, alerts and metrics depend on it. *)
Items == [exists : BOOLEAN, loadState : LoadStates, loadProgress : 0 .. 100,
          indexHealthy : BOOLEAN, error : BOOLEAN]

(* What InspectCollection may return for a collection that Milvus shows in the  *)
(* given load state: a loaded one is at 100 percent (client.go:111-113).        *)
ProgressOf(state) == IF state = LoadStateLoaded THEN {100} ELSE {0, 100}

InspectedItem(state, progress, healthy) ==
  [exists |-> TRUE, loadState |-> state, loadProgress |-> progress,
   indexHealthy |-> healthy, error |-> FALSE]

InspectedAs(state) ==
  {InspectedItem(state, p, i) : p \in ProgressOf(state), i \in BOOLEAN}

(* What it may return with an error. *)
ErrorItems ==
  {[exists |-> e, loadState |-> LoadStateUnset, loadProgress |-> 0,
    indexHealthy |-> TRUE, error |-> TRUE] : e \in BOOLEAN}

(* The zero time.Time; every real instant is positive. *)
ZeroTime == 0

===============================================================================
