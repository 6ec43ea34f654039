-------------------------------- MODULE Checker --------------------------------
(***************************************************************************)
(* One health check (internal/checker/checker.go): which databases, which  *)
(* collections of each, one item per collection, and no error of one that  *)
(* stops the others.  Every call of the MilvusClient interface is a step   *)
(* of its own, and Milvus changes between any two of them: a collection    *)
(* may be created, dropped, loaded or released while the check runs.       *)
(*                                                                         *)
(* Names are scanned in any order (the code sorts them; nothing here       *)
(* depends on the order), and the Prometheus metrics and the warnings of   *)
(* an item, which are only shown, are left out.                            *)
(***************************************************************************)
EXTENDS Integers, Domain

CONSTANTS
  Databases,       \* the databases of the Milvus deployment
  DatabaseOf,      \* the database of each collection
  Home,            \* the configured database, when it is not the wildcard
  Only,            \* the configured collection, when there is one
  ServerStates,    \* the load states Milvus shows
  LoadThreshold,   \* check.load_threshold
  MaxClock         \* bound: the last instant

(* milvus.database and milvus.collection of the configuration: database "*"   *)
(* (config.Validate then refuses a collection name), one database, or one      *)
(* collection of it.                                                           *)
Scopes == {"every database", "one database", "one collection"}

ASSUME ScopeAssumption ==
  /\ DatabaseOf \in [Collections -> Databases]
  /\ Home \in Databases
  /\ Only \in Collections /\ DatabaseOf[Only] = Home
ASSUME ServerAssumption ==
  ServerStates \subseteq LoadStates \ {LoadStateUnset}
ASSUME ClockAssumption == MaxClock \in Nat \ {0}
ASSUME ThresholdAssumption == LoadThreshold \in 0 .. 100

VARIABLES
  scope,        \* the configured scope, the same for all the checks
  server,       \* external: the collections Milvus has, and their load states
  clock,        \* time.Now()
  step,         \* where Check is
  toScan,       \* the databases whose turn has not come
  toInspect,    \* the collections of the current database left to inspect
  checkReport,  \* report
  listed,       \* history: the collections this check is about
  answered      \* history: has Milvus answered any call of this check?

scanVars == <<step, toScan, toInspect, checkReport, listed, answered>>
vars == <<scope, server, clock, scanVars>>

Steps == {"idle", "listing", "scanning", "returned", "failed"}

(* Mutant: the report is not dated. *)
NewReportUndated(now) ==
  [healthy |-> TRUE, checkedAt |-> ZeroTime, warnings |-> {}, items |-> EmptyMap]

(* `warnings` holds the databases whose collections could not be listed. *)
NewReport(now) ==
  [healthy |-> TRUE, checkedAt |-> now, warnings |-> {}, items |-> EmptyMap]

(* domain.CheckReport{}, returned with an error. *)
ZeroReport ==
  [healthy |-> FALSE, checkedAt |-> ZeroTime, warnings |-> {}, items |-> EmptyMap]

IsCheckReport(r) ==
  /\ r \in [healthy : BOOLEAN, checkedAt : 0 .. MaxClock, warnings : SUBSET Databases,
            items : {r.items}]
  /\ IsCollectionMap(r.items, Items)

(* Type invariant: a report under construction, or returned, carries the *)
(* instant it was begun, and well-formed items (domain/types.go:22-42,   *)
(* checker.go:46).                                                       *)
TypeOK ==
  /\ scope \in Scopes
  /\ server \in CollectionMaps(ServerStates)
  /\ clock \in 1 .. MaxClock
  /\ step \in Steps
  /\ toScan \subseteq Databases
  /\ toInspect \subseteq Collections
  /\ IsCheckReport(checkReport)
  /\ step \in {"scanning", "returned"} => checkReport.checkedAt # ZeroTime
  /\ listed \subseteq Collections
  /\ answered \in BOOLEAN

Init ==
  /\ scope \in Scopes
  /\ server \in CollectionMaps(ServerStates)
  /\ clock = 1
  /\ step = "idle"
  /\ toScan = {} /\ toInspect = {}
  /\ checkReport = ZeroReport
  /\ listed = {}
  /\ answered = FALSE

-------------------------------------------------------------------------------
(* The call Check(ctx, database, collection), up to its first request. *)
BeginCheck ==
  /\ step = "idle"
  /\ IF scope = "every database"
       THEN step' = "listing" /\ toScan' = {} /\ checkReport' = ZeroReport
       ELSE step' = "scanning" /\ toScan' = {Home} /\ checkReport' = NewReport(clock)
  /\ toInspect' = {}
  /\ listed' = {}
  /\ answered' = FALSE

ListDatabasesAnswers ==
  /\ step = "listing"
  /\ step' = "scanning"
  /\ toScan' = Databases
  /\ checkReport' = NewReport(clock)
  /\ answered' = TRUE
  /\ UNCHANGED <<toInspect, listed>>

(* The only error that Check returns. *)
ListDatabasesFails ==
  /\ step = "listing"
  /\ step' = "failed"
  /\ UNCHANGED <<toScan, toInspect, checkReport, listed, answered>>

Turn(d) == step = "scanning" /\ toInspect = {} /\ d \in toScan

Enter(d, names) ==
  /\ toScan' = toScan \ {d}
  /\ toInspect' = names
  /\ listed' = listed \cup names

UsesConfiguredName(d) ==
  /\ scope = "one collection"
  /\ Turn(d)
  /\ Enter(d, {Only})
  /\ UNCHANGED <<step, checkReport, answered>>

CollectionsIn(d) == {c \in DOMAIN server : DatabaseOf[c] = d}

ListCollectionsAnswers(d) ==
  /\ scope # "one collection"
  /\ Turn(d)
  /\ Enter(d, CollectionsIn(d))
  /\ answered' = TRUE
  /\ UNCHANGED <<step, checkReport>>

(* Mutant: a warning, but the report stays healthy. *)
HealthyAsBefore == checkReport.healthy

Unhealthy == FALSE

(* A warning and `continue`: the database contributes no item. *)
ListCollectionsFails(d) ==
  /\ scope # "one collection"
  /\ Turn(d)
  /\ Enter(d, {})
  /\ checkReport' = [checkReport EXCEPT !.healthy = Unhealthy,
                                       !.warnings = @ \cup {d}]
  /\ UNCHANGED <<step, answered>>

CollectionHealthy(item) ==
  /\ ~item.error /\ item.exists
  /\ item.loadState = LoadStateLoaded
  /\ item.loadProgress >= LoadThreshold
  /\ item.indexHealthy

(* Mutants: a collection in error is left out of the report, or inspected again *)
(* at once.                                                                     *)
ReportedIfFine(c, item) == IF item.error THEN {} ELSE {c}
LeftUnlessFine(c, item) == IF item.error THEN toInspect ELSE toInspect \ {c}

Reported(c, item) == {c}
Left(c, item)     == toInspect \ {c}

Append(c, item) ==
  /\ toInspect' = Left(c, item)
  /\ checkReport' =
       [checkReport EXCEPT
          !.healthy = @ /\ CollectionHealthy(item),
          !.items = [k \in DOMAIN @ \cup Reported(c, item) |->
                       IF k = c THEN item ELSE @[k]]]
  /\ UNCHANGED <<step, toScan, listed>>

InspectAnswers(c) ==
  /\ step = "scanning" /\ c \in toInspect /\ c \in DOMAIN server
  /\ \E item \in InspectedAs(server[c]) : Append(c, item)
  /\ answered' = TRUE

(* The database, the description or the load state cannot be had; the item  *)
(* exists when the description was.  An answer may be that there is no such *)
(* collection.                                                              *)
InspectFails(c) ==
  /\ step = "scanning" /\ c \in toInspect
  /\ \E item \in ErrorItems :
       /\ Append(c, item)
       /\ answered' \in IF item.exists THEN {TRUE} ELSE {answered, TRUE}

EndCheck ==
  /\ step = "scanning" /\ toScan = {} /\ toInspect = {}
  /\ step' = "returned"
  /\ UNCHANGED <<toScan, toInspect, checkReport, listed, answered>>

AnsweredStep ==
  \/ ListDatabasesAnswers
  \/ \E d \in Databases : ListCollectionsAnswers(d)
  \/ \E c \in Collections : InspectAnswers(c)

FailedStep ==
  \/ ListDatabasesFails
  \/ \E d \in Databases : ListCollectionsFails(d)
  \/ \E c \in Collections : InspectFails(c)

LocalStep == EndCheck \/ \E d \in Databases : UsesConfiguredName(d)

ScanSteps == AnsweredStep \/ FailedStep \/ LocalStep

(* The caller takes the result: the refresh loop, or the command that prints it. *)
ResultTaken ==
  /\ step \in {"returned", "failed"}
  /\ step' = "idle"
  /\ UNCHANGED <<toScan, toInspect, checkReport, listed, answered>>

(* Milvus, at any moment: one collection is created, dropped, or changes state. *)
ServerChanges(c) ==
  server' \in {m \in CollectionMaps(ServerStates) :
                 /\ DOMAIN m \ {c} = DOMAIN server \ {c}
                 /\ \A k \in DOMAIN m \ {c} : m[k] = server[k]}

Tick == clock < MaxClock /\ clock' = clock + 1

Next ==
  \/ (BeginCheck \/ ScanSteps \/ ResultTaken) /\ UNCHANGED <<scope, server, clock>>
  \/ \E c \in Collections : ServerChanges(c) /\ UNCHANGED <<scope, clock, scanVars>>
  \/ Tick /\ UNCHANGED <<scope, server, scanVars>>

Spec == Init /\ [][Next]_vars

-------------------------------------------------------------------------------
(* A report says healthy exactly when every database it covers could be listed *)
(* and every item passes: a failed listing or an early bad item is not         *)
(* forgotten while the scan goes on (checker.go:53-56, 77-79).                 *)
HealthyReportIsComplete ==
  step = "returned" =>
    (checkReport.healthy <=>
       /\ checkReport.warnings = {}
       /\ \A c \in DOMAIN checkReport.items : CollectionHealthy(checkReport.items[c]))

(* One item per collection that was listed, whatever happened to the others,   *)
(* and each database is listed or warned about: an error of one collection or  *)
(* one database does not stop the rest (checker.go:47-82).                     *)
EveryListedCollectionIsReported ==
  step = "returned" =>
    /\ DOMAIN checkReport.items = listed
    /\ \A c \in listed : DatabaseOf[c] \notin checkReport.warnings
    /\ scope = "one collection" => DOMAIN checkReport.items = {Only}

===============================================================================
