----------------------------- MODULE CheckerProofs -----------------------------
(***************************************************************************)
(* Proofs about Checker, for every deployment, every configured scope and  *)
(* every threshold.                                                        *)
(*                                                                         *)
(* The properties speak of a report that is returned; the invariant says   *)
(* what the report under construction is worth.  Its hard part is that no  *)
(* item is ever written twice: `healthy` is only lowered, so an item that  *)
(* replaced a bad one would leave it behind the items.  That rests on the  *)
(* turns of the databases: what is listed belongs to databases whose turn  *)
(* has come, and every database has one turn.                              *)
(*                                                                         *)
(* The lemmas speak of actions, not of Spec: Commands takes the same steps *)
(* under a process of its own.                                             *)
(***************************************************************************)
EXTENDS Checker, TLAPS

UnderWay == step \in {"scanning", "returned"}

(* The report says of the items and warnings it has what it will say at the end. *)
HealthIsThatOfTheItems ==
  checkReport.healthy <=>
    /\ checkReport.warnings = {}
    /\ \A c \in DOMAIN checkReport.items : CollectionHealthy(checkReport.items[c])

(* A collection is listed, then inspected, once. *)
ListedAreReportedOrLeft ==
  /\ listed = DOMAIN checkReport.items \cup toInspect
  /\ DOMAIN checkReport.items \cap toInspect = {}

(* A database is to come, or was listed, or could not be. *)
DatabasesHaveOneTurn ==
  /\ \A c \in listed : DatabaseOf[c] \notin checkReport.warnings \cup toScan
  /\ checkReport.warnings \cap toScan = {}

ConfiguredCollectionIsTheOnly ==
  scope = "one collection" =>
    \/ toScan = {Home} /\ listed = {}
    \/ toScan = {} /\ listed = {Only}

(* An item shows what Milvus did, or nothing. *)
ItemsShowTheServer ==
  \A c \in DOMAIN checkReport.items :
    checkReport.items[c].loadState \in ServerStates \cup {LoadStateUnset}

ScanInv ==
  /\ UnderWay =>
       /\ HealthIsThatOfTheItems
       /\ ListedAreReportedOrLeft
       /\ DatabasesHaveOneTurn
       /\ ConfiguredCollectionIsTheOnly
  /\ step = "listing" => scope = "every database" /\ listed = {} /\ toInspect = {}
  /\ step = "returned" => toScan = {} /\ toInspect = {}

Inv == TypeOK /\ ItemsShowTheServer /\ ScanInv

-------------------------------------------------------------------------------
(* The two ways Domain says what a map from collections is: as a member of a   *)
(* set, for what is chosen, and as a predicate, for what is kept.              *)
LEMMA MapsOfCollections ==
  ASSUME NEW S, NEW m PROVE m \in CollectionMaps(S) <=> IsCollectionMap(m, S)
<1>1. ASSUME m \in CollectionMaps(S) PROVE IsCollectionMap(m, S)
  <2>1. PICK C \in SUBSET Collections : m \in [C -> S]
    BY <1>1 DEF CollectionMaps
  <2> QED BY <2>1 DEF IsCollectionMap
<1>2. ASSUME IsCollectionMap(m, S) PROVE m \in CollectionMaps(S)
  BY <1>2 DEF IsCollectionMap, CollectionMaps
<1> QED BY <1>1, <1>2

ReportedItems ==
  {item \in Items : item.loadState \in ServerStates \cup {LoadStateUnset}}

(* Both kinds of item that InspectCollection may return are CollectionReports  *)
(* of a state that Milvus shows, or of none (client.go:89-153).                *)
LEMMA ItemTypes ==
  /\ ErrorItems \subseteq ReportedItems
  /\ \A state \in ServerStates : InspectedAs(state) \subseteq ReportedItems
<1>1. ASSUME NEW item \in ErrorItems PROVE item \in ReportedItems
  <2>1. PICK e \in BOOLEAN :
          item = [exists |-> e, loadState |-> LoadStateUnset, loadProgress |-> 0,
                  indexHealthy |-> TRUE, error |-> TRUE]
    BY DEF ErrorItems
  <2>2. LoadStateUnset \in LoadStates /\ 0 \in 0 .. 100 /\ TRUE \in BOOLEAN
    BY DEF LoadStates
  <2>3. item \in Items
    BY <2>1, <2>2, Zenon DEF Items
  <2> QED BY <2>1, <2>3 DEF ReportedItems
<1>2. ASSUME NEW state \in ServerStates, NEW item \in InspectedAs(state)
      PROVE  item \in ReportedItems
  <2>1. state \in LoadStates /\ FALSE \in BOOLEAN /\ TRUE \in BOOLEAN
    BY ServerAssumption
  <2>2. ProgressOf(state) \subseteq 0 .. 100
    BY DEF ProgressOf
  <2>3. PICK p \in ProgressOf(state), i \in BOOLEAN :
          item = [exists |-> TRUE, loadState |-> state, loadProgress |-> p,
                  indexHealthy |-> i, error |-> FALSE]
    BY DEF InspectedAs, InspectedItem
  <2>4. p \in 0 .. 100
    BY <2>2
  <2>5. item \in Items
    BY <2>1, <2>3, <2>4, Zenon DEF Items
  <2> QED BY <2>3, <2>5 DEF ReportedItems
<1> QED BY <1>1, <1>2

LEMMA EmptyMapIsACollectionMap ==
  ASSUME NEW S PROVE IsCollectionMap(EmptyMap, S)
BY DEF IsCollectionMap, EmptyMap

LEMMA ReportTypes ==
  /\ IsCheckReport(ZeroReport)
  /\ \A now \in 1 .. MaxClock : IsCheckReport(NewReport(now))
BY EmptyMapIsACollectionMap, ClockAssumption
   DEF ZeroReport, NewReport, IsCheckReport, ZeroTime

LEMMA InitInv == Init => Inv
<1> SUFFICES ASSUME Init PROVE Inv
  OBVIOUS
<1>1. TypeOK
  <2>1. clock \in 1 .. MaxClock
    BY ClockAssumption DEF Init
  <2>2. IsCheckReport(checkReport)
    BY ReportTypes DEF Init
  <2> QED BY <2>1, <2>2 DEF Init, TypeOK, Steps
<1>2. ScanInv
  BY DEF Init, ScanInv, UnderWay
<1>3. ItemsShowTheServer
  BY DEF Init, ItemsShowTheServer, ZeroReport, EmptyMap
<1> QED BY <1>1, <1>2, <1>3 DEF Inv

-------------------------------------------------------------------------------
others == <<scope, server, clock>>

(* A new check starts with nothing listed and a report that says healthy      *)
(* (checker.go:34-46).                                                        *)
LEMMA BeginInv == Inv /\ (BeginCheck \/ ListDatabasesAnswers) /\ UNCHANGED others => Inv'
<1> SUFFICES ASSUME Inv, BeginCheck \/ ListDatabasesAnswers, UNCHANGED others PROVE Inv'
  OBVIOUS
<1> USE DEF Inv, others
<1>1. TypeOK'
  <2>1. NewReport(clock).checkedAt # ZeroTime
    BY ClockAssumption DEF TypeOK, NewReport, ZeroTime
  <2> QED BY <2>1, ReportTypes, ScopeAssumption
          DEF BeginCheck, ListDatabasesAnswers, TypeOK, Steps
<1>2. ScanInv'
  <2>1. CASE BeginCheck
    <3>1. ASSUME scope # "every database"
          PROVE  /\ HealthIsThatOfTheItems'
                 /\ checkReport'.warnings = {}
                 /\ DOMAIN checkReport'.items = {}
      <4>1. checkReport' = NewReport(clock)
        BY <2>1, <3>1 DEF BeginCheck
      <4>2. /\ checkReport'.healthy = TRUE
            /\ checkReport'.warnings = {}
            /\ DOMAIN checkReport'.items = {}
        BY <4>1 DEF NewReport, EmptyMap
      <4> QED BY <4>2 DEF HealthIsThatOfTheItems
    <3> QED BY <2>1, <3>1
            DEF BeginCheck, ScanInv, UnderWay, ListedAreReportedOrLeft,
                DatabasesHaveOneTurn, ConfiguredCollectionIsTheOnly
  <2>2. CASE ListDatabasesAnswers
    BY <2>2 DEF ListDatabasesAnswers, ScanInv, UnderWay, NewReport, EmptyMap,
              HealthIsThatOfTheItems, ListedAreReportedOrLeft, DatabasesHaveOneTurn,
              ConfiguredCollectionIsTheOnly
  <2> QED BY <2>1, <2>2
<1>3. ItemsShowTheServer'
  <2>1. checkReport' = ZeroReport \/ checkReport' = NewReport(clock)
    BY DEF BeginCheck, ListDatabasesAnswers
  <2>2. checkReport'.items = EmptyMap
    BY <2>1 DEF ZeroReport, NewReport
  <2> QED BY <2>2 DEF ItemsShowTheServer, EmptyMap
<1> QED BY <1>1, <1>2, <1>3

(* The turn of a database: its collections are new to the report              *)
(* (checker.go:49-62).                                                        *)
LEMMA EnterInv ==
  ASSUME Inv, NEW d \in Databases, Turn(d), UNCHANGED others,
         \/ UsesConfiguredName(d)
         \/ ListCollectionsAnswers(d)
         \/ ListCollectionsFails(d)
  PROVE  Inv'
<1> USE DEF Inv, others, Turn
<1>1. UnderWay /\ UnderWay' /\ step' = "scanning"
  BY DEF UnderWay, UsesConfiguredName, ListCollectionsAnswers, ListCollectionsFails
<1>2. CASE UsesConfiguredName(d)
  <2>1. d = Home /\ toScan = {Home} /\ listed = {}
    BY <1>1, <1>2 DEF UsesConfiguredName, ScanInv, ConfiguredCollectionIsTheOnly
  <2>2. TypeOK'
    BY <1>2, ScopeAssumption DEF UsesConfiguredName, Enter, TypeOK
  <2>3. ScanInv'
    BY <1>1, <1>2, <2>1, ScopeAssumption
       DEF UsesConfiguredName, Enter, ScanInv, HealthIsThatOfTheItems,
           ListedAreReportedOrLeft, DatabasesHaveOneTurn, ConfiguredCollectionIsTheOnly
  <2>4. ItemsShowTheServer'
    BY <1>2 DEF UsesConfiguredName, ItemsShowTheServer
  <2> QED BY <2>2, <2>3, <2>4
<1>3. CASE ListCollectionsAnswers(d)
  <2>1. CollectionsIn(d) \subseteq Collections
    BY MapsOfCollections DEF CollectionsIn, TypeOK, IsCollectionMap
  <2>2. TypeOK'
    BY <1>3, <2>1 DEF ListCollectionsAnswers, Enter, TypeOK
  <2>3. ScanInv'
    BY <1>1, <1>3 DEF ListCollectionsAnswers, Enter, CollectionsIn, ScanInv,
              HealthIsThatOfTheItems, ListedAreReportedOrLeft, DatabasesHaveOneTurn,
              ConfiguredCollectionIsTheOnly
  <2>4. ItemsShowTheServer'
    BY <1>3 DEF ListCollectionsAnswers, ItemsShowTheServer
  <2> QED BY <2>2, <2>3, <2>4
<1>4. CASE ListCollectionsFails(d)
  <2>1. checkReport' = [checkReport EXCEPT !.healthy = FALSE,
                                           !.warnings = checkReport.warnings \cup {d}]
    BY <1>4 DEF ListCollectionsFails, Unhealthy
  <2>2. /\ checkReport'.healthy = FALSE
        /\ checkReport'.warnings = checkReport.warnings \cup {d}
        /\ checkReport'.items = checkReport.items
        /\ checkReport'.checkedAt = checkReport.checkedAt
        /\ IsCheckReport(checkReport')
    BY <2>1 DEF TypeOK, IsCheckReport
  <2>3. TypeOK'
    BY <1>4, <2>2 DEF ListCollectionsFails, Enter, TypeOK
  <2>4. ScanInv'
    BY <1>1, <1>4, <2>2 DEF ListCollectionsFails, Enter, ScanInv,
              HealthIsThatOfTheItems, ListedAreReportedOrLeft, DatabasesHaveOneTurn,
              ConfiguredCollectionIsTheOnly
  <2>5. ItemsShowTheServer'
    BY <2>2 DEF ItemsShowTheServer
  <2> QED BY <2>3, <2>4, <2>5
<1> QED BY <1>2, <1>3, <1>4

(* One inspection, whatever it found: one new item, and health is lowered when *)
(* it is bad (checker.go:64-80).                                               *)
LEMMA AppendInv ==
  ASSUME Inv, NEW c \in toInspect, NEW item \in ReportedItems, step = "scanning",
         Append(c, item), answered' \in BOOLEAN, UNCHANGED others
  PROVE  Inv'
<1> USE DEF Inv, others
<1> DEFINE items == checkReport.items
<1>1. c \in Collections /\ c \notin DOMAIN items /\ IsCollectionMap(items, Items)
  BY MapsOfCollections
     DEF TypeOK, IsCheckReport, ScanInv, UnderWay, ListedAreReportedOrLeft
<1>2. /\ checkReport'.healthy = (checkReport.healthy /\ CollectionHealthy(item))
      /\ checkReport'.items = [k \in DOMAIN items \cup {c} |->
                                 IF k = c THEN item ELSE items[k]]
      /\ checkReport'.warnings = checkReport.warnings
      /\ checkReport'.checkedAt = checkReport.checkedAt
      /\ checkReport' = [checkReport EXCEPT !.healthy = checkReport'.healthy,
                                            !.items = checkReport'.items]
  BY DEF Append, Reported, TypeOK, IsCheckReport
<1>3. IsCollectionMap(checkReport'.items, Items)
  BY <1>1, <1>2 DEF IsCollectionMap, ReportedItems
<1>4. checkReport'.healthy \in BOOLEAN
  BY <1>2
<1>5. IsCheckReport(checkReport')
  BY <1>2, <1>3, <1>4 DEF TypeOK, IsCheckReport
<1>6. TypeOK'
  BY <1>2, <1>5 DEF Append, Left, TypeOK
<1>7. ScanInv'
  <2>1. UnderWay /\ UnderWay' /\ step' = "scanning"
    BY DEF UnderWay, Append
  <2>2. HealthIsThatOfTheItems'
    <3>1. /\ HealthIsThatOfTheItems
          /\ checkReport'.items[c] = item
          /\ \A k \in DOMAIN items : checkReport'.items[k] = items[k]
          /\ DOMAIN checkReport'.items = DOMAIN items \cup {c}
      BY <1>1, <1>2, <2>1 DEF ScanInv
    <3> QED BY <1>2, <3>1 DEF HealthIsThatOfTheItems
  <2>3. ListedAreReportedOrLeft'
    BY <1>1, <1>2, <2>1 DEF ScanInv, ListedAreReportedOrLeft, Append, Left
  <2>4. DatabasesHaveOneTurn' /\ ConfiguredCollectionIsTheOnly'
    BY <1>2, <2>1
       DEF ScanInv, DatabasesHaveOneTurn, ConfiguredCollectionIsTheOnly, Append
  <2> QED BY <2>1, <2>2, <2>3, <2>4 DEF ScanInv
<1>8. ItemsShowTheServer'
  BY <1>1, <1>2 DEF ItemsShowTheServer, ReportedItems
<1> QED BY <1>6, <1>7, <1>8

(* The steps of a check, in whatever order the caller lets them happen, keep  *)
(* the invariant (checker.go:34-85).                                          *)
LEMMA CheckStepInv ==
  Inv /\ (BeginCheck \/ ScanSteps \/ ResultTaken) /\ UNCHANGED others => Inv'
<1> SUFFICES ASSUME Inv, BeginCheck \/ ScanSteps \/ ResultTaken, UNCHANGED others
             PROVE  Inv'
  OBVIOUS
<1>1. CASE BeginCheck \/ ListDatabasesAnswers
  BY <1>1, BeginInv
<1>2. CASE ListDatabasesFails \/ EndCheck \/ ResultTaken
  <2>1. /\ UNCHANGED <<scope, server, clock, toScan, toInspect, checkReport, listed, answered>>
        /\ step' \in {"failed", "idle"} \/ (step' = "returned" /\ step = "scanning")
        /\ step' = "returned" => toScan = {} /\ toInspect = {}
    BY <1>2 DEF ListDatabasesFails, EndCheck, ResultTaken, others
  <2>2. TypeOK'
    BY <2>1 DEF Inv, TypeOK, Steps
  <2>3. ItemsShowTheServer' /\ ScanInv'
    BY <2>1 DEF Inv, ScanInv, UnderWay, ItemsShowTheServer, HealthIsThatOfTheItems,
                ListedAreReportedOrLeft, DatabasesHaveOneTurn,
                ConfiguredCollectionIsTheOnly
  <2> QED BY <2>2, <2>3 DEF Inv
<1>3. ASSUME NEW d \in Databases,
             UsesConfiguredName(d) \/ ListCollectionsAnswers(d) \/ ListCollectionsFails(d)
      PROVE  Inv'
  <2>1. Turn(d)
    BY <1>3 DEF UsesConfiguredName, ListCollectionsAnswers, ListCollectionsFails
  <2> QED BY <1>3, <2>1, EnterInv
<1>4. ASSUME NEW c \in Collections, InspectAnswers(c) PROVE Inv'
  <2>1. /\ step = "scanning" /\ c \in toInspect /\ c \in DOMAIN server
        /\ answered' = TRUE
    BY <1>4 DEF InspectAnswers
  <2>2. server[c] \in ServerStates
    BY <2>1, MapsOfCollections DEF Inv, TypeOK, IsCollectionMap
  <2>3. PICK item \in InspectedAs(server[c]) : Append(c, item)
    BY <1>4 DEF InspectAnswers
  <2>4. item \in ReportedItems
    BY <2>2, ItemTypes
  <2> QED BY <2>1, <2>3, <2>4, AppendInv
<1>5. ASSUME NEW c \in Collections, InspectFails(c) PROVE Inv'
  <2>1. PICK item \in ErrorItems :
          /\ Append(c, item)
          /\ answered' \in IF item.exists THEN {TRUE} ELSE {answered, TRUE}
    BY <1>5 DEF InspectFails
  <2>2. step = "scanning" /\ c \in toInspect /\ answered' \in BOOLEAN
    BY <1>5, <2>1 DEF InspectFails, Inv, TypeOK
  <2>3. item \in ReportedItems
    BY ItemTypes
  <2> QED BY <2>1, <2>2, <2>3, AppendInv
<1> QED BY <1>1, <1>2, <1>3, <1>4, <1>5
        DEF ScanSteps, AnsweredStep, FailedStep, LocalStep

(* What Milvus does meanwhile is not in the report yet. *)
LEMMA ServerStepInv ==
  ASSUME Inv, NEW c \in Collections, ServerChanges(c), UNCHANGED <<scope, clock, scanVars>>
  PROVE  Inv'
BY DEF ServerChanges, Inv, TypeOK, scanVars, ScanInv, UnderWay, ItemsShowTheServer, HealthIsThatOfTheItems,
       ListedAreReportedOrLeft, DatabasesHaveOneTurn, ConfiguredCollectionIsTheOnly

LEMMA TickInv == Inv /\ Tick /\ UNCHANGED <<scope, server, scanVars>> => Inv'
<1> SUFFICES ASSUME Inv, Tick, UNCHANGED <<scope, server, scanVars>> PROVE Inv'
  OBVIOUS
<1>1. clock' \in 1 .. MaxClock
  BY ClockAssumption DEF Tick, Inv, TypeOK
<1> QED BY <1>1
        DEF Inv, TypeOK, scanVars, ScanInv, UnderWay, ItemsShowTheServer, HealthIsThatOfTheItems,
            ListedAreReportedOrLeft, DatabasesHaveOneTurn, ConfiguredCollectionIsTheOnly

LEMMA StutterInv == Inv /\ UNCHANGED vars => Inv'
BY DEF vars, Inv, TypeOK, scanVars, ScanInv, UnderWay, ItemsShowTheServer, HealthIsThatOfTheItems,
       ListedAreReportedOrLeft, DatabasesHaveOneTurn, ConfiguredCollectionIsTheOnly

(* In a returned report the invariant is what the properties say.             *)
LEMMA InvIsEnough == Inv => HealthyReportIsComplete /\ EveryListedCollectionIsReported
<1> SUFFICES ASSUME Inv, step = "returned"
             PROVE  HealthyReportIsComplete /\ EveryListedCollectionIsReported
  BY DEF HealthyReportIsComplete, EveryListedCollectionIsReported
<1>1. /\ HealthIsThatOfTheItems /\ ListedAreReportedOrLeft
      /\ DatabasesHaveOneTurn /\ ConfiguredCollectionIsTheOnly
      /\ toScan = {} /\ toInspect = {}
  BY DEF Inv, ScanInv, UnderWay
<1>2. HealthyReportIsComplete
  BY <1>1 DEF HealthyReportIsComplete, HealthIsThatOfTheItems
<1>3. EveryListedCollectionIsReported
  BY <1>1 DEF EveryListedCollectionIsReported, ListedAreReportedOrLeft,
              DatabasesHaveOneTurn, ConfiguredCollectionIsTheOnly
<1> QED BY <1>2, <1>3

LEMMA InvStep == Inv /\ [Next]_vars => Inv'
<1> SUFFICES ASSUME Inv, [Next]_vars PROVE Inv'
  OBVIOUS
<1>1. CASE (BeginCheck \/ ScanSteps \/ ResultTaken) /\ UNCHANGED <<scope, server, clock>>
  BY <1>1, CheckStepInv DEF others
<1>2. CASE \E c \in Collections : ServerChanges(c) /\ UNCHANGED <<scope, clock, scanVars>>
  BY <1>2, ServerStepInv
<1>3. CASE Tick /\ UNCHANGED <<scope, server, scanVars>>
  BY <1>3, TickInv
<1>4. CASE UNCHANGED vars
  BY <1>4, StutterInv
<1> QED BY <1>1, <1>2, <1>3, <1>4 DEF Next

-------------------------------------------------------------------------------
(* Checks by themselves: reports are well formed, a report says healthy exactly *)
(* when all it covers could be listed and passes, and every listed collection   *)
(* has its item (checker.go:34-85).                                             *)
THEOREM ReportsAreComplete ==
  Spec => [](TypeOK /\ HealthyReportIsComplete /\ EveryListedCollectionIsReported)
<1>1. Inv => TypeOK /\ HealthyReportIsComplete /\ EveryListedCollectionIsReported
  BY InvIsEnough DEF Inv
<1> QED BY <1>1, InitInv, InvStep, PTL DEF Spec
===============================================================================
