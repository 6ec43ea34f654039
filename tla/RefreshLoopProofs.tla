--------------------------- MODULE RefreshLoopProofs ---------------------------
(***************************************************************************)
(* Proofs about RefreshLoop, for every deployment, every pair of durations *)
(* and every last instant: the loop runs the tracker as AlertTracker says  *)
(* it is run, so what AlertTrackerProofs proves of the tracker holds of    *)
(* the alerts of `serve`; and its timers are those of the published page.  *)
(*                                                                         *)
(* The parts are proved about where they are defined.  CheckerProofs and   *)
(* AlertTrackerProofs are instantiated, and the first lemmas say that      *)
(* their definitions are those that RefreshLoop instantiates itself.  What *)
(* is new is the hand-over: from the moment a report is published until    *)
(* its evaluation has returned, the report of the store is still the one   *)
(* the loop holds, because the loop is one goroutine.                      *)
(***************************************************************************)
EXTENDS RefreshLoop, TLAPS

ScanProofs    == INSTANCE CheckerProofs
TrackerProofs == INSTANCE AlertTrackerProofs WITH Watched <- Only  \* any collection

StoreTypes ==
  /\ ready \in BOOLEAN /\ up \in BOOLEAN
  /\ lastError \in {Store!NoError, "failed"}
  /\ IsCollectionMap(report.items, Items)
  /\ loop \in LoopStates
  /\ ticked \in BOOLEAN
  /\ ctx \in {"live", "cancelled"}

(* Between SetSuccess and the return of Evaluate the store has the loop's report. *)
PublishedIsEvaluated ==
  loop = "evaluating" => ready /\ up /\ report = checkReport /\ step = "idle"

(* The loop waits for the batch, and the batch is of running timers. *)
BatchIsAwaited ==
  /\ phase = "notifying" => loop = "evaluating"
  /\ \A n \in pending : phase = "notifying" /\ n.collection \in DOMAIN states

LoopInv ==
  /\ ScanProofs!Inv
  /\ Tracker!TypeOK
  /\ StoreTypes
  /\ PublishedIsEvaluated
  /\ BatchIsAwaited
  /\ TimersMatchThePublishedStatus

-------------------------------------------------------------------------------
(* The assumptions of the parts are those of the loop. *)
LEMMA PartsAssumptions ==
  /\ ScanProofs!ScopeAssumption /\ ScanProofs!ServerAssumption
  /\ ScanProofs!ClockAssumption /\ ScanProofs!ThresholdAssumption
  /\ TrackerProofs!DurationsAssumption /\ TrackerProofs!ClockAssumption
  /\ TrackerProofs!ReportAssumption /\ TrackerProofs!WatchedAssumption
BY PartsAssumption
   DEF LoadStateUnset, Scan!LoadStates, ScanProofs!LoadStates, Tracker!LoadStates,
       TrackerProofs!LoadStates, Scan!LoadStateUnset, ScanProofs!LoadStateUnset,
       Tracker!LoadStateUnset, TrackerProofs!LoadStateUnset,
       Scan!LoadStateUnknown, ScanProofs!LoadStateUnknown,
       Tracker!LoadStateUnknown, TrackerProofs!LoadStateUnknown,
       Scan!LoadStateNotLoad, ScanProofs!LoadStateNotLoad,
       Tracker!LoadStateNotLoad, TrackerProofs!LoadStateNotLoad,
       Scan!LoadStateLoading, ScanProofs!LoadStateLoading,
       Tracker!LoadStateLoading, TrackerProofs!LoadStateLoading,
       Scan!LoadStateLoaded, ScanProofs!LoadStateLoaded,
       Tracker!LoadStateLoaded, TrackerProofs!LoadStateLoaded

(* The steps of a check are those that CheckerProofs is about. *)
LEMMA SameScan ==
  /\ Scan!BeginCheck <=> ScanProofs!BeginCheck
  /\ Scan!ResultTaken <=> ScanProofs!ResultTaken
  /\ Scan!LocalStep <=> ScanProofs!LocalStep
  /\ Scan!FailedStep <=> ScanProofs!FailedStep
  /\ Scan!AnsweredStep <=> ScanProofs!AnsweredStep
BY DEF Scan!LocalStep, ScanProofs!LocalStep, Scan!FailedStep, ScanProofs!FailedStep,
       Scan!AnsweredStep, ScanProofs!AnsweredStep,
       Scan!BeginCheck, ScanProofs!BeginCheck, Scan!ListDatabasesAnswers,
       ScanProofs!ListDatabasesAnswers, Scan!ListDatabasesFails,
       ScanProofs!ListDatabasesFails, Scan!UsesConfiguredName,
       ScanProofs!UsesConfiguredName, Scan!ListCollectionsAnswers,
       ScanProofs!ListCollectionsAnswers, Scan!ListCollectionsFails,
       ScanProofs!ListCollectionsFails, Scan!InspectAnswers, ScanProofs!InspectAnswers,
       Scan!InspectFails, ScanProofs!InspectFails, Scan!EndCheck, ScanProofs!EndCheck,
       Scan!ResultTaken, ScanProofs!ResultTaken, Scan!Turn, ScanProofs!Turn, Scan!Enter,
       ScanProofs!Enter, Scan!CollectionsIn, ScanProofs!CollectionsIn, Scan!Unhealthy,
       ScanProofs!Unhealthy, Scan!Append, ScanProofs!Append, Scan!Left, ScanProofs!Left,
       Scan!Reported, ScanProofs!Reported, Scan!CollectionHealthy,
       ScanProofs!CollectionHealthy, Scan!InspectedAs, ScanProofs!InspectedAs,
       Scan!InspectedItem, ScanProofs!InspectedItem,
       Scan!ProgressOf, ScanProofs!ProgressOf, Scan!ErrorItems, ScanProofs!ErrorItems,
       Scan!NewReport, ScanProofs!NewReport, Scan!ZeroReport, ScanProofs!ZeroReport,
       Scan!EmptyMap, ScanProofs!EmptyMap, Scan!ZeroTime, ScanProofs!ZeroTime,
       Scan!LoadStateUnset, ScanProofs!LoadStateUnset, Scan!LoadStateLoaded,
       ScanProofs!LoadStateLoaded

LEMMA SameScanTypes == Scan!TypeOK <=> ScanProofs!TypeOK
BY DEF Scan!TypeOK, ScanProofs!TypeOK, Scan!Scopes, ScanProofs!Scopes, Scan!Steps,
       ScanProofs!Steps, Scan!IsCheckReport, ScanProofs!IsCheckReport,
       Scan!CollectionMaps, ScanProofs!CollectionMaps, Scan!IsCollectionMap,
       ScanProofs!IsCollectionMap, Scan!Items, ScanProofs!Items, Scan!ZeroTime,
       ScanProofs!ZeroTime, Scan!LoadStates, ScanProofs!LoadStates, Scan!LoadStateUnset,
       ScanProofs!LoadStateUnset, Scan!LoadStateUnknown, ScanProofs!LoadStateUnknown,
       Scan!LoadStateNotLoad, ScanProofs!LoadStateNotLoad, Scan!LoadStateLoading,
       ScanProofs!LoadStateLoading, Scan!LoadStateLoaded, ScanProofs!LoadStateLoaded

(* And those of the tracker the ones that AlertTrackerProofs is about. *)
LEMMA SameTrackerTypes == Tracker!TypeOK <=> TrackerProofs!TypeOK
BY DEF Tracker!TypeOK, TrackerProofs!TypeOK, Tracker!Instants, TrackerProofs!Instants,
       Tracker!IsCollectionMap, TrackerProofs!IsCollectionMap, Tracker!LoadingState,
       TrackerProofs!LoadingState, Tracker!ZeroTime, TrackerProofs!ZeroTime,
       Tracker!Notification, TrackerProofs!Notification, Tracker!Delivery,
       TrackerProofs!Delivery, Tracker!Evaluation, TrackerProofs!Evaluation

LEMMA SameTrackerInit == Tracker!Init <=> TrackerProofs!Init
BY DEF Tracker!Init, TrackerProofs!Init, Tracker!NoStates, TrackerProofs!NoStates,
       Tracker!EmptyMap, TrackerProofs!EmptyMap, Tracker!ZeroTime,
       TrackerProofs!ZeroTime

LEMMA SameTrackerNext ==
  [Tracker!Next]_(Tracker!vars) <=> [TrackerProofs!Next]_(TrackerProofs!vars)
BY DEF Tracker!Next, TrackerProofs!Next, Tracker!vars, TrackerProofs!vars, Tracker!Tick,
       TrackerProofs!Tick, Tracker!EvaluateBegin, TrackerProofs!EvaluateBegin,
       Tracker!NewInstant, TrackerProofs!NewInstant, Tracker!Retimed,
       TrackerProofs!Retimed, Tracker!Batch, TrackerProofs!Batch, Tracker!Active,
       TrackerProofs!Active, Tracker!Due, TrackerProofs!Due, Tracker!NotifyAcknowledged,
       TrackerProofs!NotifyAcknowledged, Tracker!MarkSent, TrackerProofs!MarkSent,
       Tracker!NotifyFailed, TrackerProofs!NotifyFailed, Tracker!Deliveries,
       TrackerProofs!Deliveries, Tracker!Restart, TrackerProofs!Restart,
       Tracker!NoStates, TrackerProofs!NoStates, Tracker!EmptyMap,
       TrackerProofs!EmptyMap, Tracker!ZeroTime, TrackerProofs!ZeroTime,
       Tracker!Reports, TrackerProofs!Reports, Tracker!CollectionMaps,
       TrackerProofs!CollectionMaps, Tracker!LoadStateLoading,
       TrackerProofs!LoadStateLoading

(* ... and so is what it promises. *)
LEMMA SameAlerts ==
  /\ Tracker!AlertSpacing <=> TrackerProofs!AlertSpacing
  /\ Tracker!AlertsAreForUnbrokenLoading <=> TrackerProofs!AlertsAreForUnbrokenLoading
  /\ Tracker!RemindersFollowAnAcknowledgement
       <=> TrackerProofs!RemindersFollowAnAcknowledgement
BY DEF Tracker!AlertSpacing, TrackerProofs!AlertSpacing,
       Tracker!AlertsAreForUnbrokenLoading, TrackerProofs!AlertsAreForUnbrokenLoading,
       Tracker!RemindersFollowAnAcknowledgement,
       TrackerProofs!RemindersFollowAnAcknowledgement, Tracker!Acknowledged,
       TrackerProofs!Acknowledged

-------------------------------------------------------------------------------
(* What a step of the loop is to the check: a step of it, a change in Milvus,  *)
(* an instant that passes, or nothing; and a restart forgets it                *)
(* (root.go:224, 240).                                                         *)
scan == <<step, toScan, toInspect, checkReport, listed, answered>>

LEMMA ScanRestarts ==
  ASSUME ScanProofs!Inv, UNCHANGED <<clock, scope, server>>, step' = "idle",
         toScan' = {}, toInspect' = {}, checkReport' = Scan!ZeroReport, listed' = {},
         answered' = FALSE
  PROVE  ScanProofs!Inv'
<1>1. checkReport' = ScanProofs!ZeroReport
  BY DEF Scan!ZeroReport, ScanProofs!ZeroReport, Scan!EmptyMap, ScanProofs!EmptyMap,
         Scan!ZeroTime, ScanProofs!ZeroTime
<1>2. ScanProofs!TypeOK'
  <2>1. ScanProofs!IsCheckReport(checkReport')
    BY <1>1, PartsAssumptions, ScanProofs!ReportTypes
  <2> QED BY <2>1 DEF ScanProofs!Inv, ScanProofs!TypeOK, ScanProofs!Steps
<1>3. ScanProofs!ItemsShowTheServer'
  BY <1>1 DEF ScanProofs!ItemsShowTheServer, ScanProofs!ZeroReport, ScanProofs!EmptyMap
<1>4. ScanProofs!ScanInv'
  BY DEF ScanProofs!ScanInv, ScanProofs!UnderWay
<1> QED BY <1>2, <1>3, <1>4 DEF ScanProofs!Inv

LEMMA ScanStepInv == ScanProofs!Inv /\ [Next]_vars => ScanProofs!Inv'
<1> SUFFICES ASSUME ScanProofs!Inv, [Next]_vars PROVE ScanProofs!Inv'
  OBVIOUS
<1>1. CASE BeginCheck \/ CheckStep \/ CheckFailed \/ PublishReport
  <2>1. ScanProofs!BeginCheck \/ ScanProofs!ScanSteps \/ ScanProofs!ResultTaken
    BY <1>1, SameScan DEF BeginCheck, CheckStep, CheckFailed, PublishReport,
                          ScanProofs!ScanSteps
  <2>2. UNCHANGED ScanProofs!others
    BY <1>1 DEF BeginCheck, CheckStep, CheckFailed, PublishReport, serverVars,
                ScanProofs!others
  <2> QED BY <2>1, <2>2, PartsAssumptions, ScanProofs!CheckStepInv
<1>2. CASE UNCHANGED <<clock, serverVars, scanVars>>
  <2>1. UNCHANGED ScanProofs!vars
    BY <1>2 DEF serverVars, scanVars, ScanProofs!vars, ScanProofs!scanVars
  <2> QED BY <2>1, PartsAssumptions, ScanProofs!StutterInv
<1>3. CASE Evaluate \/ NotifyReturns
  <2>1. UNCHANGED <<clock, serverVars, scanVars>>
    BY <1>3 DEF Evaluate, Tracker!EvaluateBegin, NotifyReturns, Tracker!NotifyFailed,
                Tracker!NotifyAcknowledged
  <2> QED BY <1>2, <2>1
<1>4. CASE NextRound \/ LoopStops \/ Cancel \/ UNCHANGED vars
  <2>1. UNCHANGED <<clock, serverVars, scanVars>>
    BY <1>4 DEF NextRound, LoopStops, Cancel, vars
  <2> QED BY <1>2, <2>1
<1>5. CASE Restart
  BY <1>5, ScanRestarts DEF Restart, Tracker!Restart, serverVars
<1>6. CASE Tick
  <2>1. CASE clock < MaxClock
    <3>1. ScanProofs!Tick /\ UNCHANGED <<scope, server, ScanProofs!scanVars>>
      BY <1>6, <2>1 DEF Tick, serverVars, scanVars, ScanProofs!Tick, ScanProofs!scanVars
    <3> QED BY <3>1, PartsAssumptions, ScanProofs!TickInv
  <2>2. CASE ~(clock < MaxClock)
    <3>1. clock' = clock
      BY <1>6, <2>2, PartsAssumption DEF Tick, ScanProofs!Inv, ScanProofs!TypeOK
    <3> QED BY <1>2, <1>6, <3>1 DEF Tick
  <2> QED BY <2>1, <2>2
<1>7. CASE MilvusChanges
  <2>1. PICK c \in Collections : Scan!ServerChanges(c)
    BY <1>7 DEF MilvusChanges
  <2>2. ScanProofs!ServerChanges(c)
    BY <2>1 DEF Scan!ServerChanges, ScanProofs!ServerChanges, Scan!CollectionMaps,
                ScanProofs!CollectionMaps
  <2>3. UNCHANGED <<scope, clock, ScanProofs!scanVars>>
    BY <1>7 DEF MilvusChanges, scanVars, ScanProofs!scanVars
  <2> QED BY <2>2, <2>3, PartsAssumptions, ScanProofs!ServerStepInv
<1> QED BY <1>1, <1>3, <1>4, <1>5, <1>6, <1>7 DEF Next, LoopSteps

-------------------------------------------------------------------------------
(* What the loop hands to the tracker is a report as the tracker knows it: any *)
(* collections, each in a state that Milvus shows or, in error, in none        *)
(* (checker.go:77-80, root.go:241).                                            *)
LEMMA LoopHandsOverReports ==
  ASSUME ScanProofs!Inv PROVE LoadStatesIn(checkReport.items) \in Tracker!Reports
<1> DEFINE items == checkReport.items
<1>1. DOMAIN items \subseteq Collections
  BY DEF ScanProofs!Inv, ScanProofs!TypeOK, ScanProofs!IsCheckReport,
         ScanProofs!IsCollectionMap
<1>2. \A c \in DOMAIN items : items[c].loadState \in ReportedStates
  BY PartsAssumption
     DEF ScanProofs!Inv, ScanProofs!ItemsShowTheServer, LoadStateUnset,
         ScanProofs!LoadStateUnset
<1>3. LoadStatesIn(items) \in [DOMAIN items -> ReportedStates]
  BY <1>2 DEF LoadStatesIn
<1> QED BY <1>1, <1>3 DEF Tracker!Reports, Tracker!CollectionMaps

(* The loop runs the tracker (root.go:224-243). *)
LEMMA LoopStepIsATrackerStep ==
  ScanProofs!Inv /\ [Next]_vars => [Tracker!Next]_(Tracker!vars)
<1> SUFFICES ASSUME ScanProofs!Inv, [Next]_vars PROVE [Tracker!Next]_(Tracker!vars)
  OBVIOUS
<1>1. CASE UNCHANGED <<clock, trackerVars>>
  BY <1>1 DEF trackerVars, Tracker!vars
<1>2. CASE BeginCheck \/ CheckStep \/ CheckFailed \/ PublishReport
  <2>1. UNCHANGED <<clock, trackerVars>>
    BY <1>2 DEF BeginCheck, CheckStep, CheckFailed, PublishReport, TimersKept, trackerVars
  <2> QED BY <1>1, <2>1
<1>3. CASE NextRound \/ LoopStops \/ Cancel \/ MilvusChanges \/ UNCHANGED vars
  <2>1. UNCHANGED <<clock, trackerVars>>
    BY <1>3 DEF NextRound, LoopStops, Cancel, MilvusChanges, vars
  <2> QED BY <1>1, <2>1
<1>4. CASE Evaluate
  BY <1>4, LoopHandsOverReports DEF Evaluate, Tracker!Next
<1>5. CASE NotifyReturns \/ Restart
  BY <1>5 DEF NotifyReturns, Restart, Tracker!Next
<1>6. CASE Tick
  <2>1. CASE clock < MaxClock
    BY <1>6, <2>1 DEF Tick, trackerVars, Tracker!Next, Tracker!Tick
  <2>2. CASE ~(clock < MaxClock)
    <3>1. clock' = clock
      BY <1>6, <2>2, PartsAssumption DEF Tick, ScanProofs!Inv, ScanProofs!TypeOK
    <3> QED BY <1>1, <1>6, <3>1 DEF Tick
  <2> QED BY <2>1, <2>2
<1> QED BY <1>2, <1>3, <1>4, <1>5, <1>6 DEF Next, LoopSteps

LEMMA TrackerTypesStep ==
  ScanProofs!Inv /\ Tracker!TypeOK /\ [Next]_vars => Tracker!TypeOK'
<1> SUFFICES ASSUME ScanProofs!Inv, Tracker!TypeOK, [Next]_vars PROVE Tracker!TypeOK'
  OBVIOUS
<1>1. TrackerProofs!TypeOK /\ [TrackerProofs!Next]_(TrackerProofs!vars)
  BY LoopStepIsATrackerStep, SameTrackerNext, SameTrackerTypes
<1>2. TrackerProofs!TypeOK'
  BY <1>1, PartsAssumptions, TrackerProofs!TypeStep
<1> QED BY <1>2, SameTrackerTypes, PTL

-------------------------------------------------------------------------------
(* The parts of the invariant that are about the hand-over. *)
HandOver ==
  /\ StoreTypes
  /\ PublishedIsEvaluated
  /\ BatchIsAwaited
  /\ TimersMatchThePublishedStatus

(* A step that leaves the store, the report of the loop, the timers and the    *)
(* batch alone, and does not enter or leave the evaluation.                    *)
LEMMA HandOverUnchanged ==
  ASSUME HandOver, UNCHANGED <<storeVars, states, phase, pending>>,
         UNCHANGED <<step, checkReport>> \/ loop' # "evaluating",
         loop' = loop \/ (loop # "evaluating" /\ loop' # "evaluating"),
         loop' \in LoopStates, ticked' \in BOOLEAN, ctx' \in {"live", "cancelled"}
  PROVE  HandOver'
<1> USE DEF HandOver, storeVars
<1>1. StoreTypes'
  BY DEF StoreTypes
<1>2. PublishedIsEvaluated'
  BY DEF PublishedIsEvaluated
<1>3. BatchIsAwaited'
  BY DEF BatchIsAwaited
<1>4. TimersMatchThePublishedStatus'
  BY DEF TimersMatchThePublishedStatus
<1> QED BY <1>1, <1>2, <1>3, <1>4

(* SetSuccess: the store gets the report, and the evaluation is still to come  *)
(* (root.go:240).                                                              *)
LEMMA PublishHandsOver == ScanProofs!Inv /\ HandOver /\ PublishReport => HandOver'
<1> SUFFICES ASSUME ScanProofs!Inv, HandOver, PublishReport PROVE HandOver'
  OBVIOUS
<1>1. /\ ready' = TRUE /\ up' = TRUE /\ report' = checkReport /\ lastError' = Store!NoError
      /\ loop = "checking" /\ loop' = "evaluating" /\ step' = "idle"
      /\ UNCHANGED <<checkReport, states, phase, pending, ticked, ctx>>
  BY DEF PublishReport, Store!SetSuccess, Scan!ResultTaken, trackerVars
<1>2. phase' # "notifying"
  BY <1>1 DEF HandOver, BatchIsAwaited
<1>3. IsCollectionMap(checkReport.items, Items)
  BY DEF ScanProofs!Inv, ScanProofs!TypeOK, ScanProofs!IsCheckReport,
         ScanProofs!IsCollectionMap, IsCollectionMap, ScanProofs!Items, Items,
         ScanProofs!LoadStates, LoadStates, ScanProofs!LoadStateUnset, LoadStateUnset,
         ScanProofs!LoadStateUnknown, LoadStateUnknown, ScanProofs!LoadStateNotLoad,
         LoadStateNotLoad, ScanProofs!LoadStateLoading, LoadStateLoading,
         ScanProofs!LoadStateLoaded, LoadStateLoaded
<1>4. StoreTypes' /\ PublishedIsEvaluated'
  BY <1>1, <1>3 DEF HandOver, StoreTypes, LoopStates, PublishedIsEvaluated
<1>5. BatchIsAwaited' /\ TimersMatchThePublishedStatus'
  BY <1>1, <1>2 DEF HandOver, BatchIsAwaited, TimersMatchThePublishedStatus
<1> QED BY <1>4, <1>5 DEF HandOver

(* SetFailure: the last report stays, and so do the timers (root.go:235-239). *)
LEMMA FailureHandsOver == HandOver /\ CheckFailed => HandOver'
<1> SUFFICES ASSUME HandOver, CheckFailed PROVE HandOver'
  OBVIOUS
<1>1. /\ ready' = ready /\ up' = FALSE /\ report' = report /\ lastError' = "failed"
      /\ loop = "checking" /\ loop' = "waiting"
      /\ UNCHANGED <<states, phase, pending, ticked, ctx>>
  BY DEF CheckFailed, Store!SetFailure, NothingIsEvaluated, TimersKept
<1>2. StoreTypes' /\ PublishedIsEvaluated'
  BY <1>1 DEF HandOver, StoreTypes, LoopStates, PublishedIsEvaluated
<1>3. BatchIsAwaited' /\ TimersMatchThePublishedStatus'
  BY <1>1 DEF HandOver, BatchIsAwaited, TimersMatchThePublishedStatus
<1> QED BY <1>2, <1>3 DEF HandOver

(* Evaluate leaves exactly the loading collections of the report with a timer, *)
(* and the batch is some of them (tracker.go:61-102).                          *)
LEMMA EvaluateHandsOver == HandOver /\ Evaluate => HandOver'
<1> SUFFICES ASSUME HandOver, Evaluate PROVE HandOver'
  OBVIOUS
<1> DEFINE told == LoadStatesIn(checkReport.items)
<1>1. /\ loop = "evaluating" /\ phase = "idle" /\ Tracker!EvaluateBegin(told)
      /\ loop' = IF phase' = "idle" THEN "waiting" ELSE "evaluating"
      /\ UNCHANGED <<ready, up, report, lastError, step, checkReport, ticked, ctx>>
  BY DEF Evaluate, DuringEvaluate, storeVars, scanVars
<1>2. DOMAIN states' = LoadingIn(report'.items)
  <2>1. DOMAIN states' = Tracker!Active(told)
    BY <1>1 DEF Tracker!EvaluateBegin, Tracker!Retimed
  <2>2. Tracker!Active(told) = LoadingIn(checkReport.items)
    BY DEF Tracker!Active, LoadStatesIn, LoadingIn, Tracker!LoadStateLoading,
           LoadStateLoading
  <2> QED BY <1>1, <2>1, <2>2 DEF HandOver, PublishedIsEvaluated
<1>3. phase' \in {"idle", "notifying"} /\ (pending' # {} => phase' = "notifying")
  BY <1>1 DEF Tracker!EvaluateBegin
<1>4. \A n \in pending' : n.collection \in DOMAIN states'
  <2>1. \A n \in Tracker!Batch(told, clock) : n.collection \in Tracker!Active(told)
    BY DEF Tracker!Batch
  <2> QED BY <1>1, <2>1 DEF Tracker!EvaluateBegin, Tracker!Retimed
<1>5. StoreTypes' /\ PublishedIsEvaluated'
  BY <1>1 DEF HandOver, StoreTypes, LoopStates, PublishedIsEvaluated
<1>6. BatchIsAwaited' /\ TimersMatchThePublishedStatus'
  BY <1>1, <1>2, <1>3, <1>4 DEF BatchIsAwaited, TimersMatchThePublishedStatus
<1> QED BY <1>5, <1>6 DEF HandOver

(* The return of the batch marks timers and drops none (tracker.go:103-112). *)
LEMMA NotifyHandsOver == HandOver /\ NotifyReturns => HandOver'
<1> SUFFICES ASSUME HandOver, NotifyReturns PROVE HandOver'
  OBVIOUS
<1>1. /\ phase = "notifying" /\ phase' = "idle" /\ pending' = {}
      /\ DOMAIN states' = DOMAIN states /\ loop' = "waiting"
      /\ UNCHANGED <<ready, up, report, lastError, ticked, ctx>>
  BY DEF NotifyReturns, Tracker!NotifyFailed, Tracker!NotifyAcknowledged,
         Tracker!MarkSent, storeVars
<1>2. StoreTypes' /\ PublishedIsEvaluated'
  BY <1>1 DEF HandOver, StoreTypes, LoopStates, PublishedIsEvaluated
<1>3. BatchIsAwaited' /\ TimersMatchThePublishedStatus'
  BY <1>1 DEF HandOver, BatchIsAwaited, TimersMatchThePublishedStatus
<1> QED BY <1>2, <1>3 DEF HandOver

(* A new process has no timers and an empty page. *)
LEMMA RestartHandsOver == HandOver /\ Restart => HandOver'
<1> SUFFICES ASSUME HandOver, Restart PROVE HandOver'
  OBVIOUS
<1>1. /\ states' = Tracker!NoStates /\ phase' = "idle" /\ pending' = {}
      /\ loop' = "checking" /\ ticked' = FALSE /\ ctx' = "live"
      /\ ready' = FALSE /\ up' = FALSE /\ report' = Store!EmptyReport
      /\ lastError' = Store!NoError
  BY DEF Restart, Tracker!Restart
<1>2. DOMAIN states' = {} /\ DOMAIN report'.items = {} /\ IsCollectionMap(report'.items, Items)
  BY <1>1 DEF Tracker!NoStates, Tracker!EmptyMap, Store!EmptyReport, Store!EmptyMap,
              IsCollectionMap
<1>3. StoreTypes' /\ PublishedIsEvaluated'
  BY <1>1, <1>2 DEF StoreTypes, LoopStates, PublishedIsEvaluated
<1>4. BatchIsAwaited' /\ TimersMatchThePublishedStatus'
  BY <1>1, <1>2 DEF BatchIsAwaited, TimersMatchThePublishedStatus, LoadingIn
<1> QED BY <1>3, <1>4 DEF HandOver

-------------------------------------------------------------------------------
LEMMA LoopInitInv == Init => LoopInv
<1> SUFFICES ASSUME Init PROVE LoopInv
  OBVIOUS
<1>1. ScanProofs!Inv
  <2>1. ScanProofs!Init
    BY DEF Init, Scan!Init, ScanProofs!Init, Scan!Scopes, ScanProofs!Scopes,
           Scan!CollectionMaps, ScanProofs!CollectionMaps, Scan!ZeroReport,
           ScanProofs!ZeroReport, Scan!ZeroTime, ScanProofs!ZeroTime, Scan!EmptyMap,
           ScanProofs!EmptyMap
  <2> QED BY <2>1, PartsAssumptions, ScanProofs!InitInv
<1>2. Tracker!TypeOK
  <2>1. TrackerProofs!Init
    BY SameTrackerInit DEF Init
  <2>2. TrackerProofs!TypeOK
    BY <2>1, PartsAssumptions, TrackerProofs!TypeInit
  <2> QED BY <2>2, SameTrackerTypes
<1>3. StoreTypes /\ PublishedIsEvaluated
  BY DEF Init, Store!StoreInit, Store!EmptyReport, Store!EmptyMap, StoreTypes, LoopStates,
         IsCollectionMap, PublishedIsEvaluated
<1>4. BatchIsAwaited
  BY DEF Init, Tracker!Init, BatchIsAwaited
<1>5. TimersMatchThePublishedStatus
  <2>1. DOMAIN states = {} /\ DOMAIN report.items = {}
    BY DEF Init, Tracker!Init, Tracker!NoStates, Tracker!EmptyMap, Store!StoreInit,
           Store!EmptyReport, Store!EmptyMap
  <2> QED BY <2>1 DEF TimersMatchThePublishedStatus, LoadingIn
<1> QED BY <1>1, <1>2, <1>3, <1>4, <1>5 DEF LoopInv

LEMMA HandOverStep == ScanProofs!Inv /\ HandOver /\ [Next]_vars => HandOver'
<1> SUFFICES ASSUME ScanProofs!Inv, HandOver, [Next]_vars PROVE HandOver'
  OBVIOUS
<1>1. loop \in LoopStates /\ ticked \in BOOLEAN /\ ctx \in {"live", "cancelled"}
  BY DEF HandOver, StoreTypes
<1>2. CASE BeginCheck \/ CheckStep
  BY <1>1, <1>2, HandOverUnchanged DEF BeginCheck, CheckStep, trackerVars, loopVars
<1>3. CASE NextRound \/ LoopStops \/ Cancel
  BY <1>1, <1>3, HandOverUnchanged
     DEF NextRound, LoopStops, Cancel, scanVars, trackerVars, LoopStates
<1>4. CASE Tick \/ MilvusChanges \/ UNCHANGED vars
  BY <1>1, <1>4, HandOverUnchanged
     DEF Tick, MilvusChanges, vars, scanVars, trackerVars, loopVars
<1> QED BY <1>2, <1>3, <1>4, PublishHandsOver, FailureHandsOver, EvaluateHandsOver,
           NotifyHandsOver, RestartHandsOver DEF Next, LoopSteps

LEMMA LoopKeepsInv == Spec => []LoopInv
<1>1. LoopInv /\ [Next]_vars => LoopInv'
  BY ScanStepInv, TrackerTypesStep, HandOverStep DEF LoopInv, HandOver
<1> QED BY <1>1, LoopInitInv, PTL DEF Spec

-------------------------------------------------------------------------------
(* The loop and its parts keep their types, through failed checks, batches     *)
(* that are lost, cancellations and restarts (root.go:220-243).                *)
THEOREM LoopTypes == Spec => []TypeOK
<1>1. LoopInv => TypeOK
  BY SameScanTypes DEF LoopInv, ScanProofs!Inv, StoreTypes, TypeOK
<1> QED BY <1>1, LoopKeepsInv, PTL

(* Outside the evaluation the timers are those of the collections that the     *)
(* page shows loading (root.go:235-242, tracker.go:65-95).                     *)
THEOREM TimersAreThoseOfThePage == Spec => []TimersMatchThePublishedStatus
<1>1. LoopInv => TimersMatchThePublishedStatus
  BY DEF LoopInv
<1> QED BY <1>1, LoopKeepsInv, PTL

(* While a batch is being sent, the page shows its collections loading         *)
(* (root.go:240-242).                                                          *)
THEOREM AlertsAreThoseOfThePage == Spec => []AlertsAgreeWithThePage
<1>1. LoopInv => AlertsAgreeWithThePage
  BY DEF LoopInv, PublishedIsEvaluated, BatchIsAwaited, TimersMatchThePublishedStatus,
         AlertsAgreeWithThePage
<1> QED BY <1>1, LoopKeepsInv, PTL

(* The loop implements the tracker's own specification: Evaluate is called     *)
(* once at a time, with reports (root.go:224-243).                             *)
THEOREM LoopRunsTracker == Spec => LoopRunsTheTracker
<1>1. Init => Tracker!Init
  BY DEF Init
<1>2. LoopInv /\ [Next]_vars => [Tracker!Next]_(Tracker!vars)
  BY LoopStepIsATrackerStep DEF LoopInv
<1> QED BY <1>1, <1>2, LoopKeepsInv, PTL DEF Spec, LoopRunsTheTracker, Tracker!Spec

(* So the alerts of `serve` are spaced, are for unbroken loading, and call     *)
(* themselves reminders when they are, whatever the checks, the store and the  *)
(* signals do around them (tracker.go:60-112).                                 *)
THEOREM LoopAlertsKeepTheirPromises ==
  Spec => [](/\ Tracker!AlertSpacing
             /\ Tracker!AlertsAreForUnbrokenLoading
             /\ Tracker!RemindersFollowAnAcknowledgement)
<1>1. Init => TrackerProofs!Init
  BY SameTrackerInit DEF Init
<1>2. LoopInv /\ [Next]_vars => [TrackerProofs!Next]_(TrackerProofs!vars)
  BY LoopStepIsATrackerStep, SameTrackerNext DEF LoopInv
<1>3. Spec => TrackerProofs!Spec
  BY <1>1, <1>2, LoopKeepsInv, PTL DEF Spec, TrackerProofs!Spec
<1> QED BY <1>3, SameAlerts, PartsAssumptions, TrackerProofs!Spacing, TrackerProofs!UnbrokenLoading,
           TrackerProofs!Reminders, PTL

-------------------------------------------------------------------------------
(* The loop keeps what its readers assume.  A report is dated once, when its   *)
(* check gets going, which is after the last report was published.             *)
DatesAreInOrder ==
  /\ report.checkedAt \in 0 .. clock
  /\ ScanProofs!UnderWay => checkReport.checkedAt \in report.checkedAt .. clock

LEMMA CheckStepDates ==
  ASSUME ScanProofs!Inv, BeginCheck \/ CheckStep
  PROVE  /\ UNCHANGED <<clock, report>>
         /\ ScanProofs!UnderWay' =>
              \/ ScanProofs!UnderWay /\ checkReport'.checkedAt = checkReport.checkedAt
              \/ checkReport'.checkedAt = clock
<1>1. /\ UNCHANGED <<clock, report>>
      /\ Scan!BeginCheck \/ Scan!LocalStep \/ Scan!FailedStep \/ Scan!AnsweredStep
  BY DEF BeginCheck, CheckStep, storeVars
<1>2. ScanProofs!IsCheckReport(checkReport)
  BY DEF ScanProofs!Inv, ScanProofs!TypeOK
<1>3. CASE Scan!BeginCheck \/ Scan!ListDatabasesAnswers \/ Scan!ListDatabasesFails
  <2>1. step' \in {"listing", "failed"} \/ checkReport' = Scan!NewReport(clock)
    BY <1>3 DEF Scan!BeginCheck, Scan!ListDatabasesAnswers, Scan!ListDatabasesFails
  <2>2. Scan!NewReport(clock).checkedAt = clock
    BY DEF Scan!NewReport
  <2> QED BY <1>1, <2>1, <2>2 DEF ScanProofs!UnderWay
<1>4. ASSUME NEW c \in Collections, Scan!InspectAnswers(c) \/ Scan!InspectFails(c)
      PROVE  step = "scanning" /\ checkReport'.checkedAt = checkReport.checkedAt
  <2>1. PICK item : Scan!Append(c, item) /\ step = "scanning"
    BY <1>4 DEF Scan!InspectAnswers, Scan!InspectFails
  <2> QED BY <1>2, <2>1 DEF Scan!Append, ScanProofs!IsCheckReport
<1>5. ASSUME NEW d \in Databases,
             \/ Scan!ListCollectionsAnswers(d)
             \/ Scan!ListCollectionsFails(d)
             \/ Scan!UsesConfiguredName(d)
      PROVE  step = "scanning" /\ checkReport'.checkedAt = checkReport.checkedAt
  BY <1>2, <1>5 DEF Scan!ListCollectionsAnswers, Scan!ListCollectionsFails,
                    Scan!UsesConfiguredName, Scan!Turn, ScanProofs!IsCheckReport
<1>6. CASE Scan!EndCheck
  BY <1>1, <1>6 DEF Scan!EndCheck, ScanProofs!UnderWay
<1> QED BY <1>1, <1>3, <1>4, <1>5, <1>6
        DEF Scan!LocalStep, Scan!FailedStep, Scan!AnsweredStep, ScanProofs!UnderWay

LEMMA DatesStep ==
  ASSUME ScanProofs!Inv, DatesAreInOrder, [Next]_vars PROVE DatesAreInOrder'
<1>1. clock \in 1 .. MaxClock /\ MaxClock \in Nat
  BY PartsAssumptions DEF ScanProofs!Inv, ScanProofs!TypeOK, ScanProofs!ClockAssumption
<1>2. /\ report.checkedAt \in 0 .. clock
      /\ ScanProofs!UnderWay => checkReport.checkedAt \in report.checkedAt .. clock
  BY DEF DatesAreInOrder
<1>3. CASE BeginCheck \/ CheckStep
  BY <1>1, <1>2, <1>3, CheckStepDates DEF DatesAreInOrder
<1>4. CASE CheckFailed
  BY <1>2, <1>4 DEF CheckFailed, Scan!ResultTaken, Store!SetFailure, DatesAreInOrder,
                    ScanProofs!UnderWay
<1>5. CASE PublishReport
  <2>1. /\ report' = checkReport /\ clock' = clock /\ step = "returned" /\ step' = "idle"
    BY <1>5 DEF PublishReport, Scan!ResultTaken, Store!SetSuccess, trackerVars
  <2> QED BY <1>1, <1>2, <2>1 DEF DatesAreInOrder, ScanProofs!UnderWay
<1>6. CASE Evaluate \/ NotifyReturns \/ NextRound \/ LoopStops \/ Cancel \/ MilvusChanges
           \/ UNCHANGED vars
  <2>1. UNCHANGED <<clock, report, step, checkReport>>
    BY <1>6 DEF Evaluate, Tracker!EvaluateBegin, NotifyReturns, Tracker!NotifyFailed,
                Tracker!NotifyAcknowledged, NextRound, LoopStops, Cancel, MilvusChanges,
                vars, scanVars, storeVars
  <2> QED BY <1>2, <2>1 DEF DatesAreInOrder, ScanProofs!UnderWay
<1>7. CASE Restart
  <2>1. clock' = clock /\ report'.checkedAt = 0 /\ step' = "idle"
    BY <1>7 DEF Restart, Tracker!Restart, Store!EmptyReport, Store!ZeroTime
  <2> QED BY <1>1, <2>1 DEF DatesAreInOrder, ScanProofs!UnderWay
<1>8. CASE Tick
  <2>1. /\ clock' \in Nat /\ clock <= clock'
        /\ UNCHANGED <<report, step, checkReport>>
    BY <1>1, <1>8 DEF Tick, scanVars, storeVars
  <2> QED BY <1>1, <1>2, <2>1 DEF DatesAreInOrder, ScanProofs!UnderWay
<1> QED BY <1>3, <1>4, <1>5, <1>6, <1>7, <1>8 DEF Next, LoopSteps

(* Every step of the loop is one of the store's feed, or leaves it alone. *)
LEMMA LoopStepFeeds ==
  ASSUME ScanProofs!Inv, DatesAreInOrder, [Next]_vars
  PROVE  [\/ Store!Publishes(report')
          \/ Store!SetFailure("failed")
          \/ Store!StoreInit']_(Store!storeVars)
<1>1. CASE PublishReport
  <2>1. /\ step = "returned" /\ report' = checkReport
        /\ Store!SetSuccess(report')
    BY <1>1 DEF PublishReport, Store!SetSuccess
  <2>2. clock \in Nat
    BY DEF ScanProofs!Inv, ScanProofs!TypeOK
  <2>3. checkReport.checkedAt # Store!ZeroTime /\ report.checkedAt <= checkReport.checkedAt
    BY <2>1, <2>2 DEF ScanProofs!Inv, ScanProofs!TypeOK, DatesAreInOrder,
                      ScanProofs!UnderWay, ScanProofs!ZeroTime, Store!ZeroTime
  <2> QED BY <2>1, <2>3 DEF Store!Publishes
<1>2. CASE CheckFailed
  BY <1>2 DEF CheckFailed
<1>3. CASE Restart
  BY <1>3 DEF Restart, Store!StoreInit
<1>4. CASE BeginCheck \/ CheckStep \/ Evaluate \/ NotifyReturns
  BY <1>4 DEF BeginCheck, CheckStep, Evaluate, NotifyReturns, storeVars, Store!storeVars
<1>5. CASE NextRound \/ LoopStops \/ Cancel \/ Tick \/ MilvusChanges \/ UNCHANGED vars
  BY <1>5 DEF NextRound, LoopStops, Cancel, Tick, MilvusChanges, vars, storeVars,
              Store!storeVars
<1> QED BY <1>1, <1>2, <1>3, <1>4, <1>5 DEF Next, LoopSteps

(* The loop feeds the store as its readers assume: reports are dated and in    *)
(* order, through failed checks, cancellations and restarts                    *)
(* (checker.go:46, root.go:234-243).                                           *)
THEOREM LoopFeedsReaders == Spec => LoopFeedsTheReaders
<1>1. Init => Store!StoreInit
  BY DEF Init
<1>2. Init => DatesAreInOrder
  BY DEF Init, Scan!Init, Store!StoreInit, Store!EmptyReport, Store!ZeroTime,
         DatesAreInOrder, ScanProofs!UnderWay
<1>3. LoopInv /\ DatesAreInOrder /\ [Next]_vars => DatesAreInOrder'
  BY DatesStep DEF LoopInv
<1>4. LoopInv /\ DatesAreInOrder /\ [Next]_vars =>
        [\/ Store!Publishes(report')
         \/ Store!SetFailure("failed")
         \/ Store!StoreInit']_(Store!storeVars)
  BY LoopStepFeeds DEF LoopInv
<1> QED BY <1>1, <1>2, <1>3, <1>4, LoopKeepsInv, PTL
        DEF Spec, LoopFeedsTheReaders, Store!Feed

-------------------------------------------------------------------------------
(* Where an outage does leave the timers alone.  With the wildcard database    *)
(* the first request of a check lists the databases, and its failure is the    *)
(* one error that Check returns: a report, and so an evaluation, means that    *)
(* Milvus has answered.  With a configured database there is no such request.  *)
EvaluatedIsAnswered ==
  /\ scope = "every database"
  /\ step \in {"scanning", "returned"} \/ loop = "evaluating" => answered = TRUE

LEMMA CheckStepIsAnswered ==
  ASSUME EvaluatedIsAnswered, CheckStep PROVE EvaluatedIsAnswered'
<1>1. /\ loop = "checking" /\ loop' = "checking" /\ scope' = scope
      /\ Scan!LocalStep \/ Scan!FailedStep \/ Scan!AnsweredStep
  BY DEF CheckStep, loopVars, serverVars
<1>2. CASE Scan!LocalStep
  BY <1>1, <1>2 DEF Scan!LocalStep, Scan!EndCheck, Scan!UsesConfiguredName, Scan!Turn,
                    EvaluatedIsAnswered
<1>3. CASE Scan!FailedStep
  <2>1. CASE Scan!ListDatabasesFails
    BY <1>1, <2>1 DEF Scan!ListDatabasesFails, EvaluatedIsAnswered
  <2>2. ASSUME NEW d \in Databases, Scan!ListCollectionsFails(d)
        PROVE  EvaluatedIsAnswered'
    BY <1>1, <2>2 DEF Scan!ListCollectionsFails, EvaluatedIsAnswered
  <2>3. ASSUME NEW c \in Collections, Scan!InspectFails(c) PROVE EvaluatedIsAnswered'
    <3>1. step = "scanning" /\ step' = step /\ answered' \in {answered, TRUE}
      BY <2>3 DEF Scan!InspectFails, Scan!Append
    <3> QED BY <1>1, <3>1 DEF EvaluatedIsAnswered
  <2> QED BY <1>3, <2>1, <2>2, <2>3 DEF Scan!FailedStep
<1>4. CASE Scan!AnsweredStep
  <2>1. answered' = TRUE
    BY <1>4 DEF Scan!AnsweredStep, Scan!ListDatabasesAnswers, Scan!ListCollectionsAnswers,
                Scan!InspectAnswers
  <2> QED BY <1>1, <2>1 DEF EvaluatedIsAnswered
<1> QED BY <1>1, <1>2, <1>3, <1>4

LEMMA EvaluatedIsAnsweredStep ==
  ASSUME EvaluatedIsAnswered, [Next]_vars PROVE EvaluatedIsAnswered'
<1>1. CASE BeginCheck
  BY <1>1 DEF BeginCheck, Scan!BeginCheck, loopVars, serverVars, EvaluatedIsAnswered
<1>2. CASE CheckFailed \/ PublishReport
  BY <1>2 DEF CheckFailed, NothingIsEvaluated, PublishReport, Scan!ResultTaken, serverVars,
              EvaluatedIsAnswered
<1>3. CASE Evaluate
  BY <1>3 DEF Evaluate, serverVars, scanVars, EvaluatedIsAnswered
<1>4. CASE NotifyReturns \/ NextRound \/ LoopStops
  BY <1>4 DEF NotifyReturns, NextRound, LoopStops, serverVars, scanVars,
              EvaluatedIsAnswered
<1>5. CASE Cancel \/ Tick \/ MilvusChanges \/ UNCHANGED vars
  BY <1>5 DEF Cancel, Tick, MilvusChanges, vars, serverVars, scanVars, loopVars,
              EvaluatedIsAnswered
<1>6. CASE Restart
  BY <1>6 DEF Restart, serverVars, EvaluatedIsAnswered
<1> QED BY <1>1, <1>2, <1>3, <1>4, <1>5, <1>6, CheckStepIsAnswered DEF Next, LoopSteps

(* When every database is watched, a check in which Milvus answers nothing     *)
(* leaves every running timer running (checker.go:37-44, root.go:235-239).     *)
THEOREM OutageOfAllDatabasesKeepsTheTimers ==
  Spec /\ scope = "every database" => OutageKeepsTheTimers
<1>1. Init /\ scope = "every database" => EvaluatedIsAnswered
  BY DEF Init, Scan!Init, EvaluatedIsAnswered
<1>2. EvaluatedIsAnswered /\ [Next]_vars => EvaluatedIsAnswered'
  BY EvaluatedIsAnsweredStep
<1>3. EvaluatedIsAnswered /\ [Next]_vars =>
        [(Evaluate \/ CheckFailed) /\ ~answered => DOMAIN states \subseteq DOMAIN states']_vars
  BY DEF EvaluatedIsAnswered, Evaluate, CheckFailed, TimersKept
<1> QED BY <1>1, <1>2, <1>3, PTL DEF Spec, OutageKeepsTheTimers

===============================================================================
