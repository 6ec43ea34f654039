------------------------------ MODULE RefreshLoop ------------------------------
(***************************************************************************)
(* The background loop of `serve` (internal/cli/root.go:220-243), composed *)
(* of the parts it calls, one after the other, in one goroutine:           *)
(*                                                                         *)
(*   Check ---> Store.SetSuccess ---> Tracker.Evaluate ---> select         *)
(*         \--> Store.SetFailure ------------------------/  (ticker, ctx)  *)
(*                                                                         *)
(* The steps and the variables are those of Checker, StatusStore and       *)
(* AlertTracker; this module orders them, gives them one clock, and adds   *)
(* the ticker, the cancellation of ctx by a signal, and a crash of the     *)
(* process that starts it anew.                                            *)
(***************************************************************************)
EXTENDS Integers, Domain

CONSTANTS
  Databases, DatabaseOf, Home, Only, ServerStates, LoadThreshold,
  ReportedStates, LoadingTimeout, RepeatInterval, MaxClock

VARIABLES
  clock,
  scope, server, step, toScan, toInspect, checkReport, listed, answered,
  ready, up, report, lastError,
  states, phase, evaluatedAt, pending, inbox, evaluations,
  loop,     \* where refreshLoop is
  ticked,   \* a tick waits in ticker.C, which buffers one
  ctx       \* "live" or "cancelled"

Scan    == INSTANCE Checker
Store   == INSTANCE StatusStore
Tracker == INSTANCE AlertTracker

(* Those of the parts, whose clock is one; and a report may show any state that *)
(* Milvus shows, and none for a collection in error.                            *)
ASSUME PartsAssumption ==
  /\ Scan!ScopeAssumption /\ Scan!ServerAssumption /\ Scan!ThresholdAssumption
  /\ Tracker!DurationsAssumption /\ Tracker!ClockAssumption /\ Tracker!ReportAssumption
  /\ ServerStates \cup {LoadStateUnset} \subseteq ReportedStates

serverVars  == <<scope, server>>
scanVars    == <<step, toScan, toInspect, checkReport, listed, answered>>
storeVars   == <<ready, up, report, lastError>>
trackerVars == <<states, phase, evaluatedAt, pending, inbox, evaluations>>
loopVars    == <<loop, ticked, ctx>>
vars == <<clock, serverVars, scanVars, storeVars, trackerVars, loopVars>>

LoopStates == {"checking", "evaluating", "waiting", "stopped"}

(* Type invariant: those of the parts, and the loop is at one of its calls *)
(* (root.go:220-243).                                                      *)
TypeOK ==
  /\ Scan!TypeOK
  /\ Tracker!TypeOK
  /\ ready \in BOOLEAN /\ up \in BOOLEAN
  /\ lastError \in {Store!NoError, "failed"}
  /\ IsCollectionMap(report.items, Items)
  /\ loop \in LoopStates
  /\ ticked \in BOOLEAN
  /\ ctx \in {"live", "cancelled"}

Init ==
  /\ Scan!Init
  /\ Store!StoreInit
  /\ Tracker!Init
  /\ loop = "checking"
  /\ ticked = FALSE
  /\ ctx = "live"

-------------------------------------------------------------------------------
BeginCheck ==
  /\ loop = "checking"
  /\ Scan!BeginCheck
  /\ UNCHANGED <<clock, serverVars, storeVars, trackerVars, loopVars>>

(* Line 224.  Every request carries ctx, and fails once that is cancelled. *)
CheckStep ==
  /\ loop = "checking"
  /\ Scan!LocalStep \/ Scan!FailedStep \/ (ctx = "live" /\ Scan!AnsweredStep)
  /\ UNCHANGED <<clock, serverVars, storeVars, trackerVars, loopVars>>

(* Mutants: the zero report of a failed check is evaluated; a failed check *)
(* clears the timers.                                                      *)
ZeroReportIsEvaluated == "evaluating"
TimersCleared         == EmptyMap

NothingIsEvaluated == "waiting"
TimersKept         == states

(* Lines 235-239. *)
CheckFailed ==
  /\ loop = "checking" /\ step = "failed"
  /\ Scan!ResultTaken
  /\ Store!SetFailure("failed")
  /\ loop' = NothingIsEvaluated /\ states' = TimersKept
  /\ UNCHANGED <<clock, serverVars, phase, evaluatedAt, pending, inbox, evaluations,
                 ticked, ctx>>

(* Line 240: the status is published before the alerts are evaluated. *)
PublishReport ==
  /\ loop = "checking" /\ step = "returned"
  /\ Scan!ResultTaken
  /\ Store!SetSuccess(checkReport)
  /\ loop' = "evaluating"
  /\ UNCHANGED <<clock, serverVars, trackerVars, ticked, ctx>>

LoadStatesIn(items) == [c \in DOMAIN items |-> items[c].loadState]

(* Mutant: the evaluation runs in a goroutine of its own. *)
GoEvaluate == "waiting"

(* The loop waits for the return. *)
DuringEvaluate == IF phase' = "idle" THEN "waiting" ELSE "evaluating"

(* Line 242, with the report just published. *)
Evaluate ==
  /\ loop = "evaluating" /\ phase = "idle"
  /\ Tracker!EvaluateBegin(LoadStatesIn(checkReport.items))
  /\ loop' = DuringEvaluate
  /\ UNCHANGED <<serverVars, scanVars, storeVars, ticked, ctx>>

NotifyReturns ==
  /\ Tracker!NotifyFailed \/ (ctx = "live" /\ Tracker!NotifyAcknowledged)
  /\ loop' = "waiting"
  /\ UNCHANGED <<serverVars, scanVars, storeVars, ticked, ctx>>

(* Lines 226-230: either ready case may be chosen. *)
NextRound ==
  /\ loop = "waiting" /\ ticked
  /\ loop' = "checking"
  /\ ticked' = FALSE
  /\ UNCHANGED <<clock, serverVars, scanVars, storeVars, trackerVars, ctx>>

(* Mutant: a tick is looked for first. *)
DoneWithoutTick == ctx = "cancelled" /\ ~ticked

Done == ctx = "cancelled"

LoopStops ==
  /\ loop = "waiting" /\ Done
  /\ loop' = "stopped"
  /\ UNCHANGED <<clock, serverVars, scanVars, storeVars, trackerVars, ticked, ctx>>

Cancel ==
  /\ ctx = "live"
  /\ ctx' = "cancelled"
  /\ UNCHANGED <<clock, serverVars, scanVars, storeVars, trackerVars, loop, ticked>>

(* A crash and a new process: only Milvus, Feishu and the time are left. *)
Restart ==
  /\ Tracker!Restart
  /\ loop' = "checking" /\ ticked' = FALSE /\ ctx' = "live"
  /\ step' = "idle" /\ toScan' = {} /\ toInspect' = {}
  /\ checkReport' = Scan!ZeroReport /\ listed' = {} /\ answered' = FALSE
  /\ ready' = FALSE /\ up' = FALSE
  /\ report' = Store!EmptyReport /\ lastError' = Store!NoError
  /\ UNCHANGED serverVars

(* Time passes and the ticker, whose period is one instant, fires; a tick that *)
(* finds the buffer full is dropped.  MaxClock stands for all later instants.  *)
Tick ==
  /\ clock' = IF clock < MaxClock THEN clock + 1 ELSE MaxClock
  /\ ticked' = TRUE
  /\ UNCHANGED <<serverVars, scanVars, storeVars, trackerVars, loop, ctx>>

MilvusChanges ==
  /\ \E c \in Collections : Scan!ServerChanges(c)
  /\ UNCHANGED <<scope, clock, scanVars, storeVars, trackerVars, loopVars>>

LoopSteps ==
  \/ BeginCheck \/ CheckStep \/ CheckFailed \/ PublishReport \/ Evaluate
  \/ NotifyReturns

Next ==
  \/ LoopSteps \/ NextRound \/ LoopStops
  \/ Cancel \/ Restart \/ Tick \/ MilvusChanges

Spec == Init /\ [][Next]_vars

(* The goroutine runs, requests time out, the ticker fires; a select with two *)
(* ready cases picks at random, so LoopStops is not passed over for ever.     *)
Fairness ==
  /\ WF_vars(LoopSteps) /\ WF_vars(NextRound) /\ SF_vars(LoopStops)
  /\ WF_vars(Tick)
  /\ <>[][~Restart]_vars  \* from some moment on the process does not crash

FairSpec == Spec /\ Fairness

-------------------------------------------------------------------------------
LoadingIn(items) == {c \in DOMAIN items : items[c].loadState = LoadStateLoading}

(* Whenever the loop is not between publishing a report and evaluating it, the *)
(* running timers are those of the collections that the status page shows      *)
(* loading, through failed checks, items in error and restarts                 *)
(* (root.go:235-242, tracker.go:65-95).                                        *)
TimersMatchThePublishedStatus ==
  (loop = "evaluating" => phase = "notifying") =>
    DOMAIN states = LoadingIn(report.items)

(* What Feishu is told to be loading, the status page shows as loading at that *)
(* very moment: SetSuccess comes before Evaluate (root.go:240-242).            *)
AlertsAgreeWithThePage ==
  \A n \in pending : ready /\ up /\ n.collection \in LoadingIn(report.items)

(* The alerts of the loop are those of AlertTracker: whatever the checker and  *)
(* the store do, Evaluate is called once at a time, with reports, and the      *)
(* tracker's own properties carry over.                                        *)
LoopRunsTheTracker == Tracker!Spec

(* The page and the scrapes are fed as they assume: whatever the checks, the   *)
(* signals and the crashes do, no report is undated or older than the one it   *)
(* replaces, and none is lost but to a restart (root.go:224-243).              *)
LoopFeedsTheReaders == Store!Feed

(* docs/superpowers/specs/2026-08-17-feishu-loading-alert-design.md:43: when a *)
(* whole Milvus check fails, the state of the alerts is neither advanced nor   *)
(* cleared.  `answered` tells whether Milvus has answered anything.            *)
OutageKeepsTheTimers ==
  [][(Evaluate \/ CheckFailed) /\ ~answered =>
       DOMAIN states \subseteq DOMAIN states']_vars

(* A running check ends and its result is dealt with, however Milvus and the   *)
(* webhook fail (root.go:224-225, checker.go:34-85).                           *)
EveryRoundEnds == loop = "checking" ~> loop \in {"waiting", "stopped"}

(* After a cancellation the loop stops, also when ticks keep arriving and      *)
(* checks take longer than their period (root.go:226-230).                     *)
CancellationStopsTheLoop == ctx = "cancelled" ~> loop = "stopped" \/ ctx = "live"

===============================================================================
