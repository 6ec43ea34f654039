------------------------------ MODULE StatusStore ------------------------------
(***************************************************************************)
(* dashboard.Store (internal/dashboard/store.go): the status the refresh   *)
(* loop publishes and that the page, /readyz and the exporter read.  Every *)
(* method holds s.mu for its whole body and copies the report, so each is  *)
(* one step; what a reader does with its copy afterwards is another one.   *)
(***************************************************************************)
EXTENDS Integers, Domain

VARIABLES
  ready,      \* s.ready: some check has succeeded
  up,         \* s.up: the latest check has succeeded
  report,     \* s.report: [checkedAt, items], the report of the latest success
  lastError   \* s.lastError, "" when there is none

storeVars == <<ready, up, report, lastError>>

NoError == ""

EmptyReport == [checkedAt |-> ZeroTime, items |-> EmptyMap]

StoreInit ==
  /\ ready = FALSE
  /\ up = FALSE
  /\ report = EmptyReport
  /\ lastError = NoError

(* Mutant: the error of an earlier failure stays. *)
SetSuccessKeepingError(newReport) ==
  /\ ready' = TRUE
  /\ up' = TRUE
  /\ report' = newReport
  /\ UNCHANGED lastError

SetSuccess(newReport) ==
  /\ ready' = TRUE
  /\ up' = TRUE
  /\ report' = newReport
  /\ lastError' = NoError

(* Mutant: the report of the last success is dropped. *)
SetFailureDroppingReport(message) ==
  /\ up' = FALSE
  /\ lastError' = message
  /\ report' = EmptyReport
  /\ UNCHANGED ready

(* The previous report stays; handleRefreshResult passes a non-nil error. *)
SetFailure(message) ==
  /\ up' = FALSE
  /\ lastError' = message
  /\ UNCHANGED <<ready, report>>

(* Check dates a report when it has the databases (checker.go:46), and the *)
(* next one begins after this one has been published.                      *)
Publishes(newReport) ==
  /\ newReport.checkedAt # ZeroTime
  /\ report.checkedAt <= newReport.checkedAt
  /\ SetSuccess(newReport)

Snapshot ==
  [ready |-> ready, up |-> up, report |-> report, lastError |-> lastError]

(* GET /readyz answers 200. *)
ReadyzOK == ready /\ up

(* GET /api/status answers 200. *)
StatusOK == ready

(* What the readers of the store assume of those who write it: reports are     *)
(* dated and in order, a failure leaves the last one, a restart empties it     *)
(* (store.go:29-54, root.go:234-243).  StatusPoll runs the page against it,    *)
(* RefreshLoop has to implement it.                                            *)
Feed ==
  /\ StoreInit
  /\ [][Publishes(report') \/ SetFailure("failed") \/ StoreInit']_storeVars

===============================================================================
