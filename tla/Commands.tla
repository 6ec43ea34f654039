-------------------------------- MODULE Commands --------------------------------
(***************************************************************************)
(* One process: main, the commands check, serve and alert-test             *)
(* (internal/cli/root.go:29-195), from the configuration file to the exit  *)
(* code, through the parts they call.  `check` takes the steps of Checker, *)
(* alert-test one call of FeishuNotifier.  `serve` is three goroutines:    *)
(* the command, which waits in ListenAndServe, the one that waits for the  *)
(* signal to shut the server down, and the refresh loop, of which only the *)
(* start, the webhook calls and the end are here (RefreshLoop has its      *)
(* rounds, StatusPoll and MetricsService what the server answers).         *)
(***************************************************************************)
EXTENDS Integers, Checker, Config

CONSTANT Files  \* configuration files, as the settings they hold

VARIABLES
  command,    \* "check", "serve" or "alert-test"
  file,
  stage,      \* where the command is
  ctx,        \* of signal.NotifyContext: "live" or "cancelled"
  client,     \* the Milvus client: "none", "open", "closed" or "closed again"
  deferred,   \* is closeFn deferred, to be called when the command returns?
  printed,    \* has the report of `check` been written?
  listener,   \* of the HTTP server: "new", "listening" or "shut down"
  loop,       \* the goroutine of the refresh loop: "none", "starting", "looping", "ended"
  result,     \* what the command returns, as an exit code, or "none"
  exit,       \* of the process: "none", "ok" (0), "error" (1) or "panic" (2)
  at, feishu, reply, err  \* the webhook call, of FeishuNotifier

Notifier == INSTANCE FeishuNotifier

callVars    == <<at, feishu, reply, err>>
checkVars   == <<scope, server, clock, scanVars>>
clientVars  == <<client, deferred>>
processVars == <<command, file, stage, ctx, clientVars, printed, listener, loop, result, exit>>
allVars     == <<processVars, checkVars, callVars>>

cfg == Overlay(file)

(* The scope of the checks that a configuration asks for (checker.go:34-58). *)
ScopeOf(c) == CASE c.database = "*"                         -> "every database"
                [] c.database # "*" /\ c.collection = ""  -> "one database"
                [] OTHER                                    -> "one collection"

ProcessInit ==
  /\ command \in {"check", "serve", "alert-test"} /\ file \in Files
  /\ stage = "loading" /\ ctx = "live" /\ printed = FALSE
  /\ client = "none" /\ deferred = FALSE
  /\ listener = "new" /\ loop = "none" /\ result = "none" /\ exit = "none"
  /\ Init /\ scope = ScopeOf(cfg)
  /\ command # "check" => server = EmptyMap  \* which only matters to a check
  /\ Notifier!Init

-------------------------------------------------------------------------------
(* closeFn, lines 173-180.  It takes no ctx and at most milvus.timeout, and what *)
(* Close answers is only logged.                                                *)
Close(c) == IF c = "open" THEN "closed" ELSE "closed again"

(* The call, and its deferral. *)
CloseNow == client' = Close(client) /\ UNCHANGED deferred
Defer    == deferred' = TRUE /\ UNCHANGED client

(* Mutant: a path on which closing was forgotten.  Another: in check, CloseNow, *)
(* the call without its `defer`.                                                *)
NeverClose == UNCHANGED clientVars

(* Line 185: buildChecker fails, and has to close what it has opened itself; *)
(* lines 80 and 107: it succeeds, and the command takes over.                *)
CloseInBuildChecker == CloseNow
DeferInCheck        == Defer
DeferInServe        == Defer

(* RunE is about to return: the deferred call is still to come. *)
ReturnWith(e) ==
  /\ stage' = "returning" /\ result' = e
  /\ UNCHANGED <<command, file, ctx, printed, listener, loop, exit>>

Return(e) == ReturnWith(e) /\ UNCHANGED clientVars

(* The other goroutines go on meanwhile. *)
DeferredClose ==
  /\ stage = "returning" /\ deferred
  /\ client' = Close(client) /\ deferred' = FALSE
  /\ UNCHANGED <<command, file, stage, ctx, printed, listener, loop, result, exit,
                 checkVars, callVars>>

(* Main returns, or exits with code 1; so ends the process. *)
Exit ==
  /\ stage = "returning" /\ ~deferred
  /\ stage' = "exited" /\ exit' = result
  /\ UNCHANGED <<command, file, ctx, clientVars, printed, listener, loop, result,
                 checkVars, callVars>>

GoTo(next) ==
  /\ stage' = next
  /\ UNCHANGED <<command, file, ctx, clientVars, printed, listener, loop, result, exit>>

(* loadRuntime; the log settings of a valid configuration suit logging.New. *)
LoadRuntime ==
  /\ stage = "loading"
  /\ IF ~Loads(file) THEN Return("error")
     ELSE GoTo(IF command = "alert-test" THEN "alert-test" ELSE "connecting")
  /\ UNCHANGED <<checkVars, callVars>>

ReadFileFails == stage = "loading" /\ Return("error") /\ UNCHANGED <<checkVars, callVars>>

(* buildChecker, lines 169-172; the dial ends with ctx, or at milvus.timeout. *)
Connect ==
  /\ stage = "connecting" /\ ctx = "live"
  /\ stage' = "connected" /\ client' = "open"
  /\ UNCHANGED <<command, file, ctx, deferred, printed, listener, loop, result, exit,
                 checkVars, callVars>>

ConnectFails ==
  stage = "connecting" /\ Return("error") /\ UNCHANGED <<checkVars, callVars>>

(* promquery.New refuses an address it cannot parse. *)
PrometheusParses == cfg.prometheusEnabled => cfg.prometheusAddress # "unparsable"

(* Lines 181-187. *)
BuildCheckerFails ==
  /\ stage = "connected" /\ ~PrometheusParses
  /\ ReturnWith("error") /\ CloseInBuildChecker
  /\ UNCHANGED <<checkVars, callVars>>

(* Lines 76-80. *)
CheckBegins ==
  /\ stage = "connected" /\ PrometheusParses /\ command = "check"
  /\ stage' = "check" /\ DeferInCheck
  /\ UNCHANGED <<command, file, ctx, printed, listener, loop, result, exit, checkVars,
                 callVars>>

(* Lines 103-133, as far as `go refreshLoop`.  The registry is new and the address *)
(* of line 117 is the one that was parsed, so neither fails.                      *)
ServeBegins ==
  /\ stage = "connected" /\ PrometheusParses /\ command = "serve"
  /\ stage' = "serve" /\ DeferInServe /\ loop' = "starting"
  /\ UNCHANGED <<command, file, ctx, printed, listener, result, exit, checkVars, callVars>>

CheckStep ==
  /\ stage = "check"
  /\ BeginCheck \/ LocalStep \/ FailedStep \/ (ctx = "live" /\ AnsweredStep)
  /\ UNCHANGED <<processVars, scope, server, clock, callVars>>

CheckFails ==
  /\ stage = "check" /\ step = "failed" /\ Return("error")
  /\ UNCHANGED <<checkVars, callVars>>

(* output.Write. *)
WriteReport ==
  /\ stage = "check" /\ step = "returned"
  /\ stage' = "written" /\ printed' = TRUE
  /\ UNCHANGED <<command, file, ctx, clientVars, listener, loop, result, exit, checkVars,
                 callVars>>

(* It fails with its writer; as JSON also on a runtime metric that is NaN, which *)
(* queryScalar (promquery/client.go:158-173) passes on.                          *)
WriteFails ==
  /\ stage = "check" /\ step = "returned" /\ Return("error")
  /\ UNCHANGED <<checkVars, callVars>>

(* Mutant: a report was printed, so all is well. *)
PrintedIsFine == "ok"

(* checker.FailureError, lines 91-96 of checker.go. *)
FailureError == IF checkReport.healthy THEN "ok" ELSE "error"

CheckEnds ==
  stage = "written" /\ Return(FailureError) /\ UNCHANGED <<checkVars, callVars>>

-------------------------------------------------------------------------------
(* runAlertTest, lines 59-64. *)
AlertTestRefused ==
  /\ stage = "alert-test" /\ ~cfg.alertEnabled /\ Return("error")
  /\ UNCHANGED <<checkVars, callVars>>

AlertTestSends ==
  /\ stage = "alert-test" /\ cfg.alertEnabled /\ Notifier!NotifyBatch
  /\ UNCHANGED <<processVars, checkVars>>

AlertTestEnds ==
  /\ stage = "alert-test" /\ at = "returned"
  /\ Return(IF err = "nil" THEN "ok" ELSE "error")
  /\ UNCHANGED <<checkVars, callVars>>

(* While the process lives; http.Client takes a timeout that is not positive *)
(* for none.                                                                 *)
CallStep ==
  /\ exit = "none"
  /\ \/ Notifier!ExchangeSteps
     \/ (cfg.requestTimeout > 0 \/ ctx = "cancelled") /\ Notifier!TimesOut
  /\ UNCHANGED <<processVars, checkVars>>

WebhookActs == Notifier!ExternalSteps /\ UNCHANGED <<processVars, checkVars>>

-------------------------------------------------------------------------------
Listen ==
  /\ stage = "serve" /\ listener = "new"
  /\ listener' = "listening"
  /\ UNCHANGED <<command, file, stage, ctx, clientVars, printed, loop, result, exit,
                 checkVars, callVars>>

(* Lines 145-147: the address cannot be had, or the listener breaks. *)
ListenFails ==
  /\ stage = "serve" /\ listener # "shut down" /\ Return("error")
  /\ UNCHANGED <<checkVars, callVars>>

(* ErrServerClosed, as soon as Shutdown has begun: nobody waits for its end, *)
(* for the requests it lets finish, or for the loop.                         *)
ServeEnds ==
  /\ stage = "serve" /\ listener = "shut down" /\ Return("ok")
  /\ UNCHANGED <<checkVars, callVars>>

(* The other goroutines of serve run until the process ends, also while the *)
(* command closes the client.                                               *)
Serving == stage \in {"serve", "returning"} /\ loop # "none"

(* Lines 135-142, at any time once ctx is cancelled. *)
Shutdown ==
  /\ Serving /\ ctx = "cancelled" /\ listener # "shut down"
  /\ listener' = "shut down"
  /\ UNCHANGED <<command, file, stage, ctx, clientVars, printed, loop, result, exit,
                 checkVars, callVars>>

(* refreshLoop, line 221: NewTicker panics unless the period is positive, and *)
(* no deferred call of another goroutine is run.                              *)
LoopBegins ==
  /\ Serving /\ loop = "starting"
  /\ IF cfg.interval > 0
       THEN loop' = "looping" /\ UNCHANGED <<stage, exit>>
       ELSE loop' = "ended" /\ stage' = "exited" /\ exit' = "panic"
  /\ UNCHANGED <<command, file, ctx, clientVars, printed, listener, result, checkVars,
                 callVars>>

(* The alert tracker, in a round of the loop. *)
LoopNotifies ==
  /\ Serving /\ loop = "looping" /\ cfg.alertEnabled
  /\ Notifier!NotifyBatch \/ Notifier!Taken
  /\ UNCHANGED <<processVars, checkVars>>

(* Lines 226-228, between two rounds. *)
LoopEnds ==
  /\ Serving /\ loop = "looping" /\ ctx = "cancelled" /\ at = "none"
  /\ loop' = "ended"
  /\ UNCHANGED <<command, file, stage, ctx, clientVars, printed, listener, result, exit,
                 checkVars, callVars>>

(* SIGINT or SIGTERM; a second one is ignored. *)
Signal ==
  /\ exit = "none" /\ ctx = "live"
  /\ ctx' = "cancelled"
  /\ UNCHANGED <<command, file, stage, clientVars, printed, listener, loop, result, exit,
                 checkVars, callVars>>

MilvusChanges ==
  /\ stage = "check"
  /\ \E c \in Collections : ServerChanges(c)
  /\ UNCHANGED <<processVars, scope, clock, scanVars, callVars>>

Start     == LoadRuntime \/ ReadFileFails \/ Connect \/ ConnectFails \/ BuildCheckerFails
               \/ CheckBegins \/ ServeBegins
Check     == CheckStep \/ CheckFails \/ WriteReport \/ WriteFails \/ CheckEnds
AlertTest == AlertTestRefused \/ AlertTestSends \/ AlertTestEnds
Serve     == Listen \/ ServeEnds
Loop      == LoopBegins \/ LoopNotifies \/ LoopEnds
End       == DeferredClose \/ Exit

ProcessNext ==
  \/ Start \/ Check \/ AlertTest \/ CallStep \/ Serve \/ Shutdown \/ Loop \/ End
  \/ ListenFails \/ Signal \/ WebhookActs \/ MilvusChanges

ProcessSpec == ProcessInit /\ [][ProcessNext]_allVars

(* The goroutines run; dials, requests and Close end at their timeouts, a webhook *)
(* call at its own if it has one.  Nothing is assumed of Milvus, Feishu or signals.  *)
FairSpec ==
  /\ ProcessSpec
  /\ WF_allVars(Start) /\ WF_allVars(Check) /\ WF_allVars(AlertTest)
  /\ WF_allVars(CallStep) /\ WF_allVars(Serve) /\ WF_allVars(Shutdown)
  /\ WF_allVars(End)

-------------------------------------------------------------------------------
(* Exit code 0 means what the reader of it takes it for: a check has printed a *)
(* report that covers every collection listed, all of them fit, and nothing    *)
(* could not be listed, even if a signal or a failure came in between; serve   *)
(* was told to stop.  And a check that printed a healthy report exits with 0   *)
(* (root.go:82-89, 145-149; milvus-check-design.md:75).                        *)
ExitCodeTellsTheTruth ==
  /\ exit = "ok" /\ command = "check" =>
       /\ printed /\ checkReport.warnings = {} /\ DOMAIN checkReport.items = listed
       /\ \A c \in listed : CollectionHealthy(checkReport.items[c])
  /\ exit = "ok" /\ command = "serve" => ctx = "cancelled"
  /\ exit = "error" => ~(printed /\ checkReport.healthy)

(* README.md:64: alert-test exits with 0 when the message was sent, and with   *)
(* another code when the webhook's configuration, the network or Feishu's      *)
(* answer is at fault.                                                         *)
TestExitMeansShown == exit = "ok" /\ command = "alert-test" => feishu = "shown"

(* A command has its Milvus client open for as long as it works, and gives it   *)
(* back once: whichever step of buildChecker, of the command or of the server   *)
(* fails, and whichever of the three closings that leaves to be made, no        *)
(* process returns with a connection left open or closed a second time, and no  *)
(* command works on a closed one (root.go:80, 107, 173-186).  The refresh loop  *)
(* of a serve that returns may, until the process is gone.                      *)
ClientIsReleasedOnce ==
  /\ client # "closed again"
  /\ stage \in {"check", "written", "serve"} => client = "open"
  /\ exit \in {"ok", "error"} => client # "open"

(* No configuration that was accepted makes the refresh loop panic and take    *)
(* the server with it (config.go:166, root.go:221).                            *)
AcceptedConfigNeverPanics == exit # "panic"

(* check and alert-test end by themselves, and serve once it is told to,       *)
(* whatever Milvus and the webhook do: a valid configuration bounds every      *)
(* wait, and serve waits for nobody (config.go:112-178, root.go:135-145).      *)
CommandEnds == command # "serve" \/ ctx = "cancelled" ~> exit # "none"

(* The webhook calls of alert-test and of the loop are the alert channel that  *)
(* AlertTracker is modelled with: a call that succeeds has shown its card, one *)
(* that fails may have, and a card is shown at most once per call, also when   *)
(* a signal or the end of the process comes in between (feishu.go:27-87).      *)
IsTheAlertChannel == Notifier!ImplementsChannel

===============================================================================
