# A TLA+ model of milvus-check

milvus-check watches a Milvus deployment. `serve` runs a health check on a timer,
publishes the latest report, exports it to Prometheus, shows it on an embedded page, sends
a Feishu card about collections that stay in the loading state, and answers the page's
questions about Prometheus metrics. `check` runs one check and prints it; `alert-test`
sends one card.

This directory holds TLA+ modules translated from the Go and JavaScript sources, TLC
configurations that check them on small instances, and TLAPS proofs, for every instance,
of every safety property that those runs check: about the alert tracker, the checker,
the Milvus client, the commands with the webhook, the refresh loop, the exporter, the
metric queries and the page. `PROJECT.json` lists, for each definition, the lines it
translates, and for each property a mutation of the model that breaks it.

Paths below are relative to `src/`.

## 1. Inventory

### The components and how they interact

```
                 one goroutine: refreshLoop                     any number of goroutines
  ticker ──►  Checker.Check ──► Store.SetSuccess ──► Tracker.Evaluate      GET /metrics ──► Collector.Collect
                 │     │          / SetFailure             │                     │ Snapshot
                 │     │               │                   ▼                     ▼
                 ▼     ▼               └──────────►   [ Store ]  ◄──── GET /api/status ◄── page: refresh()
           Milvus    Prometheus              FeishuNotifier.NotifyBatch    GET /readyz
           client    client                        │                       GET /api/metrics/* ◄── page: panels
              │                                    ▼                             │
           Milvus                            Feishu webhook                metricdash.Service ──► Prometheus
```

| Component | State it keeps | Operations | Modelled in |
|---|---|---|---|
| loading alert tracker, `internal/alert/tracker.go` | one map: collection → (startedAt, lastSentAt), under a mutex | `Evaluate` | `AlertTracker`, `AlertTrackerTimer`, `LoadingTimer` |
| Feishu notifier, `internal/alert/feishu.go`; `alert-test` in `internal/cli/root.go` | none; one HTTP exchange with a timeout | `NotifyBatch`, `runAlertTest` | `FeishuNotifier`, `AlertChannel` |
| health checker, `internal/checker/checker.go` | none; the report under construction | `Check`, `collectionHealthy` | `Checker` |
| Milvus client, `internal/milvus/client.go` | one SDK connection with a current database, under a mutex | `ListDatabases`, `ListCollections`, `InspectCollection` | `MilvusClient` |
| status store, `internal/dashboard/store.go` | ready, up, report, last error, under a RWMutex | `SetSuccess`, `SetFailure`, `Snapshot` | `StatusStore` |
| Prometheus exporter, `internal/exporter/collector.go` | error counters, the last report counted, under a mutex | `Collect` | `Exporter` |
| refresh loop, `internal/cli/root.go` | none but its position | `refreshLoop`, `handleRefreshResult` | `RefreshLoop` |
| metric queries, `internal/metricdash`, `internal/promquery`, the handlers of `/api/metrics` | none between requests; a semaphore and a wait group within one | `Catalog`, `Summary`, `Metric` | `MetricsService` |
| page: collection table, `internal/dashboard/assets/app.js` | the list, filters, page, page size | `renderCollectionPage` and its events | `CollectionTable` |
| page: status polling, same file | countdown, single-flight flag, last status, banners | `refresh`, `renderStatus`, the interval timer | `StatusPoll` |
| page: trend panels, same file | catalogue, category, range, charts, an abort controller | `loadMetricCatalog`, `loadCategory`, `drawChart`, `renderDictionary` | `TrendPanels` |
| the commands, `cmd/milvus-check`, `internal/cli/root.go`, `internal/output` | the Milvus client, the HTTP server, the signal context | `check`, `serve`, `alert-test`, `buildChecker`, `Shutdown` | `Commands` |
| configuration, `internal/config/config.go` | none | `Default`, `Load`, `Validate` | `Config` |
| logging, routes and embedded files | none | | no, see section 7 |

### What is hard here, and what correctness means

* **Tracker.** `now` is read before the webhook call and written to `lastSentAt` after
  it; one message carries the alerts of all due collections; an error may mean that the
  card was shown all the same; a crash loses the timers. Correct: alerts are about
  unbroken loading, spaced, called repeats only after an acknowledgement, never lost by
  a failed batch, and no collection disturbs the alerts of another.
* **Notifier.** Two protocols inside a 200 reply, absent keys that decode to 0, gateways.
  Correct: nil means that the card was shown, at most once per call, and every call ends.
* **Checker and client.** A check is dozens of requests while Milvus changes, over a
  connection that remembers the database of the call before, under one deadline per call.
  Correct: each answer is about the collection asked for, each listed collection is
  reported, "healthy" says exactly that all of it was seen healthy, every call returns.
* **Commands.** Any step may fail, a signal may come at any moment, and `serve` is three
  goroutines that do not wait for each other. The client is closed in three places.
  Correct: the exit code tells the truth, the client is open while a command works on it
  and closed once on every path, a valid configuration bounds every wait and panics nowhere.
* **Loop.** One goroutine calls everything in sequence. Correct: page, timers and alerts
  agree, no round blocks for ever, a cancellation stops it.
* **Exporter.** Scrapes overlap; the snapshot is taken outside the lock. Correct: no
  error is counted twice, no client sees a counter fall.
* **Metric queries.** A goroutine per metric, partial failures, a browser that leaves.
  Correct: bounded concurrency, complete and honest responses, an answer always.
* **Page.** A timer, a button, answers, failures and restarts of the server in any
  order. Correct: the page never goes back in time, shows every report in the end, marks
  old data, and the table never shows an empty page while something matches. Panels are those
  of the selected category and range whatever arrives late, own their charts, and settle.

The `hazards` of `PROJECT.json` name the line where each of these bites and the
properties that watch it.

## 2. The modules

`Domain` holds the vocabulary of `internal/domain/types.go`: load states with Go's zero
value `""`, reports as functions from some collections to their entries, the zero time
as 0, and the items the client may return, which `MilvusClient` is checked to return and
`Checker` takes as its inputs.

**`AlertTracker`** is the core. `Evaluate` is two actions because time passes and the
process may die while it holds the lock around `NotifyBatch`: `EvaluateBegin` (timers
started and cleared, batch collected) and `NotifyAcknowledged` / `NotifyFailed`. A failed
batch may have been shown. `Restart` empties the map. `inbox` and `evaluations` are
histories, what Feishu has shown and what each evaluation was told. **`LoadingTimer`** is
the abstract promise for one collection, with no batches, failures or restarts in it;
**`AlertTrackerTimer`** maps the tracker to the timer of one `Watched` collection.

**`FeishuNotifier`** steps through one exchange: sending, status, body, business codes,
with the client timeout possible until the body is read. Feishu shows, refuses (in either
protocol or both) or stays silent, a gateway may answer for it with another status or with
something that is not JSON. **`AlertChannel`** is what `AlertTracker` takes the channel to
be; the notifier is checked to implement it, in the processes that use it, so the two
actions of the tracker stand for real exchanges.

**`Config`** is `Load`: the defaults, the file laid over them, and `Validate`. A file is a
function from some settings to values; a text is one of those its use tells apart. The
function of no settings is the empty file, which does not load; settings without a
bearing on the model (`OtherSettings`) are names only.
**`Commands`** is one process from `main` to its exit code. It extends `Checker`, whose
steps are those of `check`, and instantiates `FeishuNotifier`, whose call is made by
`alert-test` or by the loop. `stage` is the position of the command; of `serve` the
goroutine that waits for the signal is the action `Shutdown`, and the loop is reduced to
its start, its webhook calls and its end. Each closing of the client is at its own site:
`CloseInBuildChecker` (the explicit call at line 185, in `BuildCheckerFails`),
`DeferInCheck` and `DeferInServe` (lines 80 and 107, on the way into the command). A
`return` only takes the command to "returning"; `DeferredClose` runs what was deferred,
and `Exit` ends the process, while the goroutines of `serve` go on: the loop may then find
its client closed, the command never does. The threshold of `Checker` is a constant here
and not `cfg.loadThreshold`: only what is loaded can be healthy, and its progress is 100,
so no value of the threshold changes a result.

**`Checker`** makes every call of the client interface a step and lets Milvus change in
between. The variable `scope` is the configured scope (every database, one database, one
collection), chosen at the start. **`MilvusClient`** models what happens below that
interface: `session` is the database the connection was left on (one goroutine uses it), `Addressed` the collection
a bare name then means, `expired` the shared deadline, after which every request fails:
nothing else is needed for a call to return.

**`StatusStore`** gives the three atomic store operations as operators over its
variables. `Exporter` and `StatusPoll` extend it, `RefreshLoop` instantiates it. `Feed` is
what stands between them: how the store may change as long as a process writes it
properly. `StatusPoll` runs the page against such changes, and `RefreshLoop` has to make
no others (`LoopFeedsTheReaders`). `Exporter` asks for a little more, that no two reports
have one date: the clock of a process runs on from check to check, while the instants of
`RefreshLoop` are coarse and end.

**`Exporter`**: `TakeSnapshot` (line 62), `Lock` (lines 63-65, with the comparison of
`lastObserved`) and `Collect` (counting, exposing, unlocking) are three actions of each
scraper; that nobody counts between another's comparison and its counting is due to the
guard `LockIsFree` alone. **`RefreshLoop`** instantiates `Checker`, `StatusStore` and
`AlertTracker` with one clock and adds their order, the ticker with its buffer of one,
cancellation, crash and restart. Requests fail once `ctx` is cancelled.

**`MetricsService`**: `worker` is the position of each goroutine, `slots` the semaphore,
`draft` the local result, `results` the response and `status` its code. Names, samples and
series are whatever Prometheus may answer; values are natural numbers plus one that is not
finite. **`StatusPoll`**: `flights` are the requests under way, with the
answer once the server has given it, so that an answer can be older than the server's
present state. **`CollectionTable`**: every event of the table followed by the whole of
`renderCollectionPage`. **`TrendPanels`**: `grid` are the panels, `requests` those that
still wait, `charts` the map of the charts. Every load of a category has a number, so that
a panel, its request and its chart can be told from those of an earlier load of the same
metric. `LoadCategory` aborts, clears, and asks anew; an aborted request is gone.

Each `MCx.tla` instantiates a module for TLC. Definitions called a *mutant* in their
comment are plausible bugs; no specification uses them, and each serves to show that one
property notices it.

## 3. Plan

Done so far, in this order: tracker and its timer, notifier, checker, store and exporter,
loop, client, metric queries, table, polling; the proofs about the tracker; then trend
panels, configuration, the commands with start and shutdown, the catalogue, and liveness
of the client.

The proofs were written in the order of section 6: first the parts the loop is made of,
then the loop by composition, then the components on either side of it.

What could follow: the abstract promise of `Exporter`, one counter per collection that
only grows, and of `MetricsService`, a bounded pool, as specifications of their own with
refinements; the properties they would imply are checked and proved as they stand.

Proofs are written about operators without RECURSIVE throughout.

## 4. The runs

Every run is exhaustive for its instance.

| Run | Question | Instance |
|---|---|---|
| `alert_tracker` | Do alerts follow the rules through failed, late and lost batches and restarts? Does each collection behave as if alone? Is loading eventually announced? | 2 collections, timeout 1, repeat 2, clock 1–4 |
| `commands` | Are reports complete? Does the exit code tell the truth, is the client open while it is used and closed once, does every process end, is success of `alert-test` a card shown, is the webhook call the channel of the tracker? | databases of 2 and 1 collections, 7 accepted files, 24 refused |
| `milvus_client` | Are answers about the right collection, are the items those the checker expects, does every call return? | 2 databases, one common name, 1 index, 3 load codes |
| `refresh_loop` | Do page, timers and alerts agree? Does the loop use the tracker as specified, and feed the store as its readers assume? Does it go on, and stop? | 1 collection, all scopes, clock 1–2 |
| `exporter` | Is nothing counted twice, and does nothing go back? | 2 scrapers, 3 checks, 1 collection |
| `metrics_service` | Bounded, complete, honest, answered? | 3 metrics, 2 slots, values 0, 1, 95 and NaN, 2 series of which 1 is kept |
| `status_poll` | Does the page only go forward, show every report, mark stale data? | clock 1–4, 2 server processes, 2 request slots |
| `trend_panels` | Is what is shown what is selected, do charts belong to their panels, does every panel settle? | 3 metrics in 2 categories, 3 ranges, 5 loads |
| `collection_table` | Is the page shown always a proper one, and does a refresh leave it? | 4 collections, pages of 1 or 2, window of 3 buttons |
| `exporter_overlap` | fails: is every error that a scrape went through counted? | 2 scrapers, 2 checks |
| `refresh_loop_outage` | fails: does an outage leave the timers alone? | as `refresh_loop` |
| `status_poll_cut_off` | fails: is stale data marked when requests fail? | as `status_poll` |

Why the bounds are enough:

* *Tracker.* Two collections make batches of none, one and two, with one collection
  cleared while the other stays. Four instants give a timer, a first alert, a reminder
  not before two more, and room for a second loading period. The last instant stands for
  all later ones: `NewInstant` lets evaluations go on there. The theorems of section 6
  remove these bounds for the safety properties.
* *Commands.* One database with two collections and one with one let either kind of call
  of a check fail before, between and after successes; order of the names does not matter
  to it. The accepted files are one per way through the code (the three scopes, JSON, no
  Prometheus, an address that does not parse, alerts, alerts off with a zero timeout, a
  setting without a bearing on the model); the
  refused ones have one mistake each, so that each condition of `Validate` decides alone.
  Three webhook codes let the protocols disagree in a refusal; the code only compares them
  with 0. What `Checker` needs the clock for is in `refresh_loop`.
* *Client.* The shared name in two databases is the only way to confuse collections. One
  index can be built, unbuilt, dropped and created while it is described.
* *Loop.* `Checker` (in `commands`) and `AlertTracker` are checked with more collections;
  the composition adds only their order, for which one collection, a loading timeout of
  one instant and a restart suffice. `MaxClock` stands for all later instants.
* *Exporter.* One scraper overtaken by another is the shortest interesting schedule;
  three checks leave a report between the two. Collections are counted independently.
* *Metrics.* Three metrics over two slots make one wait. Metrics are one with a
  default threshold at 1, one on percentages, one with an override. Two series and room
  for one make the cut.
* *Polling.* A status published at instant 1 can become older than two intervals and be
  replaced after that; the second server process starts with an empty store.
  The second request slot is there for the case that the code does not allow.
* *Panels.* A category of two metrics and one of a single metric, and five loads: enough to
  leave a category or range, come back while the first requests run, and leave again.
* *Table.* Four collections need up to four pages, more than the window shows.

`CHECK_DEADLOCK` is off in two runs, where the system really stops: a process that has
exited (`commands`), and a page whose user no longer clicks and whose panels have all
settled (`trend_panels`, once the bounded loads are used up). Elsewhere something can
always happen.

### Fairness

* `AlertTracker!FairSpec`: time goes on, the loop evaluates again, `NotifyBatch` returns
  (the HTTP client has a timeout, `feishu.go:20`), and a webhook tried again and again is
  reached some time. The last is strong fairness, an assumption about the outside, used
  by `LoadingIsEventuallyAnnounced` only; without it the promise would be false.
* `RefreshLoop!FairSpec`: the goroutine runs and its requests end (every call has a
  deadline), ticks come, a `select` with two ready cases chooses at random, so it does
  not pass over `ctx.Done()` for ever (strong fairness of `LoopStops`), and the process
  does not crash for ever.
* `Commands!FairSpec`: the goroutines run, dials, requests to Milvus and `Close` end at
  their timeouts, and a webhook call ends at its own, *if the configuration gives it one*
  (`http.Client` takes zero for none): `CommandEnds` holds because `Validate` asks for it.
  Nothing is assumed of Milvus, Feishu or signals.
* `MilvusClient!FairSpec`: the deadline of a call passes, and a request past it is over.
  No request needs to be answered.
* `MetricsService!FairSpec`: goroutines run; `requestCtx` ends every call, and the timeout
  of the client those of the catalogue.
* `TrendPanels!FairSpec`: a series request is answered or fails, since the server answers
  it at its query timeout at the latest. Nothing is assumed of the user or the catalogue.
* `FairPollSpec` of `StatusPoll`: time passes, the interval timer fires, and a request is
  answered or given up. `fetch` has no timeout of its own here; that a browser gives up a dead
  connection some time is an assumption about browsers. `ReachablePollSpec` adds that a
  server asked again and again answers some time, and that such an answer arrives some
  time. `status_poll_cut_off` uses `FairPollSpec`: a page that is never answered is the
  point.

## 5. Where the code and its documents part

Three disagreements are runs that end in a counterexample:

1. **Overlapping scrapes lose errors** (`exporter_overlap`, `ObservedErrorsAreCounted`).
   `Collect` takes its snapshot before the lock (`collector.go:62-63`). Scrape A snapshots
   report 1, which has an error; report 2 is published; scrape B snapshots and counts it;
   A then finds report 1 not newer than `lastObserved` and exposes it without counting.
   The counter calls itself "Collection check errors observed by the exporter."
   Reports that no scrape saw at all are not counted either, by design. The overlap is
   what it takes: with one scraper the property is a theorem (`OneScraperIsToldAll`).
2. **An outage clears the timers** (`refresh_loop_outage`, `OutageKeepsTheTimers`). With
   a configured database or collection, `Check` never returns an error: a Milvus that
   answers nothing yields a successful, unhealthy report without loading collections, and
   the timers go. The alert design (line 43) says a failed check leaves them alone. With
   database `"*"` the code does that, which is a theorem
   (`OutageOfAllDatabasesKeepsTheTimers`).
3. **A page that is cut off never turns stale** (`status_poll_cut_off`,
   `StaleDataIsMarked`). The age is looked at only when a status arrives (`app.js:197`).
   While requests do arrive, `status_poll` shows the same property to hold.

Smaller ones, noticed while modelling, without a run of their own:

* `README.md:35` says `/readyz` answers 200 once a check has succeeded; `root.go:202` also
  asks that the latest one did.
* `docs/superpowers/specs/2026-08-17-embedded-dashboard-design.md:45` says a failed refresh leaves the last snapshot on
  show; a failed listing in a configured database replaces it (`checker.go:52-56`,
  `root.go:240`), the case of item 2.
* `docs/superpowers/specs/2026-08-17-milvus-check-design.md:136` has failed Prometheus queries set error metrics of the
  exporter; they are warnings in the report and are not counted (`collector.go:67`).
* `docs/superpowers/specs/2026-08-17-prometheus-metrics-dashboard-design.md:64` calls a metric `no_data` when its window
  has no samples; the instant query alone decides (`service.go:201-216`).
* `check.load_threshold` never decides anything: a collection must be `loaded`, and the
  client then sets the progress to 100 (`checker.go:88`, `client.go:111-113`).
  `ItemsAreWhatTheCheckerExpects` includes that fact.
* `README.md:64` says `alert-test` exits with another code than 0 when Feishu's answer is
  wrong; a JSON object without `code` and `StatusCode`, such as `{}`, in a 200 reply counts
  as success (`feishu.go:68-87`). The model assumes that such a reply comes from Feishu.
* `docs/superpowers/specs/2026-08-17-prometheus-metrics-dashboard-design.md:79,327` has
  discovery refresh every five minutes and keep the previous catalogue when it fails. The
  server discovers anew for every request, and the page asks for the catalogue once; if
  that fails there are no panels until it is reloaded (`app.js:518-533`, `CatalogFails`).
* A catalogue that arrives after the user has chosen a range puts the configured one in
  its place (`app.js:524`). The page stays consistent, as `PanelsMatchTheSelection` says.
* A runtime metric that is NaN (`promquery/client.go:172`) cannot be written as JSON:
  `check` ends with an error, and `/api/status` has already sent status 200 when encoding
  fails (`handler.go:165-170`); the embedded dashboard design (line 135) says 500.
* `server.shutdown_timeout` has no effect: `ListenAndServe` returns when `Shutdown` begins,
  and the command then closes the client and exits (`root.go:135-149`). `Commands` has the
  exit wait for nobody.
* The success rates divide by `clamp_min(..., 1e-9)` (`catalog.go:31,46`): a system without
  requests shows 0 %, which the default levels call critical.
* Before the first check the page shows the stale banner: the zero time is a valid `Date`
  (`app.js:195-197`), which `IsStale` models.

## 6. What is proved

Each theorem holds for all values of the constants that satisfy the named assumptions of
the modules; "any" below says what that amounts to. The bounds of section 4 (last
instants, numbers of checks, loads, requests) are constants too, so the theorems hold for
every such bound. Every property of a passing run that needs no fairness is stated by a theorem;
two theorems say in addition where a property of a failing run does hold. Type
invariants are theorems too, and only the tracker's is also in a run.

| Module | Theorem | States | For any |
|---|---|---|---|
| `AlertTrackerProofs` | `TypeCorrect` | `TypeOK` | collections, reported states, positive durations |
| | `Spacing` | `AlertSpacing` | |
| | `UnbrokenLoading` | `AlertsAreForUnbrokenLoading` | |
| | `Reminders` | `RemindersFollowAnAcknowledgement` | |
| | `SentAgain` | `UnacknowledgedIsSentAgain` | |
| | `TimedAlone` | `CollectionIsTimedAlone`, the refinement of `LoadingTimer` | watched collection |
| `CheckerProofs` | `ReportsAreComplete` | `TypeOK` and the two properties of a report, of checks by themselves | databases, collections, threshold |
| `CommandsProofs` | `HealthyMeansHealthy` | `HealthyReportIsComplete` | the same, and files |
| | `ListedMeansReported` | `EveryListedCollectionIsReported` | |
| | `ExitCodesTellTheTruth` | `ExitCodeTellsTheTruth` | |
| | `TestExitsMeanShown` | `TestExitMeansShown` | |
| | `ClientsAreReleasedOnce` | `ClientIsReleasedOnce` | |
| | `LoopNeverPanics` | `AcceptedConfigNeverPanics` | |
| | `WebhookCallsAreTheChannel` | `IsTheAlertChannel`, the refinement of `AlertChannel` | business codes |
| `RefreshLoopProofs` | `LoopTypes` | `TypeOK` | all of checker and tracker |
| | `TimersAreThoseOfThePage` | `TimersMatchThePublishedStatus` | |
| | `AlertsAreThoseOfThePage` | `AlertsAgreeWithThePage` | |
| | `LoopRunsTracker` | `LoopRunsTheTracker`, the refinement of `AlertTracker` | |
| | `LoopAlertsKeepTheirPromises` | the tracker's three invariants, of the loop | |
| | `LoopFeedsReaders` | `LoopFeedsTheReaders`, the refinement of `Feed` of `StatusStore` | |
| | `OutageOfAllDatabasesKeepsTheTimers` | `OutageKeepsTheTimers`, with database `"*"` | |
| `ExporterProofs` | `ExporterTypes` | `TypeOK` | scrapers, collections, checks |
| | `ErrorsAreCountedOnce` | `NoErrorIsCountedTwice` | |
| | `StoreIsTheLatestRefresh` | `StoreShowsTheLatestRefresh` | |
| | `ScrapersNeverSeeItGoBack` | `ScrapesNeverGoBack` | |
| | `OneScraperIsToldAll` | `ObservedErrorsAreCounted`, with one scraper | |
| `MilvusClientProofs` | `ClientTypes` | `TypeOK` | databases, names, indexes, load codes |
| | `AnswersAreTheTargets` | `AnswersAreAboutTheTarget` | |
| | `HealthyMeansBuilt` | `HealthyIndexesWereBuilt` | |
| | `ItemsAreThoseOfTheChecker` | `ItemsAreWhatTheCheckerExpects` | |
| `MetricsServiceProofs` | `ServiceTypes` | `TypeOK` | finite catalogue that is not empty, slots, series kept |
| | `QueriesAreBounded` | `BoundedQueries` | |
| | `ResponsesAreComplete` | `ResponseIsComplete` | |
| | `NothingIsSilentlyZero` | `NeverSilentlyZero` | |
| `PageProofs` | `PanelTypes` | `TypeOK` of `TrendPanels` | catalogue, categories, ranges |
| | `PanelsAreThoseSelected` | `PanelsMatchTheSelection` | |
| | `ChartsAreOwned` | `ChartsAreThoseOfTheGrid` | |
| | `PollTypes` | `PollTypeOK` of `StatusPoll` | intervals, server processes, requests |
| | `PageNeverGoesBack` | `DisplayNeverGoesBack` | |
| | `TableTypes` | `TableTypeOK` of `CollectionTable` | finite set of collections, page sizes, width of the window |
| | `RowsAndButtonsAgreeAlways` | `RowsAndButtonsAgree` | |
| | `PageStaysAtARefresh` | `RefreshKeepsThePage` | |

### The invariants, and why they are needed

Hardly any of these properties is inductive. What carries them, per module (TLC checked each
invariant on the instances of section 4 before it was proved):

**Tracker.** `AlertSpacing` speaks about two alerts that may lie far apart, with failed
batches, cleared timers and restarts in between. `Inv` adds:

* `TimersAreInThePast`: timers are not younger than the last evaluation, and
  `lastSentAt` is a timeout or more after `startedAt`;
* `PendingAreDue`: the batch being sent agrees with the timers, which do not change
  meanwhile (this is where the mutex held across `NotifyBatch` enters);
* `AcknowledgedAreRecorded`: an acknowledged alert of a tracked collection either
  belongs to the running period and is no later than `lastSentAt`, or is no later than the start
  of that period;
* `RecordedAreAcknowledged`: a `lastSentAt` that is set stands for a real
  acknowledgement;
* `TrackedAreLoadingSince`: every evaluation since a timer's start saw its collection
  loading. Timers started at the last instant are exempt, since that one stands for many;
  they are never due, so `UnbrokenLoading` needs nothing of them.

The two action properties and the refinement follow from `Inv`: `SentAgain` since a
collection without an acknowledgement has `lastSentAt` zero, `TimedAlone` since each action
maps to `Advance`, `Start`, `Stop`, `Alert` or a stutter of the watched timer.

**Checker.** The properties are about a returned report. `HealthIsThatOfTheItems` says of
the report under construction that `healthy` agrees with its items and warnings. It is
kept only because no item is written twice: `healthy` is only ever lowered, so an item that
took the place of a bad one would leave it behind. Hence `ListedAreReportedOrLeft` and
`DatabasesHaveOneTurn`: a listed collection is of a database that had its turn, and
databases have one turn. The lemmas are about actions, so `Commands` and `RefreshLoop`,
which run a check inside something else, cite them as they are.

**Commands.** An exit code is true because nothing it is about moves after `Return`:
`PrintedReportIsKept` (what was printed is the returned report, still there),
`ResultsAreEarned` and `StagesOfCommands`. The client is released once because of
`OpenClientHasItsClosing`: it is open exactly while a call is deferred or `buildChecker`
has not handed it over yet, so each path has one closing before it and none after. Of the webhook call, `DecodedRepliesAreFeishus`:
a body that decodes was said by Feishu, with both codes 0 exactly if the card was shown;
with it a call that returned nil means a shown card, which is the abstract step `Succeed`
of `AlertChannel`.

**Loop.** `LoopInv` joins the invariants of the parts with the hand-over:
`PublishedIsEvaluated` (while the loop evaluates, the store has the report it holds; the
loop is one goroutine, and nobody else writes) and `BatchIsAwaited`. Each loop step is shown
to be a step of `AlertTracker` or to leave it alone. `CheckerProofs` and
`AlertTrackerProofs` are instantiated; the `Same...` lemmas say that their
definitions are those of the instances in `RefreshLoop`, and `PartsAssumption`, the
assumption of the loop, gives theirs. So the tracker's theorems are theorems about the loop.
`DatesAreInOrder` (a report under construction is dated between the published one and now)
makes the loop a `Feed`. For `OutageOfAllDatabasesKeepsTheTimers`, `EvaluatedIsAnswered`:
with database `"*"` no check gets past its first request unless Milvus answers it.

**Exporter.** A scrape works on a copy that it took before it had the lock. `ScrapeInv` says
what the copy is still worth: it is of a published report (`IsOfAPublishedReport`), not
newer than the store (`SnapshotsAreOfTheStore`), and not older than what the scraper has
seen (`ExposedIsNotAhead`); `CountedIsPublished` keeps `lastObserved` from running ahead.
The counters are compared with the reports up to `lastObserved`, to which a later refresh
adds nothing. `LockInv`: one scraper is in the lock, so what it compared on entering
(`ComparisonHolds`) is true when it counts. With one scraper `SingleInv` adds that its snapshot is not older than
`lastObserved` (`NotOvertaken`), so nothing it goes through is skipped.

**Client.** `SessionIsOnTarget`: from `UseDatabase` to the end of the call the connection
stays on the database of the target, so bare names mean it. `TargetIsSeen` and
`ItemFollowsTheRequests` relate the item, request by request, to what the target
showed; `IndexesAreSeenOrLeft` says that an index not described yet is all that
`healthy` leaves open.

**Metric queries.** `SlotsAreHeld`: the slots in use are as many as the goroutines that
are past line 149 and have not run the deferred release of line 150, a statement about cardinalities that every step of a
goroutine keeps. `DraftFollowsItsCalls` and `StoredIsFinal` say, by how far a goroutine is,
what its draft, its entry and its failures can be; `WorkersFollowTheRequest` which
goroutines a request has.

**Page.** An answer writes into the panel of its metric whatever is selected by then.
`RequestsAreForThePanels` says why that is right: a request that still waits is of the last
load, for a panel that is in the grid and says "loading". For the polling, `OneFlight` (a
slot is taken exactly while `refreshing`) and `InOrder` (page, answer under way and
server are in the order of their instants, so what arrives is not older); of the server
they use only what `Feed` says, and that no report is dated in the future. For the table, `TableInv`: what is on the page is what
`renderCollectionPage` would draw again from the list, the filters and the page. The list
is sorted, as `Check` sorts it (`Lists`). `Matching` gives a match its place by counting
the matches up to it, so what the filter does to any list is proved without an induction:
places are distinct and in order, and by counting every match has one, every place a match
(`PlacesOfTheKept`, `MatchesAreTheKept`, `MatchesInOrder`). With
`total <= TotalPages(total, size) * size`, the pages hold all matches, and the last one has
the last match.

### What the proofs taught about the models

* With an empty catalogue, `ResponseIsComplete` is false: a listing that fails has no
  metric to fail. The list of `catalog.go` is not empty, which `CatalogAssumption` now says.
* `ResponseIsComplete` used overlapping cases of a `CASE`, whose value TLA+ leaves open
  for a refused request for one metric; it now says what it means for each status.
* `RefreshLoop` composed its parts without their assumptions; `PartsAssumption` states
  them, and that the tracker may be given every state a check can report.
* `TypeOK` of `MilvusClient` said too little of the history of a call, and the type of a
  report was spelled out in `Checker` only; `IsCheckReport` names it.
* The table's filter was `SelectSeq`, which nothing but an induction over the list gets
  into; counted places say the same (TLC compared the two on every list of the instance).
* `StatusPoll` dated every report at the instant it was published, which the loop does not
  do: a check is dated when it gets going (`checker.go:46`). The page is now proved for any date that `Feed`
  allows.

### What is only model-checked

* All liveness: `LoadingIsEventuallyAnnounced`, `EveryRoundEnds`, `CancellationStopsTheLoop`,
  `CommandEnds`, `EveryCallReturns`, `RequestIsAnswered`, `ReportsAreEventuallyShown`,
  `StaleDataIsMarked`, `EveryPanelSettles`. The prover does not do fairness and ENABLED.
* That the abstract values are right ones: the classes of texts in `Config`, and what
  Milvus, Prometheus, Feishu and browsers may answer. These are translations, not theorems.

## 7. Not modelled, and why

* YAML decoding, `strings.TrimSpace` and `url.Parse`: `Config` starts from the decoded
  settings and from the class of a text. Settings that nothing validates and that decide
  no control flow (credentials, `add_source`, the thresholds of metrics, which are a
  constant of `MetricsService`).
* `RuntimeMetrics`: five queries per item whose values are only shown; a failure is a
  warning of the item. `RenderPromQL`, the catalogue's texts and the labels of series are
  data.
* Contents of the Feishu card, output formats, log records, cells of the tables, the drawing
  of charts, the detail dialog and its texts are wording and layout.
* Dispatch by path, embedded files, `/healthz`: no state.
* That requests under way are cut off when `serve` exits: nothing in the process can see
  it; `TrendPanels` and `StatusPoll` let every request fail at any time.
