---------------------------- MODULE MetricsService ----------------------------
(***************************************************************************)
(* The metric queries behind /api/metrics (internal/dashboard/handler.go,  *)
(* internal/metricdash/service.go), each call to Prometheus a step         *)
(* (internal/promquery/client.go).  Catalog lists the metric names and     *)
(* asks for the build; Summary starts a goroutine per definition, lets     *)
(* MaxQueries of them query at once, and waits for all; Metric runs one    *)
(* for itself and adds the trend.  Service keeps nothing between requests, *)
(* so one request at a time is modelled.  A call fails when Prometheus     *)
(* refuses it or answers in another type, at its timeout, or once the      *)
(* browser has gone (ctx).                                                 *)
(***************************************************************************)
EXTENDS Integers, FiniteSets, Sequences, FiniteSetsExt

CONSTANTS
  Definitions,  \* the metric ids of the catalogue
  KnownNames,   \* the metric names Prometheus may know
  Variants,     \* per definition, the metrics that each of its queries requires
  Thresholds,   \* cfg.Metrics.Thresholds: overrides for some of the definitions
  Values,       \* the finite sample values that occur
  SeriesNames,  \* the names a series can have, as numbers in their order
  MaxSeries,    \* how many of them a trend shows; 6 in the code
  MaxQueries    \* the capacity of sem; 6 in the code

Override == [higherIsWorse : BOOLEAN, warning : Int, critical : Int]

ASSUME CatalogAssumption ==
  /\ IsFiniteSet(Definitions) /\ Definitions # {}
  /\ Variants \in [Definitions -> Seq(SUBSET KnownNames)]
  /\ DOMAIN Thresholds \subseteq Definitions
  /\ \A d \in DOMAIN Thresholds : Thresholds[d] \in Override
ASSUME ValuesAssumption == Values \subseteq Nat /\ SeriesNames \subseteq Nat
ASSUME LimitsAssumption == MaxQueries \in Nat \ {0} /\ MaxSeries \in Nat

VARIABLES
  enabled,    \* s.enabled: there is a Prometheus to ask
  request,    \* the handler: "Catalog", "Summary" or "Metric"
  stage,      \* "idle", "listing" or "build info" of Catalog, "working", "answered"
  status,     \* of the HTTP answer; 0 before
  cancelled,  \* ctx of the request: the browser has gone
  worker,     \* per definition: where its metric() is
  slots,      \* len(sem)
  draft,      \* per definition: `result` of its metric()
  results,    \* per definition: its entry of the response
  failed      \* history: the definitions one of whose calls has failed

work == <<worker, slots, draft>>
vars == <<enabled, request, stage, status, cancelled, work, results, failed>>

Steps == {"off", "queued", "discovering", "querying", "ranging", "storing", "leaving",
          "done"}

(* Of a definition's metric() while it may talk to Prometheus. *)
Asking == {"discovering", "querying", "ranging"}

NotFinite == -1  \* NaN and the infinities
Points    == Values \cup {NotFinite}

(* The trends: some series, each with points or without. *)
Trends(points) == UNION {[S -> SUBSET points] : S \in SUBSET SeriesNames}
NoSeries == [n \in {} |-> {}]

(* `current` is {} for nil. *)
Results == [of : Definitions, state : {"available", "zero", "no_data", "unsupported",
                                       "error", "disabled"},
            current : {{}} \cup {{v} : v \in Values},
            level : {"info", "normal", "warning", "critical"}, series : Trends(Values)]

NewResult(d) ==
  [of |-> d, state |-> "no_data", current |-> {}, level |-> "info", series |-> NoSeries]

NoResults == [d \in {} |-> d]

(* Type invariant: no more slots than the semaphore has, and results of the  *)
(* documented states, with finite values only (service.go:18-25, 40-49, 142, *)
(* 201, 264-279).                                                            *)
TypeOK ==
  /\ enabled \in BOOLEAN /\ cancelled \in BOOLEAN
  /\ request \in {"Catalog", "Summary", "Metric"}
  /\ stage \in {"idle", "listing", "build info", "working", "answered"}
  /\ status \in {0, 200, 400, 503}
  /\ worker \in [Definitions -> Steps]
  /\ slots \in 0 .. MaxQueries
  /\ draft \in [Definitions -> Results]
  /\ DOMAIN results \subseteq Definitions
  /\ \A d \in DOMAIN results : results[d] \in Results
  /\ failed \subseteq Definitions

AllAre(step) == [d \in Definitions |-> step]

Init ==
  /\ enabled \in BOOLEAN
  /\ request = "Catalog" /\ stage = "idle" /\ status = 0 /\ cancelled = FALSE
  /\ worker = AllAre("off") /\ slots = 0
  /\ draft = [d \in Definitions |-> NewResult(d)]
  /\ results = NoResults
  /\ failed = {}

-------------------------------------------------------------------------------
(* What Prometheus may answer: any names; a first sample or none; any series. *)
NamesListed    == SUBSET KnownNames
InstantSamples == {{}} \cup {{v} : v \in Points}
RangeSeries    == Trends(Points)

(* The first query variant whose metrics are all there, or 0. *)
SelectVariant(d, names) ==
  LET fitting == {i \in DOMAIN Variants[d] : Variants[d][i] \subseteq names}
  IN  IF fitting = {} THEN 0 ELSE Min(fitting)

Severity(critical, warning) ==
  CASE critical             -> "critical"
    [] ~critical /\ warning -> "warning"
    [] OTHER                -> "normal"

DefaultLevel(d, v) ==
  CASE d = "milvus_up"            -> Severity(v < 1, FALSE)
    [] d = "request_success_rate" -> Severity(v < 95, v < 99)
    [] d = "proxy_tt_lag"         -> Severity(v > 30000, v >= 5000)
    [] OTHER                      -> "normal"

Level(d, v) ==
  IF d \in DOMAIN Thresholds
    THEN LET t == Thresholds[d]
         IN  IF t.higherIsWorse THEN Severity(v >= t.critical, v >= t.warning)
                                ELSE Severity(v <= t.critical, v <= t.warning)
    ELSE DefaultLevel(d, v)

(* Mutant: NaN is a point like any other. *)
AnyPoint(points) == points

(* isFinite, of a set of points. *)
Finite(points) == points \ {NotFinite}

(* The finite points of the first MaxSeries series by name. *)
normalizeSeries(series) ==
  [n \in {k \in DOMAIN series :
            Cardinality({j \in DOMAIN series : j < k}) < MaxSeries} |-> Finite(series[n])]

(* ParseRange knows these; a request may ask for any other. *)
Ranges == {"5m", "1h", "6h", "24h"}

-------------------------------------------------------------------------------
Reply(code) == stage' = "answered" /\ status' = code

GoOn(next) == stage' = next /\ UNCHANGED status

CatalogItem(d, state) == [NewResult(d) EXCEPT !.state = state]

(* Lines 107-113. *)
BeginCatalog ==
  /\ stage = "idle"
  /\ request' = "Catalog"
  /\ IF enabled THEN GoOn("listing") /\ UNCHANGED results
     ELSE Reply(200) /\ results' = [d \in Definitions |-> CatalogItem(d, "disabled")]
  /\ UNCHANGED <<enabled, cancelled, work, failed>>

(* Lines 114-126. *)
CatalogListed ==
  /\ stage = "listing" /\ ~cancelled
  /\ GoOn("build info")
  /\ \E names \in NamesListed :
       results' = [d \in Definitions |->
         CatalogItem(d, IF SelectVariant(d, names) = 0 THEN "unsupported" ELSE "available")]
  /\ UNCHANGED <<enabled, request, cancelled, work, failed>>

(* Lines 115-117: there is no catalogue, not even of the unsupported. *)
CatalogFails ==
  /\ stage = "listing"
  /\ Reply(503)
  /\ failed' = Definitions
  /\ UNCHANGED <<enabled, request, cancelled, work, results>>

(* Lines 127-133: the build of Milvus, or an error, which is ignored. *)
BuildInfo ==
  /\ stage = "build info"
  /\ Reply(200)
  /\ UNCHANGED <<enabled, request, cancelled, work, results, failed>>

(* Lines 136-147: all the goroutines are started, none has a slot yet. *)
BeginSummary(range) ==
  /\ stage = "idle"
  /\ request' = "Summary"
  /\ IF range \notin Ranges THEN Reply(400) /\ UNCHANGED worker
     ELSE GoOn("working") /\ worker' = AllAre("queued")
  /\ UNCHANGED <<enabled, cancelled, slots, draft, results, failed>>

(* The head of metric(), lines 171-182. *)
BeginWork(d) ==
  /\ worker' = [worker EXCEPT ![d] = IF enabled THEN "discovering" ELSE "storing"]
  /\ draft' = IF enabled THEN draft ELSE [draft EXCEPT ![d].state = "disabled"]

(* Lines 162-168. *)
BeginMetric(id, range) ==
  /\ stage = "idle"
  /\ request' = "Metric"
  /\ IF range \notin Ranges \/ id \notin Definitions
       THEN Reply(400) /\ UNCHANGED <<worker, draft>>
       ELSE GoOn("working") /\ BeginWork(id)
  /\ UNCHANGED <<enabled, cancelled, slots, results, failed>>

(* Mutant: the slot is given back at once, for want of a defer. *)
NoSlotTaken == slots

SlotTaken == slots + 1

(* Line 149, then metric(). *)
Acquire(d) ==
  /\ worker[d] = "queued"
  /\ slots < MaxQueries
  /\ slots' = SlotTaken
  /\ BeginWork(d)
  /\ UNCHANGED <<enabled, request, stage, status, cancelled, results, failed>>

rest == <<enabled, request, stage, status, cancelled, slots, results>>

(* Lines 183-194: the names are listed anew for every metric. *)
DiscoverAnswers(d) ==
  /\ worker[d] = "discovering" /\ ~cancelled
  /\ \E names \in NamesListed :
       IF SelectVariant(d, names) = 0
         THEN /\ worker' = [worker EXCEPT ![d] = "storing"]
              /\ draft' = [draft EXCEPT ![d].state = "unsupported"]
         ELSE /\ worker' = [worker EXCEPT ![d] = "querying"]
              /\ UNCHANGED draft
  /\ UNCHANGED <<rest, failed>>

(* Lines 195-209. *)
InstantAnswers(d) ==
  /\ worker[d] = "querying" /\ ~cancelled
  /\ worker' = [worker EXCEPT ![d] = IF request = "Metric" THEN "ranging" ELSE "storing"]
  /\ \E sample \in InstantSamples :
       LET current == Finite(sample)
       IN  draft' = [draft EXCEPT
             ![d].current = current,
             ![d].state = CASE current = {}  -> @
                            [] current = {0} -> "zero"
                            [] OTHER         -> "available",
             ![d].level = IF current = {} THEN @ ELSE Level(d, Min(current))]
  /\ UNCHANGED <<rest, failed>>

(* Lines 211-216: the trend over the whole window, whatever the instant said. *)
RangeAnswers(d) ==
  /\ worker[d] = "ranging" /\ ~cancelled
  /\ worker' = [worker EXCEPT ![d] = "storing"]
  /\ \E series \in RangeSeries : draft' = [draft EXCEPT ![d].series = normalizeSeries(series)]
  /\ UNCHANGED <<rest, failed>>

(* Mutant: the call is made again, at once. *)
AskAgain(d) == worker[d]

AfterFailure(d) == "storing"

(* Lines 184-187, 197-200, 212-215: the result is an error, and keeps the *)
(* current value if there is one.                                         *)
CallFails(d) ==
  /\ worker[d] \in Asking
  /\ worker' = [worker EXCEPT ![d] = AfterFailure(d)]
  /\ draft' = [draft EXCEPT ![d].state = "error"]
  /\ failed' = failed \cup {d}
  /\ UNCHANGED rest

(* Line 155. *)
Store(d) ==
  /\ worker[d] = "storing"
  /\ worker' = [worker EXCEPT ![d] = "leaving"]
  /\ results' = [k \in DOMAIN results \cup {d} |-> IF k = d THEN draft[d] ELSE results[k]]
  /\ UNCHANGED <<enabled, request, stage, status, cancelled, slots, draft, failed>>

(* The deferred lines 150 and 148. *)
Leave(d) ==
  /\ worker[d] = "leaving"
  /\ worker' = [worker EXCEPT ![d] = "done"]
  /\ slots' = IF request = "Summary" THEN slots - 1 ELSE slots
  /\ UNCHANGED <<enabled, request, stage, status, cancelled, draft, results, failed>>

(* Mutant: Summary waits until no goroutine holds a slot. *)
NobodyHoldsASlot == \A d \in Definitions : worker[d] \in {"off", "queued", "done"}

(* wg.Wait() returns, or Metric does. *)
AllDone == \A d \in Definitions : worker[d] \in {"off", "done"}

Answer ==
  /\ stage = "working"
  /\ AllDone
  /\ Reply(200)
  /\ UNCHANGED <<enabled, request, cancelled, work, results, failed>>

(* The response is sent; the next request starts from nothing. *)
NextRequest ==
  /\ stage = "answered"
  /\ request' = "Catalog" /\ stage' = "idle" /\ status' = 0 /\ cancelled' = FALSE
  /\ worker' = AllAre("off") /\ slots' = 0
  /\ draft' = [d \in Definitions |-> NewResult(d)]
  /\ results' = NoResults
  /\ failed' = {}
  /\ UNCHANGED enabled

BrowserGoes ==
  /\ stage \notin {"idle", "answered"} /\ ~cancelled
  /\ cancelled' = TRUE
  /\ UNCHANGED <<enabled, request, stage, status, work, results, failed>>

WorkerStep(d) ==
  \/ Acquire(d)
  \/ DiscoverAnswers(d) \/ InstantAnswers(d) \/ RangeAnswers(d) \/ CallFails(d)
  \/ Store(d) \/ Leave(d)

CatalogStep == CatalogListed \/ CatalogFails \/ BuildInfo

Next ==
  \/ BeginCatalog \/ CatalogStep \/ Answer \/ NextRequest \/ BrowserGoes
  \/ \E range \in Ranges \cup {"other"} :
       BeginSummary(range) \/ \E id \in Definitions \cup {"other"} : BeginMetric(id, range)
  \/ \E d \in Definitions : WorkerStep(d)

Spec == Init /\ [][Next]_vars

(* Goroutines run, and every call has a deadline: requestCtx (line 181) or that *)
(* of the client (promquery/client.go:55, 72, 93).                              *)
FairSpec ==
  /\ Spec
  /\ WF_vars(Answer) /\ WF_vars(CatalogStep)
  /\ \A d \in Definitions : WF_vars(WorkerStep(d))

-------------------------------------------------------------------------------
(* However many metrics a summary has, no more than MaxQueries of them talk to *)
(* Prometheus at once: the slot is held until metric() has returned, on every  *)
(* path (service.go:142-156; the design's "bounded concurrency").              *)
BoundedQueries ==
  request = "Summary" =>
    Cardinality({d \in Definitions : worker[d] \in Asking}) <= MaxQueries

(* A response has an entry for each metric that was asked for, about that      *)
(* metric, final, and an error exactly if one of its own calls failed: the     *)
(* failure of another metric or the loss of the browser leaves no hole and no  *)
(* half-filled entry; what cannot be answered whole is refused                 *)
(* (service.go:106-169, handler.go:73-122).                                    *)
ResponseIsComplete ==
  stage = "answered" =>
    /\ status # 200 => DOMAIN results = {}
    /\ status = 200 => IF request = "Metric" THEN \E d \in Definitions : DOMAIN results = {d}
                                             ELSE DOMAIN results = Definitions
    /\ request = "Catalog" => (status = 503 <=> failed # {})
    /\ \A d \in DOMAIN results :
         /\ results[d].of = d
         /\ results[d].state = "disabled" <=> ~enabled
         /\ request # "Catalog" =>
              results[d] = draft[d] /\ (results[d].state = "error" <=> d \in failed)

(* "Unsupported and no-data metrics never silently appear as zero": a value is *)
(* shown as what it is, one that is missing or not finite is not shown, in the *)
(* trend neither, and no level is given without a value (service.go:176-216,   *)
(* 264-272).                                                                   *)
NeverSilentlyZero ==
  \A d \in DOMAIN results :
    LET r == results[d]
    IN  /\ NotFinite \notin r.current \cup UNION {r.series[n] : n \in DOMAIN r.series}
        /\ r.state \in {"no_data", "unsupported", "disabled"} =>
             r.current = {} /\ r.level = "info"
        /\ r.state = "zero" => r.current = {0}
        /\ r.state = "available" /\ request # "Catalog" => r.current \notin {{}, {0}}

(* Every request is answered, whatever Prometheus refuses or delays            *)
(* (service.go:148-158, 181).                                                  *)
RequestIsAnswered == stage # "idle" ~> stage = "answered"

===============================================================================
