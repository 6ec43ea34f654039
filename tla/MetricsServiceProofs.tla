-------------------------- MODULE MetricsServiceProofs --------------------------
(***************************************************************************)
(* Proofs about MetricsService, for a catalogue of any size and any        *)
(* capacity of the semaphore.                                              *)
(*                                                                         *)
(* A response is filled in by one goroutine per metric, in any order.  The *)
(* invariant follows each of them: how far its metric() is says what its   *)
(* draft can be, whether one of its calls has failed and whether its entry *)
(* is in the response; and the slots of the semaphore are counted against  *)
(* the goroutines that have taken one (service.go:149) and not yet given   *)
(* it back (line 150).                                                     *)
(***************************************************************************)
EXTENDS MetricsService, FiniteSetTheorems, TLAPS

(* Between taking a slot and giving it back. *)
Holders == {d \in Definitions :
              worker[d] \in {"discovering", "querying", "ranging", "storing", "leaving"}}

SlotsAreHeld == slots = IF request = "Summary" THEN Cardinality(Holders) ELSE 0

WorkersFollowTheRequest ==
  /\ request = "Catalog" => worker = AllAre("off")
  /\ stage = "idle" =>
       /\ request = "Catalog" /\ results = NoResults /\ failed = {}
       /\ draft = [d \in Definitions |-> NewResult(d)]
  /\ stage \in {"listing", "build info"} => request = "Catalog" /\ enabled
  /\ stage = "working" =>
       \/ request = "Summary" /\ \A d \in Definitions : worker[d] # "off"
       \/ /\ request = "Metric"
          /\ \E id \in Definitions :
               /\ worker[id] \notin {"off", "queued"}
               /\ \A d \in Definitions \ {id} : worker[d] = "off"
  /\ stage # "answered" => status = 0

(* The entries of a catalogue. *)
CatalogIsWholeOrNothing ==
  request = "Catalog" =>
    /\ stage = "listing" => results = NoResults /\ failed = {}
    /\ stage = "build info" => DOMAIN results = Definitions /\ failed = {}
    /\ stage = "answered" =>
         \/ status = 200 /\ DOMAIN results = Definitions /\ failed = {}
         \/ status = 503 /\ DOMAIN results = {} /\ failed = Definitions
    /\ \A d \in DOMAIN results : \E state \in {"disabled", "unsupported", "available"} :
         /\ results[d] = CatalogItem(d, state)
         /\ state = "disabled" <=> ~enabled

(* What NeverSilentlyZero says of one result. *)
IsHonest(r) ==
  /\ r.state \in {"no_data", "unsupported", "disabled"} => r.current = {} /\ r.level = "info"
  /\ r.state = "zero" => r.current = {0}
  /\ r.state = "available" => r.current \notin {{}, {0}}

(* What a draft can be, by how far its metric() is. *)
DraftFollowsItsCalls(d) ==
  /\ draft[d].of = d
  /\ IsHonest(draft[d])
  /\ worker[d] \in {"off", "queued"} => draft[d] = NewResult(d) /\ d \notin failed
  /\ worker[d] \in {"discovering", "querying"} =>
       enabled /\ draft[d] = NewResult(d) /\ d \notin failed
  /\ worker[d] = "ranging" =>
       enabled /\ draft[d].state \in {"no_data", "zero", "available"} /\ d \notin failed
  /\ worker[d] \in {"storing", "leaving", "done"} =>
       /\ draft[d].state = "disabled" <=> ~enabled
       /\ draft[d].state = "error" <=> d \in failed

(* A goroutine writes its own entry, once, when its draft is final. *)
StoredIsFinal(d) ==
  /\ d \in DOMAIN results <=> worker[d] \in {"leaving", "done"}
  /\ d \in DOMAIN results => results[d] = draft[d]

WorkersInv ==
  request # "Catalog" =>
    /\ \A d \in Definitions : DraftFollowsItsCalls(d) /\ StoredIsFinal(d)
    /\ stage = "answered" =>
         \/ status = 400 /\ \A d \in Definitions : worker[d] = "off"
         \/ /\ status = 200
            /\ \/ request = "Summary" /\ \A d \in Definitions : worker[d] = "done"
               \/ /\ request = "Metric"
                  /\ \E id \in Definitions :
                       worker[id] = "done" /\ \A d \in Definitions \ {id} : worker[d] = "off"

Inv ==
  /\ TypeOK
  /\ SlotsAreHeld
  /\ WorkersFollowTheRequest
  /\ CatalogIsWholeOrNothing
  /\ WorkersInv

-------------------------------------------------------------------------------
LEMMA CatalogItemFields ==
  \A d, state :
    /\ CatalogItem(d, state).of = d /\ CatalogItem(d, state).state = state
    /\ CatalogItem(d, state).current = {} /\ CatalogItem(d, state).level = "info"
BY DEF CatalogItem, NewResult

LEMMA NewResultType ==
  ASSUME NEW d \in Definitions
  PROVE  /\ NewResult(d) \in Results
         /\ \A state \in {"disabled", "unsupported", "available"} :
              CatalogItem(d, state) \in Results
<1>1. NoSeries \in Trends(Values)
  BY DEF NoSeries, Trends
<1>2. NewResult(d) \in Results
  BY <1>1 DEF NewResult, Results
<1> QED BY <1>2 DEF CatalogItem, Results

(* Every value has a level (service.go:201, 274-298). *)
LEMMA Levels ==
  \A d, v : Level(d, v) \in {"info", "normal", "warning", "critical"}
<1>1. \A c, w : Severity(c, w) \in {"normal", "warning", "critical"}
  BY DEF Severity
<1>2. \A d, v : DefaultLevel(d, v) \in {"normal", "warning", "critical"}
  <2> TAKE d, v
  <2>1. CASE d = "milvus_up"
    BY <2>1 DEF DefaultLevel, Severity
  <2>2. CASE d = "request_success_rate"
    BY <1>1, <2>2 DEF DefaultLevel
  <2>3. CASE d = "proxy_tt_lag"
    BY <1>1, <2>3 DEF DefaultLevel
  <2>4. CASE d # "milvus_up" /\ d # "request_success_rate" /\ d # "proxy_tt_lag"
    BY <2>4 DEF DefaultLevel, Severity
  <2> QED BY <2>1, <2>2, <2>3, <2>4
<1> QED BY <1>1, <1>2 DEF Level

(* What is left of a sample is a value or nothing. *)
LEMMA FiniteSamples ==
  ASSUME NEW sample \in InstantSamples
  PROVE  Finite(sample) \in {{}} \cup {{v} : v \in Values}
<1>1. CASE sample = {}
  BY <1>1 DEF Finite
<1>2. ASSUME NEW v \in Points, sample = {v} PROVE Finite(sample) \in {{}} \cup {{u} : u \in Values}
  <2>1. CASE v = NotFinite
    <3>1. Finite(sample) = {}
      BY <1>2, <2>1 DEF Finite
    <3> QED BY <3>1
  <2>2. CASE v # NotFinite
    <3>1. Finite(sample) = {v} /\ v \in Values
      BY <1>2, <2>2 DEF Finite, Points
    <3> QED BY <3>1
  <2> QED BY <2>1, <2>2
<1> QED BY <1>1, <1>2 DEF InstantSamples

(* A trend shows finite points only (service.go:218-244, 264-272). *)
LEMMA TrendsAreFinite ==
  ASSUME NEW series \in RangeSeries PROVE normalizeSeries(series) \in Trends(Values)
<1>1. PICK S \in SUBSET SeriesNames : series \in [S -> SUBSET Points]
  BY DEF RangeSeries, Trends
<1> DEFINE T == {k \in DOMAIN series :
                   Cardinality({j \in DOMAIN series : j < k}) < MaxSeries}
<1>2. T \in SUBSET SeriesNames /\ \A n \in T : Finite(series[n]) \in SUBSET Values
  BY <1>1 DEF Finite, Points
<1>3. normalizeSeries(series) = [n \in T |-> Finite(series[n])]
  BY DEF normalizeSeries
<1> HIDE DEF T
<1>4. normalizeSeries(series) \in [T -> SUBSET Values]
  BY <1>2, <1>3
<1> QED BY <1>2, <1>4 DEF Trends

LEMMA WorkerTypes ==
  ASSUME TypeOK
  PROVE  /\ cancelled \in BOOLEAN
         /\ worker \in [Definitions -> Steps] /\ draft \in [Definitions -> Results]
         /\ slots \in 0 .. MaxQueries /\ failed \subseteq Definitions
         /\ DOMAIN results \subseteq Definitions
         /\ \A d \in DOMAIN results : results[d] \in Results
BY DEF TypeOK

LEMMA TypesStay ==
  ASSUME TypeOK, UNCHANGED <<enabled, request, stage, status>>, cancelled' \in BOOLEAN,
         worker' \in [Definitions -> Steps], draft' \in [Definitions -> Results],
         slots' \in 0 .. MaxQueries, failed' \subseteq Definitions,
         DOMAIN results' \subseteq Definitions,
         \A d \in DOMAIN results' : results'[d] \in Results
  PROVE  TypeOK'
<1>1. enabled \in BOOLEAN
  BY Zenon DEF TypeOK
<1>2. /\ request \in {"Catalog", "Summary", "Metric"}
      /\ stage \in {"idle", "listing", "build info", "working", "answered"}
  BY Zenon DEF TypeOK
<1>3. status \in {0, 200, 400, 503}
  BY Zenon DEF TypeOK
<1>4. enabled' \in BOOLEAN /\ cancelled' \in BOOLEAN
  BY <1>1, Zenon
<1>5. /\ request' \in {"Catalog", "Summary", "Metric"}
      /\ stage' \in {"idle", "listing", "build info", "working", "answered"}
  BY <1>2
<1>6. status' \in {0, 200, 400, 503}
  BY <1>3
<1> QED BY <1>4, <1>5, <1>6, Zenon DEF TypeOK

(* How a step of one goroutine changes the number of those that hold a slot. *)
LEMMA HoldersAreCounted ==
  ASSUME TypeOK, NEW d \in Definitions, NEW x \in Steps,
         worker' = [worker EXCEPT ![d] = x]
  PROVE  LET busy(w) == w \in {"discovering", "querying", "ranging", "storing", "leaving"}
         IN  /\ Cardinality(Holders) \in Nat /\ Cardinality(Holders') \in Nat
             /\ busy(worker[d]) /\ busy(x) => Holders' = Holders
             /\ ~busy(worker[d]) /\ busy(x) =>
                  Cardinality(Holders') = Cardinality(Holders) + 1
             /\ busy(worker[d]) /\ ~busy(x) =>
                  Cardinality(Holders') = Cardinality(Holders) - 1
<1> DEFINE Busy == {"discovering", "querying", "ranging", "storing", "leaving"}
<1>1. IsFiniteSet(Holders) /\ IsFiniteSet(Holders')
  BY CatalogAssumption, FS_Subset DEF Holders
<1>2. Cardinality(Holders) \in Nat /\ Cardinality(Holders') \in Nat
  BY <1>1, FS_CardinalityType
<1>3. \A k \in Definitions : worker'[k] = IF k = d THEN x ELSE worker[k]
  BY WorkerTypes
<1>4. ASSUME worker[d] \in Busy, x \in Busy PROVE Holders' = Holders
  BY <1>3, <1>4 DEF Holders
<1>5. ASSUME worker[d] \notin Busy, x \in Busy
      PROVE  Cardinality(Holders') = Cardinality(Holders) + 1
  <2>1. Holders' = Holders \cup {d} /\ d \notin Holders
    BY <1>3, <1>5 DEF Holders
  <2> QED BY <1>1, <2>1, FS_AddElement
<1>6. ASSUME worker[d] \in Busy, x \notin Busy
      PROVE  Cardinality(Holders') = Cardinality(Holders) - 1
  <2>1. Holders' = Holders \ {d} /\ d \in Holders
    BY <1>3, <1>6 DEF Holders
  <2> QED BY <1>1, <2>1, FS_RemoveElement
<1> QED BY <1>2, <1>4, <1>5, <1>6

LEMMA InitInv == Init => Inv
<1> SUFFICES ASSUME Init PROVE Inv
  OBVIOUS
<1>1. TypeOK
  <2>1. worker \in [Definitions -> Steps]
    BY DEF Init, AllAre, Steps
  <2>2. draft \in [Definitions -> Results]
    BY NewResultType DEF Init
  <2>3. DOMAIN results = {} /\ slots \in 0 .. MaxQueries
    BY LimitsAssumption DEF Init, NoResults
  <2> QED BY <2>1, <2>2, <2>3 DEF Init, TypeOK
<1>2. SlotsAreHeld
  BY DEF Init, SlotsAreHeld
<1> QED BY <1>1, <1>2 DEF Init, Inv, WorkersFollowTheRequest, CatalogIsWholeOrNothing,
     WorkersInv, NoResults

-------------------------------------------------------------------------------
(* Whoever works, works for a request that is under way. *)
LEMMA WorkIsUnderWay ==
  ASSUME Inv, NEW d \in Definitions, worker[d] \notin {"off", "done"}
  PROVE  /\ stage = "working" /\ request \in {"Summary", "Metric"} /\ status = 0
         /\ worker[d] = "queued" => request = "Summary"
<1>1. request # "Catalog"
  BY DEF Inv, WorkersFollowTheRequest, AllAre
<1>2. stage # "answered"
  BY <1>1 DEF Inv, WorkersInv
<1>3. stage = "working"
  BY <1>1, <1>2 DEF Inv, WorkersFollowTheRequest, TypeOK
<1> QED BY <1>1, <1>2, <1>3 DEF Inv, WorkersFollowTheRequest, TypeOK

(* A step of one goroutine leaves the others as they are; what it must show is *)
(* its own draft, its own entry and the count of the slots.                    *)
LEMMA StepOfOne ==
  ASSUME Inv, NEW d \in Definitions, worker[d] \notin {"off", "done"},
         NEW x \in Steps \ {"off", "queued"}, worker' = [worker EXCEPT ![d] = x],
         UNCHANGED <<enabled, request, stage, status>>,
         \A k \in Definitions \ {d} :
           /\ draft'[k] = draft[k]
           /\ k \in failed' <=> k \in failed
           /\ k \in DOMAIN results' <=> k \in DOMAIN results
           /\ k \in DOMAIN results => results'[k] = results[k],
         TypeOK', SlotsAreHeld', DraftFollowsItsCalls(d)', StoredIsFinal(d)'
  PROVE  Inv'
<1>1. stage = "working" /\ request \in {"Summary", "Metric"} /\ status = 0
  BY WorkIsUnderWay
<1>2. \A k \in Definitions : worker'[k] = IF k = d THEN x ELSE worker[k]
  BY WorkerTypes DEF Inv
<1>3. WorkersFollowTheRequest'
  <2>1. CASE request = "Summary"
    BY <1>1, <1>2, <2>1 DEF Inv, WorkersFollowTheRequest
  <2>2. CASE request = "Metric"
    <3>1. \A k \in Definitions \ {d} : worker[k] = "off"
      BY <1>1, <2>2 DEF Inv, WorkersFollowTheRequest
    <3> QED BY <1>1, <1>2, <2>2, <3>1 DEF WorkersFollowTheRequest
  <2> QED BY <1>1, <2>1, <2>2
<1>4. ASSUME NEW k \in Definitions, k # d
      PROVE  DraftFollowsItsCalls(k)' /\ StoredIsFinal(k)'
  BY <1>1, <1>2, <1>4 DEF Inv, WorkersInv, DraftFollowsItsCalls, StoredIsFinal
<1>5. CatalogIsWholeOrNothing' /\ WorkersInv'
  BY <1>1, <1>4 DEF CatalogIsWholeOrNothing, WorkersInv
<1> QED BY <1>3, <1>5 DEF Inv

LEMMA AcquireInv ==
  ASSUME Inv, NEW d \in Definitions, Acquire(d) PROVE Inv'
<1> DEFINE x == IF enabled THEN "discovering" ELSE "storing"
<1>1. /\ stage = "working" /\ request = "Summary" /\ status = 0
      /\ worker[d] = "queued" /\ slots < MaxQueries /\ slots' = slots + 1
      /\ worker' = [worker EXCEPT ![d] = x]
      /\ UNCHANGED <<enabled, request, stage, status, cancelled, results, failed>>
  BY WorkIsUnderWay DEF Acquire, SlotTaken, BeginWork
<1>2. x \in {"discovering", "storing"} /\ x \in Steps
  BY DEF Steps
<1> HIDE DEF x
<1>3. /\ DraftFollowsItsCalls(d) /\ StoredIsFinal(d)
      /\ draft[d] = NewResult(d) /\ d \notin failed
  BY <1>1 DEF Inv, WorkersInv, DraftFollowsItsCalls
<1>4. /\ worker'[d] = x
      /\ draft'[d] = IF enabled THEN NewResult(d) ELSE CatalogItem(d, "disabled")
      /\ \A k \in Definitions \ {d} : draft'[k] = draft[k]
      /\ draft' \in [Definitions -> Results]
  BY <1>1, <1>3, WorkerTypes, NewResultType DEF Inv, Acquire, BeginWork, CatalogItem
<1>5. TypeOK'
  <2>1. slots' \in 0 .. MaxQueries
    BY <1>1, LimitsAssumption DEF Inv, TypeOK
  <2>2. worker' \in [Definitions -> Steps]
    BY <1>1, <1>2, WorkerTypes DEF Inv
  <2> QED BY <1>1, <1>4, <2>1, <2>2 DEF Inv, TypeOK
<1>6. SlotsAreHeld'
  BY <1>1, <1>2, HoldersAreCounted DEF Inv, SlotsAreHeld
<1>7. DraftFollowsItsCalls(d)'
  BY <1>1, <1>2, <1>3, <1>4 DEF x, DraftFollowsItsCalls, IsHonest, NewResult, CatalogItem
<1>8. StoredIsFinal(d)'
  BY <1>1, <1>2, <1>3, <1>4 DEF StoredIsFinal
<1> QED BY <1>1, <1>2, <1>4, <1>5, <1>6, <1>7, <1>8, StepOfOne

(* A call of metric(): whatever it brings, the goroutine keeps its slot, and   *)
(* what it has not stored yet is not in the response.                          *)
LEMMA CallInv ==
  ASSUME Inv, NEW d \in Definitions, worker[d] \in Asking,
         NEW x \in {"querying", "ranging", "storing"},
         worker' = [worker EXCEPT ![d] = x],
         NEW r \in Results, draft' = [draft EXCEPT ![d] = r],
         failed' = failed \/ failed' = failed \cup {d},
         UNCHANGED rest, DraftFollowsItsCalls(d)'
  PROVE  Inv'
<1>1. worker[d] \in {"discovering", "querying", "ranging"} /\ x \in Steps
  BY DEF Asking, Steps
<1>2. /\ worker'[d] = x
      /\ \A k \in Definitions \ {d} : draft'[k] = draft[k]
      /\ draft' \in [Definitions -> Results]
      /\ worker' \in [Definitions -> Steps]
  BY <1>1, WorkerTypes DEF Inv
<1>3. TypeOK'
  BY <1>2, WorkerTypes, TypesStay DEF Inv, rest
<1>4. SlotsAreHeld'
  BY <1>1, HoldersAreCounted DEF Inv, SlotsAreHeld, rest
<1>5. StoredIsFinal(d)'
  <2>1. request # "Catalog"
    BY <1>1, WorkIsUnderWay
  <2> QED BY <1>1, <1>2, <2>1 DEF Inv, WorkersInv, StoredIsFinal, rest
<1> QED BY <1>1, <1>2, <1>3, <1>4, <1>5, StepOfOne DEF rest

LEMMA DraftsAreFollowed ==
  ASSUME Inv, NEW d \in Definitions, worker[d] \in Asking
  PROVE  DraftFollowsItsCalls(d) /\ request # "Catalog" /\ draft[d] \in Results
<1>1. request # "Catalog"
  BY WorkIsUnderWay DEF Asking
<1> QED BY <1>1, WorkerTypes DEF Inv, WorkersInv

LEMMA DiscoverInv ==
  ASSUME Inv, NEW d \in Definitions, DiscoverAnswers(d) PROVE Inv'
<1>1. /\ worker[d] = "discovering" /\ worker[d] \in Asking
      /\ UNCHANGED rest /\ failed' = failed
  BY DEF DiscoverAnswers, Asking
<1>2. /\ enabled /\ draft[d] = NewResult(d) /\ d \notin failed
      /\ draft \in [Definitions -> Results]
  BY <1>1, DraftsAreFollowed, WorkerTypes DEF DraftFollowsItsCalls, Inv
<1>3. CASE /\ worker' = [worker EXCEPT ![d] = "storing"]
           /\ draft' = [draft EXCEPT ![d].state = "unsupported"]
  <2>1. draft' = [draft EXCEPT ![d] = CatalogItem(d, "unsupported")]
    BY <1>2, <1>3 DEF CatalogItem
  <2>2. worker'[d] = "storing" /\ draft'[d] = CatalogItem(d, "unsupported")
    BY <1>2, <1>3, <2>1, WorkerTypes DEF Inv
  <2>3. DraftFollowsItsCalls(d)'
    BY <1>1, <1>2, <2>2 DEF rest, DraftFollowsItsCalls, IsHonest, NewResult, CatalogItem
  <2> QED BY <1>1, <1>3, <2>1, <2>3, NewResultType, CallInv
<1>4. CASE /\ worker' = [worker EXCEPT ![d] = "querying"]
           /\ draft' = draft
  <2>1. draft' = [draft EXCEPT ![d] = NewResult(d)]
    BY <1>2, <1>4
  <2>2. worker'[d] = "querying" /\ draft'[d] = NewResult(d)
    BY <1>2, <1>4, <2>1, WorkerTypes DEF Inv
  <2>3. DraftFollowsItsCalls(d)'
    BY <1>1, <1>2, <2>2 DEF rest, DraftFollowsItsCalls, IsHonest, NewResult
  <2> QED BY <1>1, <1>4, <2>1, <2>3, NewResultType, CallInv
<1> QED BY <1>3, <1>4 DEF DiscoverAnswers

(* The value shown is the sample, if it is finite (service.go:195-209). *)
LEMMA InstantInv ==
  ASSUME Inv, NEW d \in Definitions, InstantAnswers(d) PROVE Inv'
<1>1. /\ worker[d] = "querying" /\ worker[d] \in Asking
      /\ UNCHANGED rest /\ failed' = failed
  BY DEF InstantAnswers, Asking
<1>2. /\ enabled /\ draft[d] = NewResult(d) /\ d \notin failed /\ request # "Catalog"
      /\ draft \in [Definitions -> Results] /\ draft[d] \in Results
  BY <1>1, DraftsAreFollowed, WorkerTypes DEF DraftFollowsItsCalls, Inv
<1> DEFINE x == IF request = "Metric" THEN "ranging" ELSE "storing"
<1>3. x \in {"ranging", "storing"} /\ worker' = [worker EXCEPT ![d] = x]
  BY DEF InstantAnswers
<1> HIDE DEF x
<1>4. PICK sample \in InstantSamples :
        draft' = [draft EXCEPT
          ![d].current = Finite(sample),
          ![d].state = CASE Finite(sample) = {}  -> @
                         [] Finite(sample) = {0} -> "zero"
                         [] OTHER                -> "available",
          ![d].level = IF Finite(sample) = {} THEN @ ELSE Level(d, Min(Finite(sample)))]
  BY DEF InstantAnswers
<1> DEFINE current == Finite(sample)
           state == IF current = {} THEN "no_data"
                    ELSE IF current = {0} THEN "zero" ELSE "available"
           level == IF current = {} THEN "info" ELSE Level(d, Min(current))
           r == [NewResult(d) EXCEPT !.current = current, !.state = state, !.level = level]
<1>5. draft' = [draft EXCEPT ![d] = r]
  <2>1. /\ draft[d].state = "no_data" /\ draft[d].level = "info"
        /\ d \in DOMAIN draft
    BY <1>2 DEF NewResult
  <2>2. draft' = [draft EXCEPT ![d].current = current, ![d].state = state,
                              ![d].level = level]
    BY <1>4, <2>1 DEF current
  <2> HIDE DEF state, level
  <2> QED BY <1>2, <2>1, <2>2
<1>6. r \in Results
  <2>1. current \in {{}} \cup {{v} : v \in Values}
    BY FiniteSamples
  <2>2. level \in {"info", "normal", "warning", "critical"}
    BY Levels
  <2>3. state \in {"available", "zero", "no_data"}
    OBVIOUS
  <2>4. NewResult(d) \in Results
    BY NewResultType
  <2> HIDE DEF level, state, current
  <2> QED BY <2>1, <2>2, <2>3, <2>4 DEF Results
<1>7. worker'[d] = x /\ draft'[d] = r
  BY <1>2, <1>3, <1>5, WorkerTypes DEF Inv
<1>8. /\ draft'[d].of = d /\ draft'[d].current = current
      /\ draft'[d].state = state /\ draft'[d].level = level
  <2> HIDE DEF level, state, current
  <2> QED BY <1>7 DEF NewResult
<1>9. DraftFollowsItsCalls(d)'
  <2>1. IsHonest(draft[d])'
    BY <1>8 DEF IsHonest
  <2>2. state \in {"no_data", "zero", "available"}
    OBVIOUS
  <2> HIDE DEF level, state, current
  <2> QED BY <1>1, <1>2, <1>3, <1>7, <1>8, <2>1, <2>2 DEF rest, DraftFollowsItsCalls
<1> HIDE DEF r
<1> QED BY <1>1, <1>3, <1>5, <1>6, <1>9, CallInv

LEMMA RangeInv ==
  ASSUME Inv, NEW d \in Definitions, RangeAnswers(d) PROVE Inv'
<1>1. /\ worker[d] = "ranging" /\ worker[d] \in Asking
      /\ UNCHANGED rest /\ failed' = failed
      /\ worker' = [worker EXCEPT ![d] = "storing"]
  BY DEF RangeAnswers, Asking
<1>2. /\ DraftFollowsItsCalls(d) /\ draft \in [Definitions -> Results]
      /\ draft[d] \in Results
  BY <1>1, DraftsAreFollowed, WorkerTypes DEF Inv
<1>3. PICK series \in RangeSeries :
        draft' = [draft EXCEPT ![d].series = normalizeSeries(series)]
  BY DEF RangeAnswers
<1> DEFINE r == [draft[d] EXCEPT !.series = normalizeSeries(series)]
<1>4. r \in Results
  BY <1>2, TrendsAreFinite DEF Results
<1>5. draft' = [draft EXCEPT ![d] = r]
  BY <1>3
<1>6. worker'[d] = "storing" /\ draft'[d] = r
  BY <1>1, <1>2, <1>5, WorkerTypes DEF Inv
<1>7. /\ r.of = draft[d].of /\ r.state = draft[d].state
      /\ r.current = draft[d].current /\ r.level = draft[d].level
  BY <1>2 DEF Results
<1> HIDE DEF r
<1>8. DraftFollowsItsCalls(d)'
  BY <1>1, <1>2, <1>6, <1>7 DEF rest, DraftFollowsItsCalls, IsHonest
<1> QED BY <1>1, <1>4, <1>5, <1>8, CallInv

(* An error is an error of this metric, and keeps what it had                  *)
(* (service.go:184-187, 197-200, 212-215).                                     *)
LEMMA CallFailsInv ==
  ASSUME Inv, NEW d \in Definitions, CallFails(d) PROVE Inv'
<1>1. /\ worker[d] \in Asking /\ UNCHANGED rest /\ failed' = failed \cup {d}
      /\ worker' = [worker EXCEPT ![d] = "storing"]
      /\ draft' = [draft EXCEPT ![d].state = "error"]
  BY DEF CallFails, AfterFailure
<1>2. /\ DraftFollowsItsCalls(d) /\ draft \in [Definitions -> Results]
      /\ draft[d] \in Results
  BY <1>1, DraftsAreFollowed, WorkerTypes DEF Inv
<1> DEFINE r == [draft[d] EXCEPT !.state = "error"]
<1>3. r \in Results
  BY <1>2 DEF Results
<1>4. draft' = [draft EXCEPT ![d] = r]
  BY <1>1
<1>5. worker'[d] = "storing" /\ draft'[d] = r
  BY <1>1, <1>2, <1>4, WorkerTypes DEF Inv
<1>6. r.of = draft[d].of /\ r.state = "error"
  BY <1>2 DEF Results
<1>7. enabled
  BY <1>1, <1>2 DEF Asking, DraftFollowsItsCalls
<1> HIDE DEF r
<1>8. DraftFollowsItsCalls(d)'
  BY <1>1, <1>2, <1>5, <1>6, <1>7 DEF rest, DraftFollowsItsCalls, IsHonest
<1> QED BY <1>1, <1>3, <1>4, <1>8, CallInv

LEMMA StoreInv ==
  ASSUME Inv, NEW d \in Definitions, Store(d) PROVE Inv'
<1>1. /\ worker[d] = "storing"
      /\ worker' = [worker EXCEPT ![d] = "leaving"]
      /\ UNCHANGED <<enabled, request, stage, status, cancelled, slots, draft, failed>>
      /\ results' = [k \in DOMAIN results \cup {d} |->
                       IF k = d THEN draft[d] ELSE results[k]]
  BY DEF Store
<1>2. /\ DOMAIN results' = DOMAIN results \cup {d} /\ results'[d] = draft[d]
      /\ \A k \in DOMAIN results \ {d} : results'[k] = results[k]
  BY <1>1
<1>3. "leaving" \in Steps
  BY DEF Steps
<1>4. /\ worker'[d] = "leaving" /\ worker' \in [Definitions -> Steps]
      /\ draft[d] \in Results
  BY <1>1, <1>3, WorkerTypes DEF Inv
<1>5. TypeOK'
  <2>1. \A k \in DOMAIN results' : k \in Definitions /\ results'[k] \in Results
    BY <1>2, <1>4, WorkerTypes DEF Inv
  <2> QED BY <1>1, <1>4, <2>1, WorkerTypes, TypesStay DEF Inv
<1>6. SlotsAreHeld'
  BY <1>1, <1>3, HoldersAreCounted DEF Inv, SlotsAreHeld
<1>7. DraftFollowsItsCalls(d) /\ StoredIsFinal(d)
  BY <1>1, WorkIsUnderWay DEF Inv, WorkersInv
<1>8. DraftFollowsItsCalls(d)' /\ StoredIsFinal(d)'
  BY <1>1, <1>2, <1>4, <1>7 DEF DraftFollowsItsCalls, StoredIsFinal
<1> QED BY <1>1, <1>2, <1>3, <1>5, <1>6, <1>8, StepOfOne

LEMMA LeaveInv ==
  ASSUME Inv, NEW d \in Definitions, Leave(d) PROVE Inv'
<1>1. /\ worker[d] = "leaving"
      /\ worker' = [worker EXCEPT ![d] = "done"]
      /\ UNCHANGED <<enabled, request, stage, status, cancelled, draft, results, failed>>
      /\ slots' = IF request = "Summary" THEN slots - 1 ELSE slots
  BY DEF Leave
<1>2. "done" \in Steps
  BY DEF Steps
<1>3. worker'[d] = "done" /\ worker' \in [Definitions -> Steps]
  BY <1>1, <1>2, WorkerTypes DEF Inv
<1>4. SlotsAreHeld' /\ slots' \in 0 .. MaxQueries
  <2>1. TypeOK /\ slots \in 0 .. MaxQueries
    BY WorkerTypes DEF Inv
  <2>2. /\ Cardinality(Holders) \in Nat /\ Cardinality(Holders') \in Nat
        /\ Cardinality(Holders') = Cardinality(Holders) - 1
    BY <1>1, <1>2, <2>1, HoldersAreCounted
  <2> QED BY <1>1, <2>1, <2>2, LimitsAssumption DEF Inv, SlotsAreHeld
<1>5. TypeOK'
  BY <1>1, <1>3, <1>4, WorkerTypes, TypesStay DEF Inv
<1>6. DraftFollowsItsCalls(d) /\ StoredIsFinal(d)
  BY <1>1, WorkIsUnderWay DEF Inv, WorkersInv
<1>7. DraftFollowsItsCalls(d)' /\ StoredIsFinal(d)'
  BY <1>1, <1>3, <1>6 DEF DraftFollowsItsCalls, StoredIsFinal
<1> QED BY <1>1, <1>2, <1>4, <1>5, <1>7, StepOfOne

LEMMA WorkerInv ==
  ASSUME Inv, NEW d \in Definitions, WorkerStep(d) PROVE Inv'
BY AcquireInv, DiscoverInv, InstantInv, RangeInv, CallFailsInv, StoreInv, LeaveInv
   DEF WorkerStep

-------------------------------------------------------------------------------
(* While no request works, nobody holds a slot. *)
LEMMA NobodyWorks ==
  ASSUME TypeOK, \A d \in Definitions : worker[d] \in {"off", "queued", "done"}
  PROVE  Holders = {} /\ Cardinality(Holders) = 0
<1>1. Holders = {}
  BY DEF Holders
<1> QED BY <1>1, FS_EmptySet

LEMMA CatalogIdle ==
  ASSUME Inv, request = "Catalog"
  PROVE  \A d \in Definitions : worker[d] = "off"
BY DEF Inv, WorkersFollowTheRequest, AllAre

LEMMA BeginCatalogInv ==
  ASSUME Inv, BeginCatalog PROVE Inv'
<1>1. /\ stage = "idle" /\ request = "Catalog" /\ request' = "Catalog"
      /\ results = NoResults /\ failed = {} /\ worker = AllAre("off") /\ status = 0
      /\ UNCHANGED <<enabled, cancelled, work, failed>>
  BY DEF BeginCatalog, Inv, WorkersFollowTheRequest
<1>2. slots' = 0
  BY <1>1 DEF Inv, SlotsAreHeld, work
<1>3. CASE enabled
  <2>1. stage' = "listing" /\ status' = status /\ results' = results
    BY <1>3 DEF BeginCatalog, GoOn
  <2>2. TypeOK'
    BY <1>1, <2>1 DEF Inv, TypeOK, work
  <2> QED BY <1>1, <1>2, <1>3, <2>1, <2>2 DEF Inv, SlotsAreHeld,
       WorkersFollowTheRequest, CatalogIsWholeOrNothing, WorkersInv, work, NoResults
<1>4. CASE ~enabled
  <2>1. /\ stage' = "answered" /\ status' = 200
        /\ results' = [d \in Definitions |-> CatalogItem(d, "disabled")]
    BY <1>4 DEF BeginCatalog, Reply
  <2>2. TypeOK'
    BY <1>1, <2>1, NewResultType DEF Inv, TypeOK, work
  <2> QED BY <1>1, <1>2, <1>4, <2>1, <2>2 DEF Inv, SlotsAreHeld,
       WorkersFollowTheRequest, CatalogIsWholeOrNothing, WorkersInv, work
<1> QED BY <1>3, <1>4

LEMMA CatalogListedInv ==
  ASSUME Inv, CatalogListed PROVE Inv'
<1>1. /\ stage = "listing" /\ request = "Catalog" /\ enabled /\ failed = {} /\ status = 0
      /\ worker = AllAre("off") /\ slots = 0
      /\ stage' = "build info" /\ status' = status
      /\ UNCHANGED <<enabled, request, cancelled, work, failed>>
  BY DEF CatalogListed, GoOn, Inv, WorkersFollowTheRequest, CatalogIsWholeOrNothing,
     SlotsAreHeld
<1>2. PICK names \in NamesListed :
        results' = [d \in Definitions |->
          CatalogItem(d, IF SelectVariant(d, names) = 0 THEN "unsupported" ELSE "available")]
  BY DEF CatalogListed
<1>3. /\ DOMAIN results' = Definitions
      /\ \A d \in Definitions : \E state \in {"unsupported", "available"} :
           results'[d] = CatalogItem(d, state)
  BY <1>2
<1>4. \A d \in Definitions : results'[d] \in Results
  BY <1>3, NewResultType
<1>5. TypeOK'
  BY <1>1, <1>3, <1>4 DEF Inv, TypeOK, work
<1> QED BY <1>1, <1>3, <1>5 DEF Inv, SlotsAreHeld, WorkersFollowTheRequest,
     CatalogIsWholeOrNothing, WorkersInv, work

LEMMA CatalogEndsInv ==
  ASSUME Inv, CatalogFails \/ BuildInfo PROVE Inv'
<1>1. /\ stage \in {"listing", "build info"} /\ request = "Catalog" /\ enabled
      /\ worker = AllAre("off") /\ slots = 0 /\ stage' = "answered"
      /\ UNCHANGED <<enabled, request, cancelled, work, results>>
  BY DEF CatalogFails, BuildInfo, Reply, Inv, WorkersFollowTheRequest, SlotsAreHeld
<1>2. CASE CatalogFails
  <2>1. status' = 503 /\ failed' = Definitions /\ results = NoResults
    BY <1>2 DEF CatalogFails, Reply, Inv, CatalogIsWholeOrNothing, WorkersFollowTheRequest
  <2>2. TypeOK'
    BY <1>1, <2>1 DEF Inv, TypeOK, work
  <2> QED BY <1>1, <2>1, <2>2 DEF Inv, SlotsAreHeld, WorkersFollowTheRequest,
       CatalogIsWholeOrNothing, WorkersInv, work, NoResults
<1>3. CASE BuildInfo
  <2>1. status' = 200 /\ failed' = failed /\ failed = {} /\ DOMAIN results = Definitions
    BY <1>1, <1>3 DEF BuildInfo, Reply, Inv, CatalogIsWholeOrNothing
  <2>2. TypeOK'
    BY <1>1, <2>1 DEF Inv, TypeOK, work
  <2> QED BY <1>1, <2>1, <2>2 DEF Inv, SlotsAreHeld, WorkersFollowTheRequest,
       CatalogIsWholeOrNothing, WorkersInv, work
<1> QED BY <1>2, <1>3

(* Of the drafts and entries of a request that has just begun. *)
LEMMA FreshDrafts ==
  ASSUME Inv, stage = "idle"
  PROVE  /\ request = "Catalog" /\ results = NoResults /\ failed = {} /\ slots = 0
         /\ status = 0 /\ worker = AllAre("off")
         /\ \A d \in Definitions : draft[d] = NewResult(d)
BY DEF Inv, WorkersFollowTheRequest, SlotsAreHeld

LEMMA RefusedInv ==
  ASSUME Inv, stage = "idle", request' \in {"Summary", "Metric"}, Reply(400),
         UNCHANGED <<enabled, cancelled, work, results, failed>>
  PROVE  Inv'
<1>1. TypeOK'
  BY DEF Inv, TypeOK, Reply, work
<1>2. Holders' = {} /\ Cardinality(Holders') = 0
  <2>1. Holders' = {}
    BY FreshDrafts DEF Holders, AllAre, work
  <2> QED BY <2>1, FS_EmptySet
<1> QED BY <1>1, <1>2, FreshDrafts DEF Inv, Reply, work, SlotsAreHeld,
     WorkersFollowTheRequest, CatalogIsWholeOrNothing, WorkersInv, DraftFollowsItsCalls,
     StoredIsFinal, IsHonest, NewResult, AllAre, NoResults

LEMMA BeginSummaryInv ==
  ASSUME Inv, NEW range, BeginSummary(range) PROVE Inv'
<1>1. CASE range \notin Ranges
  BY <1>1, RefusedInv DEF BeginSummary, work
<1>2. CASE range \in Ranges
  <2>1. /\ stage = "idle" /\ stage' = "working" /\ status' = status
        /\ request' = "Summary" /\ worker' = AllAre("queued")
        /\ UNCHANGED <<enabled, cancelled, slots, draft, results, failed>>
    BY <1>2 DEF BeginSummary, GoOn
  <2>2. worker' \in [Definitions -> Steps] /\ \A d \in Definitions : worker'[d] = "queued"
    BY <2>1 DEF AllAre, Steps
  <2>3. TypeOK'
    BY <2>1, <2>2 DEF Inv, TypeOK
  <2>4. Cardinality(Holders') = 0
    <3>1. Holders' = {}
      BY <2>2 DEF Holders
    <3> QED BY <3>1, FS_EmptySet
  <2> QED BY <2>1, <2>2, <2>3, <2>4, FreshDrafts DEF Inv, SlotsAreHeld,
       WorkersFollowTheRequest, CatalogIsWholeOrNothing, WorkersInv,
       DraftFollowsItsCalls, StoredIsFinal, IsHonest, NewResult, NoResults
<1> QED BY <1>1, <1>2

LEMMA BeginMetricInv ==
  ASSUME Inv, NEW id, NEW range, BeginMetric(id, range) PROVE Inv'
<1>1. CASE range \notin Ranges \/ id \notin Definitions
  BY <1>1, RefusedInv DEF BeginMetric, work
<1>2. CASE range \in Ranges /\ id \in Definitions
  <2> DEFINE x == IF enabled THEN "discovering" ELSE "storing"
  <2>1. /\ stage = "idle" /\ stage' = "working" /\ status' = status
        /\ request' = "Metric" /\ worker' = [worker EXCEPT ![id] = x]
        /\ draft' = IF enabled THEN draft ELSE [draft EXCEPT ![id].state = "disabled"]
        /\ UNCHANGED <<enabled, cancelled, slots, results, failed>>
    BY <1>2 DEF BeginMetric, BeginWork, GoOn
  <2>2. x \in Steps /\ x \in {"discovering", "storing"}
    BY DEF Steps
  <2> HIDE DEF x
  <2>3. /\ worker' \in [Definitions -> Steps]
        /\ \A d \in Definitions : worker'[d] = IF d = id THEN x ELSE "off"
    BY <1>2, <2>1, <2>2, FreshDrafts, WorkerTypes DEF Inv, AllAre
  <2>4. /\ draft' \in [Definitions -> Results]
        /\ \A d \in Definitions \ {id} : draft'[d] = NewResult(d)
        /\ draft'[id] = IF enabled THEN NewResult(id) ELSE CatalogItem(id, "disabled")
    BY <1>2, <2>1, FreshDrafts, WorkerTypes, NewResultType DEF Inv, CatalogItem
  <2>5. TypeOK'
    BY <2>1, <2>3, <2>4 DEF Inv, TypeOK
  <2>6. DraftFollowsItsCalls(id)'
    BY <1>2, <2>1, <2>2, <2>3, <2>4, FreshDrafts DEF x, DraftFollowsItsCalls, IsHonest,
       NewResult, CatalogItem
  <2>7. ASSUME NEW d \in Definitions, d # id PROVE DraftFollowsItsCalls(d)'
    BY <2>1, <2>3, <2>4, <2>7, FreshDrafts DEF DraftFollowsItsCalls, IsHonest, NewResult
  <2>8. \A d \in Definitions : StoredIsFinal(d)'
    BY <2>1, <2>2, <2>3, FreshDrafts DEF StoredIsFinal, NoResults
  <2> QED BY <1>2, <2>1, <2>2, <2>3, <2>5, <2>6, <2>7, <2>8, FreshDrafts DEF Inv,
       SlotsAreHeld, WorkersFollowTheRequest, CatalogIsWholeOrNothing, WorkersInv
<1> QED BY <1>1, <1>2

LEMMA AnswerInv ==
  ASSUME Inv, Answer PROVE Inv'
<1>1. /\ stage = "working" /\ stage' = "answered" /\ status' = 200
      /\ \A d \in Definitions : worker[d] \in {"off", "done"}
      /\ UNCHANGED <<enabled, request, cancelled, work, results, failed>>
  BY DEF Answer, AllDone, Reply
<1>2. TypeOK'
  BY <1>1 DEF Inv, TypeOK, work
<1>3. SlotsAreHeld'
  BY <1>1 DEF Inv, SlotsAreHeld, Holders, work
<1>4. request # "Catalog"
  BY <1>1 DEF Inv, WorkersFollowTheRequest
<1>5. \A d \in Definitions : DraftFollowsItsCalls(d)' /\ StoredIsFinal(d)'
  BY <1>1, <1>4 DEF Inv, WorkersInv, DraftFollowsItsCalls, StoredIsFinal, work
<1> QED BY <1>1, <1>2, <1>3, <1>4, <1>5 DEF Inv, WorkersFollowTheRequest,
     CatalogIsWholeOrNothing, WorkersInv, work

LEMMA NextRequestInv ==
  ASSUME Inv, NextRequest PROVE Inv'
<1>1. TypeOK'
  <2>1. worker' \in [Definitions -> Steps] /\ draft' \in [Definitions -> Results]
    BY NewResultType DEF NextRequest, AllAre, Steps
  <2>2. slots' \in 0 .. MaxQueries /\ DOMAIN results' = {}
    BY LimitsAssumption DEF NextRequest, NoResults
  <2> QED BY <2>1, <2>2 DEF NextRequest, Inv, TypeOK
<1> QED BY <1>1 DEF NextRequest, Inv, SlotsAreHeld, WorkersFollowTheRequest,
     CatalogIsWholeOrNothing, WorkersInv, NoResults

(* Nothing of the invariant depends on whether the browser is still there. *)
LEMMA BrowserInv ==
  ASSUME Inv, BrowserGoes \/ UNCHANGED vars PROVE Inv'
<1>1. UNCHANGED <<enabled, request, stage, status, worker, slots, draft, results, failed>>
  BY DEF BrowserGoes, vars, work
<1>2. TypeOK'
  <2>1. cancelled' \in BOOLEAN
    BY Zenon DEF BrowserGoes, vars, Inv, TypeOK
  <2> QED BY <1>1, <2>1, WorkerTypes, TypesStay DEF Inv
<1>3. SlotsAreHeld'
  BY <1>1 DEF Inv, SlotsAreHeld, Holders
<1>4. WorkersFollowTheRequest'
  BY <1>1 DEF Inv, WorkersFollowTheRequest, NoResults, NewResult
<1>5. CatalogIsWholeOrNothing'
  BY <1>1 DEF Inv, CatalogIsWholeOrNothing
<1>6. \A d \in Definitions : /\ DraftFollowsItsCalls(d) => DraftFollowsItsCalls(d)'
                             /\ StoredIsFinal(d) => StoredIsFinal(d)'
  BY <1>1 DEF DraftFollowsItsCalls, StoredIsFinal
<1>7. WorkersInv'
  BY <1>1, <1>6 DEF Inv, WorkersInv
<1> QED BY <1>2, <1>3, <1>4, <1>5, <1>7 DEF Inv

LEMMA InvStep == Inv /\ [Next]_vars => Inv'
<1> SUFFICES ASSUME Inv, [Next]_vars PROVE Inv'
  OBVIOUS
<1>1. ASSUME NEW range, BeginSummary(range) \/ \E id \in Definitions \cup {"other"} :
                                                 BeginMetric(id, range)
      PROVE  Inv'
  BY <1>1, BeginSummaryInv, BeginMetricInv
<1> QED BY <1>1, BeginCatalogInv, CatalogListedInv, CatalogEndsInv, WorkerInv,
         AnswerInv, NextRequestInv, BrowserInv
         DEF Next, CatalogStep

LEMMA InvIsInvariant == Spec => []Inv
<1> QED BY InitInv, InvStep, PTL DEF Spec

-------------------------------------------------------------------------------
(* Results have the documented states and finite values only, and no more      *)
(* slots are taken than there are (service.go:18-25, 40-49, 142, 201).         *)
THEOREM ServiceTypes == Spec => []TypeOK
<1>1. Inv => TypeOK
  BY DEF Inv
<1> QED BY <1>1, InvIsInvariant, PTL

(* A summary of any number of metrics never has more than MaxQueries of them   *)
(* at Prometheus (service.go:142-156): whoever asks holds a slot.              *)
THEOREM QueriesAreBounded == Spec => []BoundedQueries
<1>1. Inv => BoundedQueries
  <2> SUFFICES ASSUME Inv, request = "Summary"
               PROVE  Cardinality({d \in Definitions : worker[d] \in Asking}) <= MaxQueries
    BY DEF BoundedQueries
  <2>1. IsFiniteSet(Holders)
    BY CatalogAssumption, FS_Subset DEF Holders
  <2>2. {d \in Definitions : worker[d] \in Asking} \subseteq Holders
    BY DEF Holders, Asking
  <2>3. /\ Cardinality({d \in Definitions : worker[d] \in Asking}) <= Cardinality(Holders)
        /\ Cardinality({d \in Definitions : worker[d] \in Asking}) \in Nat
    BY <2>1, <2>2, FS_Subset, FS_CardinalityType
  <2>4. Cardinality(Holders) \in 0 .. MaxQueries
    BY WorkerTypes DEF Inv, SlotsAreHeld
  <2> QED BY <2>3, <2>4, LimitsAssumption
<1> QED BY <1>1, InvIsInvariant, PTL

(* A response has the final entry of each metric that was asked for, an error  *)
(* exactly where a call of that metric failed, whatever order the goroutines   *)
(* ran in (service.go:106-169, handler.go:73-122).                             *)
THEOREM ResponsesAreComplete == Spec => []ResponseIsComplete
<1>1. Inv => ResponseIsComplete
  <2> SUFFICES ASSUME Inv, stage = "answered" PROVE ResponseIsComplete
    BY DEF ResponseIsComplete
  <2>1. CASE request = "Catalog"
    <3>1. \A d \in DOMAIN results :
            results[d].of = d /\ (results[d].state = "disabled" <=> ~enabled)
      BY <2>1, CatalogItemFields DEF Inv, CatalogIsWholeOrNothing
    <3> QED BY <2>1, <3>1, CatalogAssumption DEF Inv, CatalogIsWholeOrNothing,
         ResponseIsComplete
  <2>2. CASE request # "Catalog"
    <3>1. \A d \in Definitions : DraftFollowsItsCalls(d) /\ StoredIsFinal(d)
      BY <2>2 DEF Inv, WorkersInv
    <3>2. DOMAIN results \subseteq Definitions
      BY WorkerTypes DEF Inv
    <3>3. \A d \in DOMAIN results :
            /\ results[d].of = d
            /\ results[d].state = "disabled" <=> ~enabled
            /\ results[d] = draft[d] /\ (results[d].state = "error" <=> d \in failed)
      BY <3>1, <3>2 DEF DraftFollowsItsCalls, StoredIsFinal
    <3>4. \/ status = 400 /\ DOMAIN results = {}
          \/ status = 200 /\ request = "Summary" /\ DOMAIN results = Definitions
          \/ /\ status = 200 /\ request = "Metric"
             /\ \E d \in Definitions : DOMAIN results = {d}
      <4>1. \A d : d \in DOMAIN results <=>
                    d \in Definitions /\ worker[d] \in {"leaving", "done"}
        BY <3>1, <3>2 DEF StoredIsFinal
      <4>2. \/ status = 400 /\ \A d \in Definitions : worker[d] = "off"
            \/ /\ status = 200 /\ request = "Summary"
               /\ \A d \in Definitions : worker[d] = "done"
            \/ /\ status = 200 /\ request = "Metric"
               /\ \E id \in Definitions :
                    worker[id] = "done" /\ \A d \in Definitions \ {id} : worker[d] = "off"
        BY <2>2 DEF Inv, WorkersInv
      <4>3. (\A d \in Definitions : worker[d] = "off") => DOMAIN results = {}
        BY <4>1
      <4>4. (\A d \in Definitions : worker[d] = "done") => DOMAIN results = Definitions
        BY <4>1
      <4>5. ASSUME NEW id \in Definitions, worker[id] = "done",
                   \A d \in Definitions \ {id} : worker[d] = "off"
            PROVE  DOMAIN results = {id}
        BY <4>1, <4>5
      <4>6. ASSUME request = "Metric", status = 200,
                   \E id \in Definitions :
                     worker[id] = "done" /\ \A d \in Definitions \ {id} : worker[d] = "off"
            PROVE  \E d \in Definitions : DOMAIN results = {d}
        BY <4>5, <4>6
      <4> QED BY <4>2, <4>3, <4>4, <4>6, Zenon
    <3>5. /\ status # 200 => DOMAIN results = {}
          /\ status = 200 => IF request = "Metric"
                              THEN \E d \in Definitions : DOMAIN results = {d}
                              ELSE DOMAIN results = Definitions
      <4>1. CASE status = 400 /\ DOMAIN results = {}
        BY <4>1
      <4>2. CASE status = 200 /\ request = "Summary" /\ DOMAIN results = Definitions
        BY <4>2
      <4>3. CASE status = 200 /\ request = "Metric" /\ \E d \in Definitions : DOMAIN results = {d}
        BY <4>3
      <4> QED BY <3>4, <4>1, <4>2, <4>3
    <3> QED BY <2>2, <3>3, <3>5 DEF ResponseIsComplete
  <2> QED BY <2>1, <2>2
<1> QED BY <1>1, InvIsInvariant, PTL

(* "Unsupported and no-data metrics never silently appear as zero": what is    *)
(* shown is a finite value that Prometheus gave, for whatever samples it gives *)
(* (service.go:176-216, 264-272).                                              *)
THEOREM NothingIsSilentlyZero == Spec => []NeverSilentlyZero
<1>1. Inv => NeverSilentlyZero
  <2> SUFFICES ASSUME Inv, NEW d \in DOMAIN results
               PROVE  LET r == results[d]
                      IN  /\ NotFinite \notin r.current
                                         \cup UNION {r.series[n] : n \in DOMAIN r.series}
                          /\ r.state \in {"no_data", "unsupported", "disabled"} =>
                               r.current = {} /\ r.level = "info"
                          /\ r.state = "zero" => r.current = {0}
                          /\ r.state = "available" /\ request # "Catalog" =>
                               r.current \notin {{}, {0}}
    BY DEF NeverSilentlyZero
  <2>1. d \in Definitions /\ results[d] \in Results
    BY WorkerTypes DEF Inv
  <2>2. NotFinite \notin Values
    BY ValuesAssumption DEF NotFinite
  <2>3. NotFinite \notin results[d].current
    BY <2>1, <2>2 DEF Results
  <2>4. NotFinite \notin UNION {results[d].series[n] : n \in DOMAIN results[d].series}
    <3>1. results[d].series \in Trends(Values)
      BY <2>1 DEF Results
    <3>2. PICK S \in SUBSET SeriesNames : results[d].series \in [S -> SUBSET Values]
      BY <3>1 DEF Trends
    <3> QED BY <2>2, <3>2
  <2>5. CASE request = "Catalog"
    <3>1. \E state \in {"disabled", "unsupported", "available"} :
            results[d] = CatalogItem(d, state)
      BY <2>5 DEF Inv, CatalogIsWholeOrNothing
    <3>2. /\ results[d].state \in {"disabled", "unsupported", "available"}
          /\ results[d].current = {} /\ results[d].level = "info"
      BY <3>1, CatalogItemFields
    <3> QED BY <2>3, <2>4, <2>5, <3>2
  <2>6. CASE request # "Catalog"
    <3>1. IsHonest(results[d])
      BY <2>1, <2>6 DEF Inv, WorkersInv, DraftFollowsItsCalls, StoredIsFinal
    <3> QED BY <2>3, <2>4, <3>1 DEF IsHonest
  <2> QED BY <2>5, <2>6
<1> QED BY <1>1, InvIsInvariant, PTL

===============================================================================
