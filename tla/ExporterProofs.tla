---------------------------- MODULE ExporterProofs ----------------------------
(***************************************************************************)
(* Proofs about Exporter, for any number of collections, of scrapers that  *)
(* run at once and of checks.                                              *)
(*                                                                         *)
(* A scrape works on a copy of the store, and takes it before it has the   *)
(* lock, so by then neither the store nor the counters need be as it left  *)
(* them.  The invariant says what is left of the copy: it is a report that *)
(* was published, not newer than the store's, and not older than what its  *)
(* scraper has seen.  The counters are compared with the history of        *)
(* reports up to lastObserved, which no later refresh can change.  That a  *)
(* scraper in the lock still knows whether its report is new holds because *)
(* it is alone there.                                                      *)
(***************************************************************************)
EXTENDS Exporter, FiniteSetTheorems, TLAPS

(* A copy of the store, or the store, is of a report that was published, or of none. *)
IsOfAPublishedReport(snap) ==
  /\ snap.ready => snap.report.checkedAt > 0
                   /\ snap.report.items = published[snap.report.checkedAt]
  /\ ~snap.ready => snap.report = EmptyReport

StoreIsCurrent ==
  /\ IsOfAPublishedReport(Snapshot)
  /\ report.checkedAt <= refreshes
  /\ up => ready

SnapshotsAreOfTheStore ==
  \A s \in Scrapers :
    /\ IsOfAPublishedReport(snapshot[s])
    /\ snapshot[s].report.checkedAt <= report.checkedAt

(* Only the reports that have been published can have been counted. *)
CountedIsPublished == lastObserved <= report.checkedAt

(* What a scraper was told is not ahead of its snapshot, nor of the counters. *)
ExposedIsNotAhead ==
  \A s \in Scrapers :
    /\ exposed[s].lastSuccess <= snapshot[s].report.checkedAt
    /\ \A c \in DOMAIN exposed[s].errors : exposed[s].errors[c] <= errorCounts[c]

OneInTheLock == \A r, t \in Scrapers : InTheLock(r) /\ InTheLock(t) => r = t

(* What was found of lastObserved on entering the lock is true until it is left. *)
ComparisonHolds ==
  \A s \in Scrapers : InTheLock(s) => (scrape[s] = "counting" <=> IsNewReport(snapshot[s]))

LockInv == OneInTheLock /\ ComparisonHolds

ScrapeInv ==
  /\ StoreIsCurrent
  /\ SnapshotsAreOfTheStore
  /\ CountedIsPublished
  /\ ExposedIsNotAhead

Inv == TypeOK /\ StoreShowsTheLatestRefresh /\ ScrapeInv /\ LockInv /\ NoErrorIsCountedTwice

-------------------------------------------------------------------------------
LEMMA MapsOfCollections ==
  ASSUME NEW S, NEW m PROVE m \in CollectionMaps(S) <=> IsCollectionMap(m, S)
<1>1. ASSUME m \in CollectionMaps(S) PROVE IsCollectionMap(m, S)
  <2>1. PICK C \in SUBSET Collections : m \in [C -> S]
    BY <1>1 DEF CollectionMaps
  <2> QED BY <2>1 DEF IsCollectionMap
<1>2. ASSUME IsCollectionMap(m, S) PROVE m \in CollectionMaps(S)
  BY <1>2 DEF IsCollectionMap, CollectionMaps
<1> QED BY <1>1, <1>2

LEMMA EmptyReportType == EmptyReport \in Reports /\ EmptyMap \in ItemMaps
<1>1. EmptyMap \in ItemMaps
  BY MapsOfCollections DEF ItemMaps, IsCollectionMap, EmptyMap
<1> QED BY <1>1, MaxRefreshesAssumption DEF EmptyReport, Reports, Instants, ZeroTime

LEMMA SnapshotFields ==
  /\ Snapshot.ready = ready /\ Snapshot.up = up
  /\ Snapshot.report = report /\ Snapshot.lastError = lastError
BY DEF Snapshot

LEMMA StoreTypes ==
  Snapshot \in Snapshots <=>
    /\ ready \in BOOLEAN /\ up \in BOOLEAN /\ report \in Reports
    /\ lastError \in {NoError, "failed"}
BY Zenon DEF Snapshot, Snapshots

(* The reports up to an instant in which c could not be inspected, which the   *)
(* counter of c is compared with.                                              *)
ErrorsUpTo(c, t) == {u \in ReportsWithError(c) : u <= t}

LEMMA ErrorsUpToIsFinite ==
  ASSUME NEW c, NEW t
  PROVE  IsFiniteSet(ErrorsUpTo(c, t)) /\ Cardinality(ErrorsUpTo(c, t)) \in Nat
<1>1. IsFiniteSet(1 .. MaxRefreshes)
  BY FS_Interval, MaxRefreshesAssumption
<1>2. ErrorsUpTo(c, t) \subseteq 1 .. MaxRefreshes
  BY DEF ErrorsUpTo, ReportsWithError
<1> QED BY <1>1, <1>2, FS_Subset, FS_CardinalityType

LEMMA InitInv == Init => Inv
<1> SUFFICES ASSUME Init PROVE Inv
  OBVIOUS
<1> USE DEF Init, StoreInit
<1>1. TypeOK
  <2>1. Snapshot \in Snapshots
    BY StoreTypes, EmptyReportType
  <2>2. NoExposition \in [up : BOOLEAN, lastSuccess : Instants,
                          errors : CollectionMaps(0 .. MaxRefreshes)]
    <3>1. EmptyMap \in CollectionMaps(0 .. MaxRefreshes)
      BY MapsOfCollections DEF IsCollectionMap, EmptyMap
    <3> QED BY <3>1, MaxRefreshesAssumption DEF NoExposition, Instants, ZeroTime
  <2>3. lastObserved \in Instants /\ refreshes \in 0 .. MaxRefreshes
        /\ errorCounts \in [Collections -> 0 .. MaxRefreshes]
    BY MaxRefreshesAssumption DEF Instants, ZeroTime
  <2>4. published \in [Instants -> ItemMaps]
    BY EmptyReportType
  <2> QED BY <2>1, <2>2, <2>3, <2>4 DEF TypeOK
<1>2. report.checkedAt = 0 /\ refreshes = 0
  BY DEF EmptyReport, ZeroTime
<1>3. StoreShowsTheLatestRefresh
  BY <1>2 DEF StoreShowsTheLatestRefresh, StatusOK, ReadyzOK
<1>4. ScrapeInv
  BY <1>2, SnapshotFields
     DEF ScrapeInv, StoreIsCurrent, IsOfAPublishedReport, SnapshotsAreOfTheStore,
         CountedIsPublished, ExposedIsNotAhead, NoExposition, EmptyMap, ZeroTime
<1>5. NoErrorIsCountedTwice
  <2> SUFFICES ASSUME NEW c \in Collections
               PROVE  errorCounts[c] <= Cardinality(ErrorsUpTo(c, lastObserved))
    BY DEF NoErrorIsCountedTwice, ErrorsUpTo
  <2> QED BY ErrorsUpToIsFinite
<1>6. LockInv
  BY DEF LockInv, OneInTheLock, ComparisonHolds, InTheLock
<1> QED BY <1>1, <1>3, <1>4, <1>5, <1>6 DEF Inv

-------------------------------------------------------------------------------
(* A refresh dates its report after all that are published, so it changes      *)
(* nothing about those that anyone has a copy of.                              *)
LEMMA OlderReportsAreKept ==
  ASSUME TypeOK, StoreIsCurrent, NEW items \in ItemMaps,
         published' = [published EXCEPT ![refreshes + 1] = items],
         refreshes < MaxRefreshes
  PROVE  /\ published' \in [Instants -> ItemMaps]
         /\ published'[refreshes + 1] = items
         /\ \A t \in Instants \ {refreshes + 1} : published'[t] = published[t]
         /\ \A t \in Instants : t <= report.checkedAt => published'[t] = published[t]
         /\ refreshes + 1 \in Instants
<1>1. /\ refreshes \in Int /\ report.checkedAt \in Instants /\ refreshes + 1 \in Instants
      /\ published \in [Instants -> ItemMaps]
  BY MaxRefreshesAssumption, StoreTypes DEF TypeOK, Instants, Reports
<1> QED BY <1>1 DEF StoreIsCurrent, Instants

(* The lock, and what was found in it, is no matter of the loop. *)
LEMMA LockUnchanged ==
  ASSUME LockInv, UNCHANGED <<scrape, snapshot, lastObserved>> PROVE LockInv'
BY DEF LockInv, OneInTheLock, ComparisonHolds, InTheLock, IsNewReport

(* The loop publishes a report (store.go:37-44). *)
LEMMA SuccessInv ==
  ASSUME Inv, NEW items \in ItemMaps, RefreshSucceeds(items) PROVE Inv'
<1> USE DEF Inv, RefreshSucceeds, SetSuccess
<1>1. /\ refreshes < MaxRefreshes /\ refreshes' = refreshes + 1
      /\ ready' = TRUE /\ up' = TRUE /\ lastError' = NoError
      /\ report' = [checkedAt |-> refreshes + 1, items |-> items]
      /\ report'.checkedAt = refreshes + 1 /\ report'.items = items
      /\ UNCHANGED <<lastObserved, errorCounts, observed, scrape, snapshot, exposed>>
  BY DEF collectorVars
<1>2. /\ refreshes \in 0 .. MaxRefreshes /\ report.checkedAt \in Instants
      /\ lastObserved \in Instants /\ refreshes' \in 0 .. MaxRefreshes
  BY <1>1, StoreTypes, MaxRefreshesAssumption DEF TypeOK, Reports, Instants
<1>3. /\ published' \in [Instants -> ItemMaps]
      /\ published'[refreshes + 1] = items
      /\ \A t \in Instants \ {refreshes + 1} : published'[t] = published[t]
      /\ \A t \in Instants : t <= report.checkedAt => published'[t] = published[t]
      /\ refreshes + 1 \in Instants
  BY <1>1, OlderReportsAreKept DEF ScrapeInv
<1>4. report.checkedAt <= refreshes /\ lastObserved <= report.checkedAt
  BY DEF ScrapeInv, StoreIsCurrent, CountedIsPublished
<1>5. TypeOK'
  <2>1. (Snapshot \in Snapshots)'
    <3>1. report' \in Reports
      BY <1>1, <1>3 DEF Reports
    <3> QED BY <1>1, <3>1, Zenon DEF Snapshot, Snapshots
  <2> QED BY <1>1, <1>2, <1>3, <2>1 DEF TypeOK
<1>6. StoreShowsTheLatestRefresh'
  BY <1>1, <1>2, <1>3, <1>4
     DEF StoreShowsTheLatestRefresh, StatusOK, ReadyzOK, Instants
<1>7. ScrapeInv'
  <2>1. StoreIsCurrent'
    BY <1>1, <1>2, <1>3 DEF StoreIsCurrent, IsOfAPublishedReport, Snapshot
  <2>2. SnapshotsAreOfTheStore'
    <3> SUFFICES ASSUME NEW s \in Scrapers
                 PROVE  /\ IsOfAPublishedReport(snapshot[s])'
                        /\ snapshot[s].report.checkedAt <= report'.checkedAt
      BY <1>1 DEF SnapshotsAreOfTheStore
    <3>1. /\ snapshot[s].report.checkedAt \in Instants
          /\ snapshot[s].report.checkedAt <= report.checkedAt
          /\ IsOfAPublishedReport(snapshot[s])
      BY DEF TypeOK, Snapshots, Reports, ScrapeInv, SnapshotsAreOfTheStore
    <3> QED BY <1>1, <1>2, <1>3, <1>4, <3>1 DEF IsOfAPublishedReport, Instants
  <2>3. CountedIsPublished' /\ ExposedIsNotAhead'
    BY <1>1, <1>2, <1>4
       DEF CountedIsPublished, ScrapeInv, ExposedIsNotAhead, Instants
  <2> QED BY <2>1, <2>2, <2>3 DEF ScrapeInv
<1>8. NoErrorIsCountedTwice'
  <2>1. \A c : ErrorsUpTo(c, lastObserved)' = ErrorsUpTo(c, lastObserved)
    <3>1. \A u \in Instants : u <= lastObserved => published'[u] = published[u]
      BY <1>2, <1>3, <1>4 DEF Instants
    <3>2. ASSUME NEW c
          PROVE  {u \in ReportsWithError(c)' : u <= lastObserved}
                   = {u \in ReportsWithError(c) : u <= lastObserved}
      BY <3>1, MaxRefreshesAssumption DEF ReportsWithError, Instants
    <3> QED BY <1>1, <3>2 DEF ErrorsUpTo
  <2> QED BY <1>1, <2>1 DEF NoErrorIsCountedTwice, ErrorsUpTo
<1>9. LockInv'
  BY <1>1, LockUnchanged
<1> QED BY <1>5, <1>6, <1>7, <1>8, <1>9

(* The loop could not check: the last report stays (store.go:46-54). *)
LEMMA FailureInv == Inv /\ RefreshFails => Inv'
<1> SUFFICES ASSUME Inv, RefreshFails PROVE Inv'
  OBVIOUS
<1> USE DEF Inv
<1>1. /\ refreshes < MaxRefreshes /\ refreshes' = refreshes + 1
      /\ up' = FALSE /\ lastError' = "failed"
      /\ UNCHANGED <<ready, report, lastObserved, errorCounts, observed, scrape, snapshot,
                     exposed, published>>
  BY DEF RefreshFails, SetFailure, collectorVars
<1>2. /\ refreshes \in 0 .. MaxRefreshes /\ refreshes' \in 0 .. MaxRefreshes
      /\ report.checkedAt \in Instants
  BY <1>1, StoreTypes, MaxRefreshesAssumption DEF TypeOK, Reports, Instants
<1>3. TypeOK'
  <2>1. (Snapshot \in Snapshots)'
    BY <1>1, StoreTypes, Zenon DEF TypeOK, Snapshot, Snapshots
  <2> QED BY <1>1, <1>2, <2>1 DEF TypeOK
<1>4. StoreShowsTheLatestRefresh' /\ ScrapeInv'
  <2>1. report.checkedAt <= refreshes
    BY DEF ScrapeInv, StoreIsCurrent
  <2>2. StoreShowsTheLatestRefresh'
    <3>1. report'.checkedAt # refreshes' /\ lastError' # NoError /\ ~ReadyzOK'
      BY <1>1, <1>2, <2>1 DEF Instants, NoError, ReadyzOK
    <3> QED BY <1>1, <3>1 DEF StoreShowsTheLatestRefresh, StatusOK
  <2>3. StoreIsCurrent'
    BY <1>1, <1>2, <2>1, SnapshotFields
       DEF ScrapeInv, StoreIsCurrent, IsOfAPublishedReport, Snapshot, Instants
  <2>4. SnapshotsAreOfTheStore' /\ CountedIsPublished' /\ ExposedIsNotAhead'
    BY <1>1 DEF ScrapeInv, SnapshotsAreOfTheStore, IsOfAPublishedReport,
                CountedIsPublished, ExposedIsNotAhead
  <2> QED BY <2>2, <2>3, <2>4 DEF ScrapeInv
<1>5. NoErrorIsCountedTwice'
  BY <1>1 DEF NoErrorIsCountedTwice, ReportsWithError
<1>6. LockInv'
  BY <1>1, LockUnchanged
<1> QED BY <1>3, <1>4, <1>5, <1>6

-------------------------------------------------------------------------------
(* Line 62: the copy is as good as the store, and not older than the last one. *)
LEMMA SnapshotInv ==
  ASSUME Inv, NEW s \in Scrapers, TakeSnapshot(s) PROVE Inv'
<1> USE DEF Inv
<1>1. /\ scrape' = [scrape EXCEPT ![s] = "snapped"]
      /\ snapshot' = [snapshot EXCEPT ![s] = Snapshot]
      /\ UNCHANGED <<ready, up, report, lastError, lastObserved, errorCounts, observed,
                     exposed, refreshes, published>>
  BY DEF TakeSnapshot, storeVars, collectorVars
<1>2. Snapshot' = Snapshot
  BY <1>1 DEF Snapshot
<1>3. TypeOK'
  BY <1>1, <1>2 DEF TypeOK
<1>4. StoreShowsTheLatestRefresh' /\ NoErrorIsCountedTwice'
  BY <1>1 DEF StoreShowsTheLatestRefresh, StatusOK, ReadyzOK, NoErrorIsCountedTwice,
              ReportsWithError
<1>5. ScrapeInv'
  <2>1. StoreIsCurrent' /\ CountedIsPublished'
    BY <1>1, <1>2 DEF ScrapeInv, StoreIsCurrent, IsOfAPublishedReport, CountedIsPublished
  <2>2. \A r \in Scrapers :
          /\ snapshot'[r] = IF r = s THEN Snapshot ELSE snapshot[r]
          /\ snapshot[r].report.checkedAt \in Instants
          /\ exposed[r].lastSuccess \in Instants
    BY <1>1 DEF TypeOK, Snapshots, Reports
  <2>3. report.checkedAt \in Instants
    BY StoreTypes DEF TypeOK, Reports
  <2>4. SnapshotsAreOfTheStore'
    BY <1>1, <2>2, <2>3, SnapshotFields
       DEF ScrapeInv, StoreIsCurrent, SnapshotsAreOfTheStore, IsOfAPublishedReport,
           Instants
  <2>5. ExposedIsNotAhead'
    BY <1>1, <2>2, <2>3, SnapshotFields
       DEF ScrapeInv, SnapshotsAreOfTheStore, ExposedIsNotAhead, Instants
  <2> QED BY <2>1, <2>4, <2>5 DEF ScrapeInv
<1>6. LockInv'
  <2>1. \A r \in Scrapers : InTheLock(r)' => r # s /\ InTheLock(r)
    BY <1>1 DEF TypeOK, InTheLock
  <2>2. \A r \in Scrapers : r # s => scrape'[r] = scrape[r] /\ snapshot'[r] = snapshot[r]
    BY <1>1 DEF TypeOK
  <2> QED BY <1>1, <2>1, <2>2 DEF LockInv, OneInTheLock, ComparisonHolds, IsNewReport
<1> QED BY <1>3, <1>4, <1>5, <1>6

(* Lines 63-65: nobody else is in the lock. *)
LEMMA LockingInv ==
  ASSUME Inv, NEW s \in Scrapers, Lock(s) PROVE Inv'
<1> USE DEF Inv
<1>1. /\ scrape' = [scrape EXCEPT ![s] = IF IsNewReport(snapshot[s]) THEN "counting"
                                                                     ELSE "exposing"]
      /\ LockIsFree
      /\ UNCHANGED <<storeVars, collectorVars, snapshot, exposed, refreshes, published>>
  BY DEF Lock
<1>2. TypeOK'
  BY <1>1 DEF TypeOK, Snapshot, storeVars, collectorVars
<1>3. LockInv'
  <2>1. \A r \in Scrapers : scrape'[r] = IF r = s
                                            THEN IF IsNewReport(snapshot[s]) THEN "counting"
                                                                             ELSE "exposing"
                                            ELSE scrape[r]
    BY <1>1 DEF TypeOK
  <2>2. \A r \in Scrapers : InTheLock(r)' => r = s
    BY <1>1, <2>1 DEF InTheLock, LockIsFree
  <2>3. IsNewReport(snapshot[s])' <=> IsNewReport(snapshot[s])
    BY <1>1 DEF IsNewReport, collectorVars
  <2> QED BY <2>1, <2>2, <2>3 DEF LockInv, OneInTheLock, ComparisonHolds
<1>4. StoreShowsTheLatestRefresh' /\ ScrapeInv' /\ NoErrorIsCountedTwice'
  BY <1>1 DEF storeVars, collectorVars, Snapshot, StoreShowsTheLatestRefresh, StatusOK,
              ReadyzOK, ScrapeInv, StoreIsCurrent, SnapshotsAreOfTheStore,
              IsOfAPublishedReport, CountedIsPublished, ExposedIsNotAhead,
              NoErrorIsCountedTwice, ReportsWithError
<1> QED BY <1>2, <1>3, <1>4

(* Lines 66-71, under the lock: a collection in error of a report newer than   *)
(* the last one counted has one report more to its name, and one count.        *)
LEMMA CountsInv ==
  ASSUME Inv, NEW s \in Scrapers, InTheLock(s), CountErrors(s)
  PROVE  /\ lastObserved' \in Instants /\ lastObserved <= lastObserved'
         /\ lastObserved' <= report.checkedAt
         /\ errorCounts' \in [Collections -> 0 .. MaxRefreshes]
         /\ \A c \in Collections :
              /\ errorCounts[c] <= errorCounts'[c]
              /\ errorCounts'[c] <= Cardinality(ErrorsUpTo(c, lastObserved'))
<1> USE DEF Inv
<1> DEFINE snap == snapshot[s]
           at == snap.report.checkedAt
<1>1. /\ lastObserved \in Instants /\ at \in Instants /\ report.checkedAt \in Instants
      /\ errorCounts \in [Collections -> 0 .. MaxRefreshes]
      /\ at <= report.checkedAt /\ lastObserved <= report.checkedAt
      /\ snap.report.items \in ItemMaps
  BY StoreTypes
     DEF TypeOK, Snapshots, Reports, ScrapeInv, SnapshotsAreOfTheStore, CountedIsPublished
<1>2. \A c \in Collections : errorCounts[c] <= Cardinality(ErrorsUpTo(c, lastObserved))
  BY DEF NoErrorIsCountedTwice, ErrorsUpTo
<1>3. scrape[s] = "counting" <=> IsNewReport(snap)
  BY DEF LockInv, ComparisonHolds
<1>4. CASE ~IsNewReport(snap)
  BY <1>1, <1>2, <1>4, <1>3, MaxRefreshesAssumption DEF CountErrors, Instants
<1>5. CASE IsNewReport(snap)
  <2>1. /\ snap.ready /\ at > lastObserved /\ lastObserved' = at
        /\ errorCounts' = [c \in Collections |->
             IF c \in Errored(snap.report.items) THEN errorCounts[c] + 1
                                                 ELSE errorCounts[c]]
    BY <1>5, <1>3 DEF CountErrors, IsNewReport
  <2>2. at > 0 /\ at <= MaxRefreshes /\ snap.report.items = published[at]
    BY <1>1, <2>1, MaxRefreshesAssumption
       DEF ScrapeInv, SnapshotsAreOfTheStore, IsOfAPublishedReport, Instants
  <2>3. ASSUME NEW c \in Collections
        PROVE  /\ errorCounts'[c] \in Nat /\ errorCounts[c] <= errorCounts'[c]
               /\ errorCounts'[c] <= Cardinality(ErrorsUpTo(c, at))
    <3>1. ErrorsUpTo(c, lastObserved) \subseteq ErrorsUpTo(c, at)
      BY <1>1, <2>1 DEF ErrorsUpTo, ReportsWithError, Instants
    <3>2. Cardinality(ErrorsUpTo(c, lastObserved)) <= Cardinality(ErrorsUpTo(c, at))
      BY <3>1, FS_Subset, ErrorsUpToIsFinite
    <3>3. errorCounts[c] \in Nat /\ errorCounts[c] <= Cardinality(ErrorsUpTo(c, lastObserved))
      BY <1>1, <1>2, MaxRefreshesAssumption
    <3>4. CASE c \notin Errored(snap.report.items)
      BY <2>1, <3>2, <3>3, <3>4, ErrorsUpToIsFinite
    <3>5. CASE c \in Errored(snap.report.items)
      <4>1. at \in ReportsWithError(c)
        BY <1>1, <2>2, <3>5 DEF Errored, ReportsWithError, Instants
      <4>2. at \notin ErrorsUpTo(c, lastObserved)
        BY <1>1, <2>1 DEF ErrorsUpTo, Instants
      <4>3. ErrorsUpTo(c, lastObserved) \cup {at} \subseteq ErrorsUpTo(c, at)
        BY <1>1, <3>1, <4>1 DEF ErrorsUpTo, Instants
      <4>4. Cardinality(ErrorsUpTo(c, lastObserved) \cup {at})
              = Cardinality(ErrorsUpTo(c, lastObserved)) + 1
        BY <4>2, FS_AddElement, ErrorsUpToIsFinite
      <4>5. Cardinality(ErrorsUpTo(c, lastObserved)) + 1 <= Cardinality(ErrorsUpTo(c, at))
        BY <4>3, <4>4, FS_Subset, ErrorsUpToIsFinite
      <4> QED BY <2>1, <3>3, <3>5, <4>5, ErrorsUpToIsFinite
    <3> QED BY <3>4, <3>5
  <2>4. \A c \in Collections : Cardinality(ErrorsUpTo(c, at)) <= MaxRefreshes
    <3>1. ASSUME NEW c \in Collections
          PROVE  Cardinality(ErrorsUpTo(c, at)) <= Cardinality(1 .. MaxRefreshes)
      <4>1. IsFiniteSet(1 .. MaxRefreshes)
        BY FS_Interval, MaxRefreshesAssumption
      <4>2. ErrorsUpTo(c, at) \subseteq 1 .. MaxRefreshes
        BY DEF ErrorsUpTo, ReportsWithError
      <4> QED BY <4>1, <4>2, FS_Subset
    <3>2. Cardinality(1 .. MaxRefreshes) = MaxRefreshes
      BY FS_Interval, MaxRefreshesAssumption
    <3> QED BY <3>1, <3>2
  <2>5. errorCounts' \in [Collections -> 0 .. MaxRefreshes]
    <3>1. \A c \in Collections : errorCounts'[c] \in 0 .. MaxRefreshes
      BY <2>3, <2>4, ErrorsUpToIsFinite, MaxRefreshesAssumption
    <3> QED BY <2>1, <3>1
  <2> QED BY <1>1, <2>1, <2>3, <2>5 DEF Instants
<1> QED BY <1>4, <1>5

(* Lines 66-91: what is exposed is the snapshot and the counters of the moment. *)
LEMMA CollectInv ==
  ASSUME Inv, NEW s \in Scrapers, Collect(s) PROVE Inv'
<1> USE DEF Inv
<1>1. /\ scrape' = [scrape EXCEPT ![s] = "idle"]
      /\ InTheLock(s) /\ CountErrors(s)
      /\ exposed' = [exposed EXCEPT ![s] = Exposition(snapshot[s], errorCounts')]
      /\ observed' = IF snapshot[s].ready THEN observed \cup {snapshot[s].report.checkedAt}
                                          ELSE observed
      /\ UNCHANGED <<ready, up, report, lastError, snapshot, refreshes, published>>
  BY DEF Collect, storeVars
<1>2. /\ lastObserved' \in Instants /\ lastObserved' <= report.checkedAt
      /\ errorCounts' \in [Collections -> 0 .. MaxRefreshes]
      /\ \A c \in Collections :
           /\ errorCounts[c] <= errorCounts'[c]
           /\ errorCounts'[c] <= Cardinality(ErrorsUpTo(c, lastObserved'))
  BY <1>1, CountsInv
<1>3. /\ snapshot[s] \in Snapshots /\ snapshot[s].report \in Reports
      /\ IsCollectionMap(snapshot[s].report.items, Outcomes)
  BY MapsOfCollections DEF TypeOK, Snapshots, Reports, ItemMaps
<1>4. Exposition(snapshot[s], errorCounts')
        \in [up : BOOLEAN, lastSuccess : Instants, errors : CollectionMaps(0 .. MaxRefreshes)]
  <2> DEFINE told == [c \in DOMAIN snapshot[s].report.items |-> errorCounts'[c]]
  <2>1. IsCollectionMap(told, 0 .. MaxRefreshes)
    BY <1>2, <1>3 DEF IsCollectionMap
  <2>2. told \in CollectionMaps(0 .. MaxRefreshes)
    BY <2>1, MapsOfCollections
  <2>3. snapshot[s].up \in BOOLEAN /\ snapshot[s].report.checkedAt \in Instants
    BY <1>3 DEF Snapshots, Reports
  <2> HIDE DEF told
  <2>4. [up |-> snapshot[s].up, lastSuccess |-> snapshot[s].report.checkedAt, errors |-> told]
          \in [up : BOOLEAN, lastSuccess : Instants, errors : CollectionMaps(0 .. MaxRefreshes)]
    BY <2>2, <2>3, Zenon
  <2> QED BY <2>4 DEF Exposition, told
<1>5. TypeOK'
  <2>1. (Snapshot \in Snapshots)'
    BY <1>1 DEF TypeOK, Snapshot
  <2>2. observed' \subseteq Instants
    BY <1>1, <1>3 DEF TypeOK, Reports
  <2> QED BY <1>1, <1>2, <1>4, <2>1, <2>2 DEF TypeOK
<1>6. StoreShowsTheLatestRefresh'
  BY <1>1 DEF StoreShowsTheLatestRefresh, StatusOK, ReadyzOK
<1>7. ScrapeInv'
  <2>1. StoreIsCurrent' /\ SnapshotsAreOfTheStore'
    BY <1>1 DEF ScrapeInv, StoreIsCurrent, SnapshotsAreOfTheStore, IsOfAPublishedReport,
                Snapshot
  <2>2. CountedIsPublished'
    BY <1>1, <1>2 DEF CountedIsPublished
  <2>3. ExposedIsNotAhead'
    <3> SUFFICES ASSUME NEW r \in Scrapers
                 PROVE  /\ exposed'[r].lastSuccess <= snapshot[r].report.checkedAt
                        /\ \A c \in DOMAIN exposed'[r].errors :
                             exposed'[r].errors[c] <= errorCounts'[c]
      BY <1>1 DEF ExposedIsNotAhead
    <3>1. CASE r = s
      <4>1. /\ exposed'[r].lastSuccess = snapshot[s].report.checkedAt
            /\ exposed'[r].errors
                 = [c \in DOMAIN snapshot[s].report.items |-> errorCounts'[c]]
        BY <1>1, <3>1 DEF TypeOK, Exposition
      <4>2. /\ snapshot[s].report.checkedAt \in Instants
            /\ \A c \in DOMAIN snapshot[s].report.items : errorCounts'[c] \in 0 .. MaxRefreshes
        BY <1>2, <1>3 DEF Reports, IsCollectionMap
      <4> QED BY <3>1, <4>1, <4>2, MaxRefreshesAssumption DEF Instants
    <3>2. CASE r # s
      <4>1. exposed'[r] = exposed[r]
        BY <1>1, <3>2 DEF TypeOK
      <4>2. IsCollectionMap(exposed[r].errors, 0 .. MaxRefreshes)
        BY MapsOfCollections DEF TypeOK
      <4>3. \A c \in DOMAIN exposed[r].errors :
              /\ exposed[r].errors[c] \in 0 .. MaxRefreshes /\ c \in Collections
              /\ exposed[r].errors[c] <= errorCounts[c]
              /\ errorCounts[c] \in 0 .. MaxRefreshes /\ errorCounts'[c] \in 0 .. MaxRefreshes
        BY <1>2, <4>2 DEF IsCollectionMap, ScrapeInv, ExposedIsNotAhead, TypeOK
      <4>4. exposed[r].lastSuccess <= snapshot[r].report.checkedAt
        BY DEF ScrapeInv, ExposedIsNotAhead
      <4> QED BY <1>2, <4>1, <4>3, <4>4, MaxRefreshesAssumption
    <3> QED BY <3>1, <3>2
  <2> QED BY <2>1, <2>2, <2>3 DEF ScrapeInv
<1>8. NoErrorIsCountedTwice'
  <2>1. \A c : ErrorsUpTo(c, lastObserved)' = ErrorsUpTo(c, lastObserved')
    BY <1>1 DEF ErrorsUpTo, ReportsWithError
  <2> QED BY <1>2, <2>1 DEF NoErrorIsCountedTwice, ErrorsUpTo
<1>9. LockInv'
  <2>1. \A r \in Scrapers : scrape'[r] = IF r = s THEN "idle" ELSE scrape[r]
    BY <1>1 DEF TypeOK
  <2>2. \A r \in Scrapers : ~InTheLock(r)'
    BY <1>1, <2>1 DEF InTheLock, LockInv, OneInTheLock
  <2> QED BY <2>2 DEF LockInv, OneInTheLock, ComparisonHolds
<1> QED BY <1>5, <1>6, <1>7, <1>8, <1>9

LEMMA StutterInv == Inv /\ UNCHANGED vars => Inv'
BY DEF vars, storeVars, collectorVars, Inv, TypeOK, Snapshot, StoreShowsTheLatestRefresh,
       StatusOK, ReadyzOK, ScrapeInv, StoreIsCurrent, SnapshotsAreOfTheStore,
       IsOfAPublishedReport, CountedIsPublished, ExposedIsNotAhead,
       NoErrorIsCountedTwice, ReportsWithError, LockInv, OneInTheLock, ComparisonHolds,
       InTheLock, IsNewReport

LEMMA StepInv == Inv /\ [Next]_vars => Inv'
BY SuccessInv, FailureInv, SnapshotInv, LockingInv, CollectInv, StutterInv DEF Next

LEMMA ExporterKeepsInv == Spec => []Inv
BY StepInv, InitInv, PTL DEF Spec

-------------------------------------------------------------------------------
(* The counters never exceed the number of checks, and what is exposed is      *)
(* about real collections and instants (collector.go:13-19, 62-90).            *)
THEOREM ExporterTypes == Spec => []TypeOK
<1>1. Inv => TypeOK
  BY DEF Inv
<1> QED BY <1>1, ExporterKeepsInv, PTL

(* However many scrapes overlap, no error is counted twice, and none before    *)
(* its report was reached (collector.go:63-72).                                *)
THEOREM ErrorsAreCountedOnce == Spec => []NoErrorIsCountedTwice
<1>1. Inv => NoErrorIsCountedTwice
  BY DEF Inv
<1> QED BY <1>1, ExporterKeepsInv, PTL

(* The store shows the latest success and the outcome of the latest check      *)
(* (store.go:37-54).                                                           *)
THEOREM StoreIsTheLatestRefresh == Spec => []StoreShowsTheLatestRefresh
<1>1. Inv => StoreShowsTheLatestRefresh
  BY DEF Inv
<1> QED BY <1>1, ExporterKeepsInv, PTL

(* One scraper never sees the last success, or a counter, go back, although    *)
(* others may overtake it between its snapshot and the lock                    *)
(* (collector.go:62-90).                                                       *)
THEOREM ScrapersNeverSeeItGoBack == Spec => ScrapesNeverGoBack
<1> DEFINE Ahead(s) ==
      /\ exposed[s].lastSuccess <= exposed'[s].lastSuccess
      /\ \A c \in DOMAIN exposed[s].errors \cap DOMAIN exposed'[s].errors :
           exposed[s].errors[c] <= exposed'[s].errors[c]
<1>1. ASSUME Inv, NEW s \in Scrapers, exposed'[s] = exposed[s] PROVE Ahead(s)
  <2>1. exposed[s].lastSuccess \in Instants
        /\ IsCollectionMap(exposed[s].errors, 0 .. MaxRefreshes)
    BY <1>1, MapsOfCollections DEF Inv, TypeOK
  <2> QED BY <1>1, <2>1, MaxRefreshesAssumption DEF Instants, IsCollectionMap
<1>2. ASSUME Inv, NEW s \in Scrapers, Collect(s) PROVE Ahead(s)
  <2>1. exposed'[s] = Exposition(snapshot[s], errorCounts')
    BY <1>2 DEF Collect, Inv, TypeOK
  <2>2. /\ exposed[s].lastSuccess <= exposed'[s].lastSuccess
        /\ \A c \in DOMAIN exposed'[s].errors : exposed'[s].errors[c] = errorCounts'[c]
    BY <1>2, <2>1 DEF Exposition, Inv, ScrapeInv, ExposedIsNotAhead
  <2>3. ASSUME NEW c \in DOMAIN exposed[s].errors, c \in DOMAIN exposed'[s].errors
        PROVE  exposed[s].errors[c] <= exposed'[s].errors[c]
    <3>1. c \in Collections /\ exposed[s].errors[c] \in 0 .. MaxRefreshes
      <4>1. IsCollectionMap(exposed[s].errors, 0 .. MaxRefreshes)
        BY <1>2, MapsOfCollections DEF Inv, TypeOK
      <4> QED BY <4>1 DEF IsCollectionMap
    <3>2. errorCounts[c] <= errorCounts'[c] /\ errorCounts[c] \in 0 .. MaxRefreshes
          /\ errorCounts'[c] \in 0 .. MaxRefreshes
      BY <1>2, <3>1, CountsInv DEF Collect, Inv, TypeOK
    <3>3. exposed[s].errors[c] <= errorCounts[c]
      BY <1>2 DEF Inv, ScrapeInv, ExposedIsNotAhead
    <3> QED BY <2>2, <2>3, <3>1, <3>2, <3>3, MaxRefreshesAssumption
  <2> QED BY <2>2, <2>3
<1>3. ASSUME Inv, [Next]_vars, NEW s \in Scrapers PROVE Ahead(s)
  <2>1. CASE exposed'[s] = exposed[s]
    BY <1>1, <1>3, <2>1
  <2>2. CASE exposed'[s] # exposed[s]
    <3>1. PICK r \in Scrapers : Collect(r)
      BY <1>3, <2>2 DEF Next, vars, RefreshSucceeds, RefreshFails, TakeSnapshot,
                                Lock
    <3>2. r = s
      BY <1>3, <2>2, <3>1 DEF Collect, Inv, TypeOK
    <3> QED BY <1>2, <1>3, <3>1, <3>2
  <2> QED BY <2>1, <2>2
<1>4. Inv /\ [Next]_vars => [\A s \in Scrapers : Ahead(s)]_vars
  BY <1>3
<1> QED BY <1>4, ExporterKeepsInv, PTL DEF Spec, ScrapesNeverGoBack

-------------------------------------------------------------------------------
(* What one scraper is told.  Two of them can make the help text of the error  *)
(* counter untrue: the older snapshot comes to the lock second, and its report *)
(* is passed over.  With one, a snapshot is never older than lastObserved.     *)
ObservedUpToTheLast ==
  /\ \A t \in observed : t <= lastObserved
  /\ lastObserved # ZeroTime => lastObserved \in observed

NotOvertaken == \A s \in Scrapers : lastObserved <= snapshot[s].report.checkedAt

SingleInv == Inv /\ ObservedUpToTheLast /\ NotOvertaken /\ ObservedErrorsAreCounted

LEMMA SingleInitially == Init => SingleInv
<1> SUFFICES ASSUME Init PROVE SingleInv
  OBVIOUS
<1>1. /\ lastObserved = 0 /\ observed = {}
      /\ errorCounts = [c \in Collections |-> 0]
      /\ \A s \in Scrapers : snapshot[s].report.checkedAt = 0
  BY SnapshotFields DEF Init, StoreInit, EmptyReport, ZeroTime
<1>2. \A c : Cardinality(ReportsWithError(c) \cap observed) = 0
  BY <1>1, FS_EmptySet
<1> QED BY <1>1, <1>2, InitInv
     DEF SingleInv, ObservedUpToTheLast, NotOvertaken, ObservedErrorsAreCounted, ZeroTime

(* A refresh publishes a report that no scrape has been through.               *)
LEMMA RefreshKeepsSingle ==
  ASSUME SingleInv, (\E items \in ItemMaps : RefreshSucceeds(items)) \/ RefreshFails
  PROVE  ObservedUpToTheLast' /\ NotOvertaken' /\ ObservedErrorsAreCounted'
<1>1. UNCHANGED <<lastObserved, errorCounts, observed, snapshot>>
  BY DEF RefreshSucceeds, RefreshFails, collectorVars
<1>2. /\ lastObserved <= report.checkedAt /\ report.checkedAt <= refreshes
      /\ lastObserved \in Nat /\ report.checkedAt \in Nat /\ refreshes \in Nat
      /\ observed \subseteq Nat
  BY StoreTypes, MaxRefreshesAssumption
     DEF SingleInv, Inv, ScrapeInv, CountedIsPublished, StoreIsCurrent, TypeOK, Reports,
         Instants
<1>3. \A t \in observed : t < refreshes + 1
  BY <1>2 DEF SingleInv, ObservedUpToTheLast
<1>4. \A t \in Instants \ {refreshes + 1} : published'[t] = published[t]
  BY DEF RefreshSucceeds, RefreshFails, SingleInv, Inv, TypeOK
<1>5. ASSUME NEW c
      PROVE  ReportsWithError(c)' \cap observed = ReportsWithError(c) \cap observed
  <2>1. \A t \in 1 .. MaxRefreshes : t \in Instants
    BY MaxRefreshesAssumption DEF Instants
  <2>2. \A t \in observed : t # refreshes + 1
    BY <1>2, <1>3
  <2>3. \A t \in observed \cap (1 .. MaxRefreshes) : published'[t] = published[t]
    BY <1>4, <2>1, <2>2
  <2> QED BY <2>3 DEF ReportsWithError
<1> QED BY <1>1, <1>5
     DEF SingleInv, ObservedUpToTheLast, NotOvertaken, ObservedErrorsAreCounted

LEMMA TakingKeepsSingle ==
  ASSUME SingleInv, NEW s \in Scrapers, TakeSnapshot(s)
  PROVE  ObservedUpToTheLast' /\ NotOvertaken' /\ ObservedErrorsAreCounted'
<1>1. /\ snapshot' = [snapshot EXCEPT ![s] = Snapshot]
      /\ UNCHANGED <<lastObserved, errorCounts, observed, published>>
  BY DEF TakeSnapshot, collectorVars
<1>2. lastObserved <= Snapshot.report.checkedAt
  BY SnapshotFields DEF SingleInv, Inv, ScrapeInv, CountedIsPublished
<1>3. \A r \in Scrapers : snapshot'[r] = IF r = s THEN Snapshot ELSE snapshot[r]
  BY <1>1 DEF SingleInv, Inv, TypeOK
<1>4. NotOvertaken'
  BY <1>1, <1>2, <1>3 DEF SingleInv, NotOvertaken
<1> QED BY <1>1, <1>4
     DEF SingleInv, ObservedUpToTheLast, ObservedErrorsAreCounted, ReportsWithError

(* The report of the only scraper is the last one that was counted, or newer,  *)
(* and then none of those that were observed.                                  *)
LEMMA CollectKeepsSingle ==
  ASSUME SingleInv, \A r, t \in Scrapers : r = t, NEW s \in Scrapers, Collect(s)
  PROVE  ObservedUpToTheLast' /\ NotOvertaken' /\ ObservedErrorsAreCounted'
<1> DEFINE snap == snapshot[s]
           at   == snap.report.checkedAt
<1>1. /\ CountErrors(s) /\ (scrape[s] = "counting" <=> IsNewReport(snap))
      /\ UNCHANGED <<snapshot, published>>
      /\ observed' = IF snap.ready THEN observed \cup {at} ELSE observed
  BY DEF Collect, SingleInv, Inv, LockInv, ComparisonHolds
<1>2. /\ lastObserved \in Nat /\ at \in Nat /\ at <= MaxRefreshes
      /\ observed \subseteq Nat /\ lastObserved <= at
      /\ \A t \in observed : t <= lastObserved
      /\ lastObserved # 0 => lastObserved \in observed
      /\ errorCounts \in [Collections -> Nat]
  <2>1. at \in 0 .. MaxRefreshes
    BY DEF SingleInv, Inv, TypeOK, Snapshots, Reports, Instants
  <2>2. /\ lastObserved \in 0 .. MaxRefreshes /\ observed \subseteq 0 .. MaxRefreshes
        /\ errorCounts \in [Collections -> 0 .. MaxRefreshes]
    BY DEF SingleInv, Inv, TypeOK, Instants
  <2> QED BY <2>1, <2>2, MaxRefreshesAssumption
       DEF SingleInv, ObservedUpToTheLast, NotOvertaken, ZeroTime
<1>3. snap.ready => at > 0 /\ snap.report.items = published[at]
  BY DEF SingleInv, Inv, ScrapeInv, SnapshotsAreOfTheStore, IsOfAPublishedReport
<1>4. \A r \in Scrapers : snapshot'[r].report.checkedAt = at
  BY <1>1
<1>5. CASE ~IsNewReport(snap)
  <2>1. UNCHANGED <<errorCounts, lastObserved>>
    BY <1>1, <1>5 DEF CountErrors
  <2>2. observed' = observed
    <3>1. snap.ready => at = lastObserved
      BY <1>2, <1>5 DEF IsNewReport
    <3> QED BY <1>1, <1>2, <1>3, <3>1
  <2> QED BY <1>1, <2>1, <2>2
       DEF SingleInv, ObservedUpToTheLast, NotOvertaken, ObservedErrorsAreCounted,
           ReportsWithError
<1>6. CASE IsNewReport(snap)
  <2>1. /\ snap.ready /\ at > lastObserved /\ lastObserved' = at
        /\ errorCounts' = [c \in Collections |->
             IF c \in Errored(snap.report.items) THEN errorCounts[c] + 1
                                                 ELSE errorCounts[c]]
    BY <1>1, <1>6 DEF CountErrors, IsNewReport
  <2>2. observed' = observed \cup {at} /\ at \notin observed
    BY <1>1, <1>2, <2>1
  <2>3. ObservedUpToTheLast' /\ NotOvertaken'
    <3>1. ObservedUpToTheLast'
      BY <1>2, <2>1, <2>2 DEF ObservedUpToTheLast, ZeroTime
    <3>2. NotOvertaken'
      BY <1>2, <1>4, <2>1 DEF NotOvertaken
    <3> QED BY <3>1, <3>2
  <2>4. ASSUME NEW c \in Collections
        PROVE  errorCounts'[c] = Cardinality(ReportsWithError(c) \cap observed')
    <3> DEFINE before == ReportsWithError(c) \cap observed
    <3>1. IsFiniteSet(before)
      <4>1. IsFiniteSet(1 .. MaxRefreshes)
        BY FS_Interval, MaxRefreshesAssumption
      <4>2. before \subseteq 1 .. MaxRefreshes
        BY DEF ReportsWithError
      <4> QED BY <4>1, <4>2, FS_Subset
    <3>2. errorCounts[c] = Cardinality(before)
      BY DEF SingleInv, ObservedErrorsAreCounted
    <3>3. at \in ReportsWithError(c) <=> c \in Errored(snap.report.items)
      BY <1>2, <1>3, <2>1 DEF ReportsWithError, Errored
    <3>4. CASE c \in Errored(snap.report.items)
      <4>1. ReportsWithError(c) \cap observed' = before \cup {at}
        BY <2>2, <3>3, <3>4
      <4>2. at \notin before
        BY <2>2
      <4>3. Cardinality(before \cup {at}) = Cardinality(before) + 1
        BY <3>1, <4>2, FS_AddElement
      <4> QED BY <2>1, <3>2, <3>4, <4>1, <4>3
    <3>5. CASE c \notin Errored(snap.report.items)
      <4>1. ReportsWithError(c) \cap observed' = before
        BY <2>2, <3>3, <3>5
      <4> QED BY <2>1, <3>2, <3>5, <4>1
    <3> QED BY <3>4, <3>5
  <2>5. \A c : ReportsWithError(c)' = ReportsWithError(c)
    BY <1>1 DEF ReportsWithError
  <2> QED BY <2>3, <2>4, <2>5 DEF ObservedErrorsAreCounted
<1> QED BY <1>5, <1>6

(* As long as one client scrapes /metrics, every report it is served is in the *)
(* error counters, as their help text says (collector.go:44, 62-72).  It is    *)
(* with the second client that reports are lost.                               *)
THEOREM OneScraperIsToldAll ==
  ASSUME \A r, t \in Scrapers : r = t PROVE Spec => []ObservedErrorsAreCounted
<1>1. SingleInv /\ [Next]_vars => SingleInv'
  <2> SUFFICES ASSUME SingleInv, [Next]_vars PROVE SingleInv'
    OBVIOUS
  <2>1. Inv'
    BY StepInv DEF SingleInv
  <2>2. CASE UNCHANGED vars
    BY <2>1, <2>2 DEF vars, collectorVars, SingleInv, ObservedUpToTheLast, NotOvertaken,
         ObservedErrorsAreCounted, ReportsWithError
  <2>3. ASSUME NEW s \in Scrapers, TakeSnapshot(s) \/ Collect(s) PROVE SingleInv'
    BY <2>1, <2>3, TakingKeepsSingle, CollectKeepsSingle DEF SingleInv
  <2>4. ASSUME NEW s \in Scrapers, Lock(s) PROVE SingleInv'
    BY <2>1, <2>4 DEF Lock, collectorVars, SingleInv, ObservedUpToTheLast, NotOvertaken,
         ObservedErrorsAreCounted, ReportsWithError
  <2> QED BY <2>1, <2>2, <2>3, <2>4, RefreshKeepsSingle DEF Next, SingleInv
<1>2. SingleInv => ObservedErrorsAreCounted
  BY DEF SingleInv
<1> QED BY <1>1, <1>2, SingleInitially, PTL DEF Spec

===============================================================================
