------------------------------- MODULE Exporter -------------------------------
(***************************************************************************)
(* The Prometheus exporter (internal/exporter/collector.go) over the       *)
(* status store.  The refresh loop is the only writer of the store; any    *)
(* number of scrapes of /metrics may run at once, since promhttp does not  *)
(* bound them.  Collect takes its snapshot BEFORE it locks c.mu (lines     *)
(* 62-63), so that a newer scrape can overtake it in between; and what it  *)
(* has found of lastObserved it acts on in a step of its own (lines 65,    *)
(* 66-71), which only the lock keeps others out of.                        *)
(***************************************************************************)
EXTENDS StatusStore, Sequences, FiniteSets

CONSTANTS
  Scrapers,      \* the clients that scrape /metrics, each one request at a time
  MaxRefreshes   \* bound: how many checks the loop completes

ASSUME MaxRefreshesAssumption == MaxRefreshes \in Nat

VARIABLES
  lastObserved,  \* c.lastObserved
  errorCounts,   \* c.errorCounts; a missing key reads as 0
  scrape,        \* per scraper: "idle", "snapped" between lines 62 and 63, and in
                 \* the lock "counting", if the report is new, or "exposing"
  snapshot,      \* per scraper: its snapshot
  exposed,       \* per scraper: what its latest scrape answered
  refreshes,     \* how many checks have completed
  published,     \* history: the items of every successful report, by checkedAt
  observed       \* history: checkedAt of the reports that Collect went through

collectorVars == <<lastObserved, errorCounts, observed>>
vars == <<storeVars, collectorVars, scrape, snapshot, exposed, refreshes, published>>

(* One item of a report, as far as the error counters tell it: inspected, with *)
(* or without warnings, or not (item.Error # "").                              *)
Outcomes == {"inspected", "error"}

ItemMaps == CollectionMaps(Outcomes)
Instants == 0 .. MaxRefreshes
Reports  == [checkedAt : Instants, items : ItemMaps]
Snapshots ==
  [ready : BOOLEAN, up : BOOLEAN, report : Reports, lastError : {NoError, "failed"}]

NoExposition == [up |-> FALSE, lastSuccess |-> ZeroTime, errors |-> EmptyMap]

(* Type invariant: the counters stay within the number of checks, and the *)
(* collector keys and dates what it exposes by real reports               *)
(* (collector.go:13-19).                                                  *)
TypeOK ==
  /\ Snapshot \in Snapshots
  /\ lastObserved \in Instants
  /\ errorCounts \in [Collections -> 0 .. MaxRefreshes]
  /\ scrape \in [Scrapers -> {"idle", "snapped", "counting", "exposing"}]
  /\ snapshot \in [Scrapers -> Snapshots]
  /\ exposed \in [Scrapers -> [up : BOOLEAN, lastSuccess : Instants,
                               errors : CollectionMaps(0 .. MaxRefreshes)]]
  /\ refreshes \in 0 .. MaxRefreshes
  /\ published \in [Instants -> ItemMaps]
  /\ observed \subseteq Instants

Init ==
  /\ StoreInit
  /\ lastObserved = ZeroTime
  /\ errorCounts = [c \in Collections |-> 0]
  /\ scrape = [s \in Scrapers |-> "idle"]
  /\ snapshot = [s \in Scrapers |-> Snapshot]
  /\ exposed = [s \in Scrapers |-> NoExposition]
  /\ refreshes = 0
  /\ published = [t \in Instants |-> EmptyMap]
  /\ observed = {}

-------------------------------------------------------------------------------
(* The refresh loop: each check starts after the previous one has ended, so the *)
(* n-th check has a later CheckedAt than all before it.                         *)
RefreshSucceeds(items) ==
  /\ refreshes < MaxRefreshes
  /\ refreshes' = refreshes + 1
  /\ SetSuccess([checkedAt |-> refreshes + 1, items |-> items])
  /\ published' = [published EXCEPT ![refreshes + 1] = items]
  /\ UNCHANGED <<collectorVars, scrape, snapshot, exposed>>

RefreshFails ==
  /\ refreshes < MaxRefreshes
  /\ refreshes' = refreshes + 1
  /\ SetFailure("failed")
  /\ UNCHANGED <<collectorVars, scrape, snapshot, exposed, published>>

(* Line 62. *)
TakeSnapshot(s) ==
  /\ scrape[s] = "idle"
  /\ scrape' = [scrape EXCEPT ![s] = "snapped"]
  /\ snapshot' = [snapshot EXCEPT ![s] = Snapshot]
  /\ UNCHANGED <<storeVars, collectorVars, exposed, refreshes, published>>

Errored(items) == {c \in DOMAIN items : items[c] = "error"}

(* Mutant: any report but the last one counts. *)
IsOtherReport(snap) == snap.ready /\ snap.report.checkedAt # lastObserved

(* Line 65. *)
IsNewReport(snap) == snap.ready /\ snap.report.checkedAt > lastObserved

InTheLock(s) == scrape[s] \in {"counting", "exposing"}

(* Mutant: no lock. *)
NoLock == TRUE

(* c.mu can be had. *)
LockIsFree == \A s \in Scrapers : ~InTheLock(s)

(* Lines 63-65. *)
Lock(s) ==
  /\ scrape[s] = "snapped" /\ LockIsFree
  /\ scrape' = [scrape EXCEPT ![s] = IF IsNewReport(snapshot[s]) THEN "counting"
                                                                 ELSE "exposing"]
  /\ UNCHANGED <<storeVars, collectorVars, snapshot, exposed, refreshes, published>>

(* Lines 66-71: a report newer than the last one counted adds its errors. *)
CountErrors(s) ==
  IF scrape[s] = "counting"
    THEN /\ errorCounts' = [c \in Collections |->
              IF c \in Errored(snapshot[s].report.items) THEN errorCounts[c] + 1
                                                         ELSE errorCounts[c]]
         /\ lastObserved' = snapshot[s].report.checkedAt
    ELSE UNCHANGED <<errorCounts, lastObserved>>

(* Lines 74-90: the samples that depend on the snapshot and on the counts. *)
Exposition(snap, counts) ==
  [up |-> snap.up,
   lastSuccess |-> snap.report.checkedAt,
   errors |-> [c \in DOMAIN snap.report.items |-> counts[c]]]

(* Lines 66-91, to the unlocking. *)
Collect(s) ==
  /\ InTheLock(s)
  /\ scrape' = [scrape EXCEPT ![s] = "idle"]
  /\ CountErrors(s)
  /\ exposed' = [exposed EXCEPT ![s] = Exposition(snapshot[s], errorCounts')]
  /\ observed' = IF snapshot[s].ready THEN observed \cup {snapshot[s].report.checkedAt}
                                      ELSE observed
  /\ UNCHANGED <<storeVars, snapshot, refreshes, published>>

Next ==
  \/ \E items \in ItemMaps : RefreshSucceeds(items)
  \/ RefreshFails
  \/ \E s \in Scrapers : TakeSnapshot(s) \/ Lock(s) \/ Collect(s)

Spec == Init /\ [][Next]_vars

-------------------------------------------------------------------------------
(* The reports in which c could not be inspected. *)
ReportsWithError(c) ==
  {t \in 1 .. MaxRefreshes : c \in DOMAIN published[t] /\ published[t][c] = "error"}

(* However many scrapes overlap, a report never raises the error counter of a  *)
(* collection twice, and one that Collect has not reached yet never does: the  *)
(* check on lastObserved and its update are under one lock (lines 63-72).      *)
NoErrorIsCountedTwice ==
  \A c \in Collections :
    errorCounts[c] <= Cardinality({t \in ReportsWithError(c) : t <= lastObserved})

(* Every report a scrape has gone through is in the error counters: what the   *)
(* help text of the counter promises (line 44).  True of a single scraper.     *)
ObservedErrorsAreCounted ==
  \A c \in Collections :
    errorCounts[c] = Cardinality(ReportsWithError(c) \cap observed)

(* One client, scraping again and again, never sees the last success go back,  *)
(* nor a counter that it has seen before, although its two snapshots may have  *)
(* been overtaken by those of others (lines 62-90).                            *)
ScrapesNeverGoBack ==
  [][\A s \in Scrapers :
       /\ exposed[s].lastSuccess <= exposed'[s].lastSuccess
       /\ \A c \in DOMAIN exposed[s].errors \cap DOMAIN exposed'[s].errors :
            exposed[s].errors[c] <= exposed'[s].errors[c]]_vars

(* The store shows the latest successful report and the result of the latest   *)
(* check, whatever failures came in between (store.go:37-54).                  *)
StoreShowsTheLatestRefresh ==
  /\ StatusOK => report.items = published[report.checkedAt]
  /\ \A t \in Instants : t > report.checkedAt => published[t] = EmptyMap
  /\ ReadyzOK <=> (refreshes > 0 /\ report.checkedAt = refreshes)
  /\ lastError = NoError <=> report.checkedAt = refreshes

===============================================================================
