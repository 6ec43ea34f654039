------------------------------- MODULE StatusPoll -------------------------------
(***************************************************************************)
(* How the page follows the status of the server: the countdown, the       *)
(* refresh button and refresh() with its single flight                     *)
(* (internal/dashboard/assets/app.js:28-32, 173-223, 252-259), against     *)
(* GET /api/status (internal/dashboard/handler.go:151-171) over the        *)
(* StatusStore of a server that checks, fails and restarts.                *)
(*                                                                         *)
(* A request can fail at any time: it is lost, refused, or its answer is   *)
(* not JSON.  fetch has no timeout of its own.  The table and the summary  *)
(* of the page are left out (CollectionTable has the table).               *)
(***************************************************************************)
EXTENDS StatusStore

CONSTANTS
  Interval,       \* refresh_interval_seconds of the server
  FirstInterval,  \* intervalSeconds until a status has arrived; 30 in the code
  MaxFlights,     \* bound: the requests that can be under way
  MaxClock,       \* bound: the last instant; it stands for all the later ones
  MaxBoots        \* bound: how many server processes there are

ASSUME IntervalAssumption ==
  Interval \in Nat \ {0} /\ FirstInterval \in Nat \ {0}
ASSUME BoundsAssumption ==
  MaxFlights \in Nat \ {0} /\ MaxClock \in Nat \ {0} /\ MaxBoots \in Nat \ {0}

VARIABLES
  clock,             \* the current instant, for the server and the browser
  boot,              \* external: which server process answers
  remainingSeconds,
  intervalSeconds,
  refreshing,
  flights,           \* external: what each request is: free, asked, or its answer
  lastStatus,        \* the status on the page, NoStatus before the first
  errorBanner,       \* "hidden", "last_error" or "request failed"
  staleBanner        \* is it visible?

serverVars == <<storeVars, boot>>
pageVars   == <<remainingSeconds, intervalSeconds, refreshing, flights, lastStatus,
                errorBanner, staleBanner>>
pollVars == <<clock, serverVars, pageVars>>

Instants == 1 .. MaxClock
Slots    == 1 .. MaxFlights

(* The answer of /api/status; `boot` is not in it, it says whose it is. *)
Statuses == [boot : 1 .. MaxBoots, ready : BOOLEAN, up : BOOLEAN,
             checkedAt : Instants \cup {ZeroTime}, lastError : {NoError, "failed"}]

NoStatus == [boot |-> 0, ready |-> FALSE, up |-> FALSE,
             checkedAt |-> ZeroTime, lastError |-> NoError]

Free  == [NoStatus EXCEPT !.boot = -1]
Asked == [NoStatus EXCEPT !.boot = -2]

(* Type invariant: the countdown never leaves 1 to intervalSeconds, and the *)
(* page shows a status a server has given (app.js:28-31, 173-176, 252-257). *)
PollTypeOK ==
  /\ clock \in Instants
  /\ boot \in 1 .. MaxBoots
  /\ ready \in BOOLEAN /\ up \in BOOLEAN /\ lastError \in {NoError, "failed"}
  /\ report.checkedAt \in Instants \cup {ZeroTime}
  /\ intervalSeconds \in {Interval, FirstInterval}
  /\ remainingSeconds \in 1 .. intervalSeconds
  /\ refreshing \in BOOLEAN
  /\ flights \in [Slots -> Statuses \cup {Free, Asked}]
  /\ lastStatus \in Statuses \cup {NoStatus}
  /\ errorBanner \in {"hidden", "last_error", "request failed"}
  /\ staleBanner \in BOOLEAN

(* The page is loaded, and asks at once (line 550). *)
PollInit ==
  /\ StoreInit
  /\ clock = 1 /\ boot = 1
  /\ remainingSeconds = FirstInterval /\ intervalSeconds = FirstInterval
  /\ refreshing = TRUE
  /\ flights = [f \in Slots |-> IF f = 1 THEN Asked ELSE Free]
  /\ lastStatus = NoStatus
  /\ errorBanner = "hidden" /\ staleBanner = FALSE

-------------------------------------------------------------------------------
Tick ==
  /\ clock < MaxClock
  /\ clock' = clock + 1
  /\ UNCHANGED <<serverVars, pageVars>>

(* The refresh loop of the server, at any pace: a check takes its time. *)
CheckEnds ==
  /\ \/ \E at \in 1 .. clock : Publishes([checkedAt |-> at, items |-> EmptyMap])
     \/ SetFailure("failed")
  /\ UNCHANGED <<clock, boot, pageVars>>

ServerRestarts ==
  /\ boot < MaxBoots
  /\ boot' = boot + 1
  /\ ready' = FALSE /\ up' = FALSE
  /\ report' = EmptyReport /\ lastError' = NoError
  /\ UNCHANGED <<clock, pageVars>>

(* serveStatus.  The status code, 503 before the first success, is ignored by *)
(* the page.                                                                  *)
ServerAnswers(f) ==
  /\ flights[f] = Asked
  /\ flights' = [flights EXCEPT ![f] =
       [boot |-> boot, ready |-> ready, up |-> up,
        checkedAt |-> report.checkedAt, lastError |-> lastError]]
  /\ UNCHANGED <<clock, serverVars, remainingSeconds, intervalSeconds, refreshing,
                 lastStatus, errorBanner, staleBanner>>

Ask ==
  \E f \in Slots :
    /\ flights[f] = Free
    /\ flights' = [flights EXCEPT ![f] = Asked]
    /\ refreshing' = TRUE

(* Mutant: refresh() asks although a request is under way. *)
RefreshUnguarded ==
  IF \A f \in Slots : flights[f] # Free THEN UNCHANGED <<refreshing, flights>> ELSE Ask

(* refresh(), up to its first await. *)
Refresh == IF refreshing THEN UNCHANGED <<refreshing, flights>> ELSE Ask

ClickRefresh ==
  /\ Refresh
  /\ UNCHANGED <<clock, serverVars, remainingSeconds, intervalSeconds, lastStatus,
                 errorBanner, staleBanner>>

(* The interval timer, once a second or, in a hidden tab, less often. *)
CountDown ==
  /\ IF remainingSeconds <= 1
       THEN remainingSeconds' = intervalSeconds /\ Refresh
       ELSE /\ remainingSeconds' = remainingSeconds - 1
            /\ UNCHANGED <<refreshing, flights>>
  /\ UNCHANGED <<clock, serverVars, intervalSeconds, lastStatus, errorBanner,
                 staleBanner>>

(* Mutant: only a server whose checks fail is stale. *)
IsStaleIfDown(status) == ~status.up /\ clock - status.checkedAt > 2 * Interval

(* Line 197.  The zero time.Time is a valid Date, in the year 1. *)
IsStale(status) ==
  status.checkedAt = ZeroTime \/ clock - status.checkedAt > 2 * Interval

(* Lines 207-209 and 220: renderStatus. *)
ResponseArrives(f) ==
  /\ flights[f] \in Statuses
  /\ lastStatus' = flights[f]
  /\ intervalSeconds' = Interval /\ remainingSeconds' = Interval
  /\ errorBanner' = IF flights[f].lastError = NoError THEN "hidden" ELSE "last_error"
  /\ staleBanner' = IsStale(flights[f])
  /\ refreshing' = FALSE
  /\ flights' = [flights EXCEPT ![f] = Free]
  /\ UNCHANGED <<clock, serverVars>>

(* Mutant: without the `finally`. *)
StillBusy == refreshing

(* Line 220. *)
Finally == FALSE

(* Lines 210-213 and 220. *)
RequestFails(f) ==
  /\ flights[f] # Free
  /\ errorBanner' = "request failed"
  /\ refreshing' = Finally
  /\ flights' = [flights EXCEPT ![f] = Free]
  /\ UNCHANGED <<clock, serverVars, remainingSeconds, intervalSeconds, lastStatus,
                 staleBanner>>

Settles == \E f \in Slots : ResponseArrives(f) \/ RequestFails(f)

PollNext ==
  \/ Tick \/ CheckEnds \/ ServerRestarts
  \/ ClickRefresh \/ CountDown
  \/ \E f \in Slots : ServerAnswers(f) \/ ResponseArrives(f) \/ RequestFails(f)

PollSpec == PollInit /\ [][PollNext]_pollVars

(* Time passes, the interval timer fires, and a request is answered or given  *)
(* up by the browser.                                                         *)
FairPollSpec ==
  PollSpec /\ WF_pollVars(Tick) /\ WF_pollVars(CountDown) /\ WF_pollVars(Settles)

(* And a server that is asked again and again is reached some time.           *)
ReachablePollSpec ==
  /\ FairPollSpec
  /\ SF_pollVars(\E f \in Slots : ServerAnswers(f))
  /\ SF_pollVars(\E f \in Slots : ResponseArrives(f))

-------------------------------------------------------------------------------
(* The page never replaces a status by an older one: not by an answer that was *)
(* overtaken, whatever the button and the timer do, nor by one of a server     *)
(* process that is gone.  It holds because one request is under way at a time  *)
(* (app.js:204-205, 220).                                                      *)
DisplayNeverGoesBack ==
  [][\/ lastStatus'.boot > lastStatus.boot
     \/ /\ lastStatus'.boot = lastStatus.boot
        /\ lastStatus'.checkedAt >= lastStatus.checkedAt]_lastStatus

(* Every report the server publishes is eventually on the page, or a later     *)
(* one, as long as some requests get through: failed requests do not stop the  *)
(* polling, nor does a click while a request is under way (app.js:203-222,     *)
(* 252-257).                                                                   *)
ReportsAreEventuallyShown ==
  \A t \in Instants : \A b \in 1 .. MaxBoots :
    (boot = b /\ report.checkedAt = t) ~>
      lastStatus.boot > b \/ (lastStatus.boot = b /\ lastStatus.checkedAt >= t)

(* A status that stays on the page until it is older than two intervals is     *)
(* marked as stale: docs/superpowers/specs/2026-08-17-embedded-dashboard-      *)
(* design.md:99, app.js:197.                                                   *)
StaleDataIsMarked ==
  \A t \in {i \in Instants : i + 2 * Interval < MaxClock} :
    lastStatus.checkedAt = t ~> staleBanner \/ lastStatus.checkedAt # t

===============================================================================
