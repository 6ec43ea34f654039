----------------------------- MODULE AlertTracker -----------------------------
(***************************************************************************)
(* The persistent-loading alert (internal/alert/tracker.go).               *)
(*                                                                         *)
(* Tracker.Evaluate runs once after every successful check, under t.mu: it *)
(* starts and clears timers, collects the notifications that are due into  *)
(* one batch, and holds the lock while the batch is sent.  Between the     *)
(* moment `now` is read and the moment the webhook answers, time passes    *)
(* and the process may die, so Evaluate is two actions: EvaluateBegin      *)
(* (lines 53-102, or the early return at 96) and NotifyReturn (103-112).   *)
(*                                                                         *)
(* Instants are positive integers; 0 is the zero time.Time that            *)
(* lastSentAt.IsZero() tests for.                                          *)
(***************************************************************************)
EXTENDS Integers, FiniteSets, Domain

CONSTANTS
  ReportedStates,  \* the load states a report may show
  LoadingTimeout,  \* cfg.Alert.LoadingTimeout
  RepeatInterval,  \* cfg.Alert.RepeatInterval
  MaxClock         \* bound: the last instant; it stands for all the later ones

(* config.Validate rejects an enabled alert whose durations are not positive. *)
ASSUME DurationsAssumption ==
  /\ LoadingTimeout \in Nat \ {0}
  /\ RepeatInterval \in Nat \ {0}
ASSUME ClockAssumption == MaxClock \in Nat \ {0}
ASSUME ReportAssumption == ReportedStates \subseteq LoadStates

VARIABLES
  clock,        \* t.now()
  states,       \* t.states: the loading state of every tracked collection
  phase,        \* "idle", or "notifying" while NotifyBatch is running
  evaluatedAt,  \* the `now` of the current or last Evaluate
  pending,      \* the batch handed to NotifyBatch
  inbox,        \* external: the notifications Feishu has shown, and their fate
  evaluations   \* history: what every Evaluate of this process was told

vars == <<clock, states, phase, evaluatedAt, pending, inbox, evaluations>>

Instants == 1 .. MaxClock

LoadingState == [startedAt : Instants, lastSentAt : Instants \cup {ZeroTime}]

Notification == [collection : Collections, since : Instants, at : Instants,
                 repeated : BOOLEAN]

Delivery == [message : Notification, acknowledged : BOOLEAN]

Evaluation == [at : Instants, loading : SUBSET Collections]

(* report.Collections: some collections, each in some load state. *)
Reports == CollectionMaps(ReportedStates)

NoStates == EmptyMap

(* Type invariant: an instant per running timer (0 only for "never sent"), *)
(* and a batch of well-formed notifications (tracker.go:16-43).            *)
TypeOK ==
  /\ clock \in Instants
  /\ IsCollectionMap(states, LoadingState)
  /\ phase \in {"idle", "notifying"}
  /\ evaluatedAt \in Instants \cup {ZeroTime}
  /\ pending \in SUBSET Notification
  /\ inbox \in SUBSET Delivery
  /\ evaluations \in SUBSET Evaluation

Init ==
  /\ clock = 1
  /\ states = NoStates
  /\ phase = "idle"
  /\ evaluatedAt = ZeroTime
  /\ pending = {}
  /\ inbox = {}
  /\ evaluations = {}

-------------------------------------------------------------------------------
(* The collections a report shows loading: the set `active` of Evaluate. *)
Active(report) == {c \in DOMAIN report : report[c] = LoadStateLoading}

(* Mutant: the repeat interval is forgotten. *)
DueIgnoringRepeats(state, now) == now - state.startedAt >= LoadingTimeout

(* Line 80, read as its negation: the timeout has elapsed and no acknowledged *)
(* alert of this timer is more recent than the repeat interval.               *)
Due(state, now) ==
  /\ now - state.startedAt >= LoadingTimeout
  /\ state.lastSentAt # ZeroTime => now - state.lastSentAt >= RepeatInterval

(* Mutant: a new timer is an empty loadingState. *)
RetimedWithoutInstant(report, now) ==
  [c \in Active(report) |->
     IF c \in DOMAIN states
       THEN states[c]
       ELSE [startedAt |-> ZeroTime, lastSentAt |-> ZeroTime]]

(* Mutant: no timer is ever cleared. *)
RetimedWithoutClearing(report, now) ==
  [c \in Active(report) \cup DOMAIN states |->
     IF c \in DOMAIN states
       THEN states[c]
       ELSE [startedAt |-> now, lastSentAt |-> ZeroTime]]

(* The map after both loops: a collection that is not loading any more, or is *)
(* missing from the report, loses its timer; a new one starts at `now`.       *)
Retimed(report, now) ==
  [c \in Active(report) |->
     IF c \in DOMAIN states
       THEN states[c]
       ELSE [startedAt |-> now, lastSentAt |-> ZeroTime]]

(* The batch: only collections that were tracked before this evaluation. *)
Batch(report, now) ==
  {[collection |-> c, since |-> states[c].startedAt, at |-> now,
    repeated |-> states[c].lastSentAt # ZeroTime] :
     c \in {d \in Active(report) \cap DOMAIN states : Due(states[d], now)}}

(* Evaluations happen at distinct instants (the loop waits for a ticker of     *)
(* positive period between two checks), except that MaxClock stands for every  *)
(* instant from there on.                                                      *)
NewInstant == clock > evaluatedAt \/ clock = MaxClock

EvaluateBegin(report) ==
  /\ phase = "idle"
  /\ NewInstant
  /\ evaluatedAt' = clock
  /\ states' = Retimed(report, clock)
  /\ pending' = Batch(report, clock)
  /\ phase' = IF pending' = {} THEN "idle" ELSE "notifying"
  /\ evaluations' = evaluations \cup {[at |-> clock, loading |-> Active(report)]}
  /\ UNCHANGED <<clock, inbox>>

Deliveries(acknowledged) ==
  {[message |-> n, acknowledged |-> acknowledged] : n \in pending}

(* Mutant: every timer is marked, not those of the batch. *)
MarkAllSent ==
  [c \in DOMAIN states |-> [states[c] EXCEPT !.lastSentAt = evaluatedAt]]

(* lastSentAt becomes the instant of the evaluation, not that of the reply. *)
MarkSent ==
  [c \in DOMAIN states |->
     IF \E n \in pending : n.collection = c
       THEN [states[c] EXCEPT !.lastSentAt = evaluatedAt]
       ELSE states[c]]

(* NotifyBatch returns nil: Feishu took the message and said so. *)
NotifyAcknowledged ==
  /\ phase = "notifying"
  /\ inbox' = inbox \cup Deliveries(TRUE)
  /\ states' = MarkSent
  /\ phase' = "idle"
  /\ pending' = {}
  /\ UNCHANGED <<clock, evaluatedAt, evaluations>>

(* Mutant: the timers are marked before the error is looked at. *)
NotifyFailedMarksSent ==
  /\ phase = "notifying"
  /\ inbox' \in {inbox, inbox \cup Deliveries(FALSE)}
  /\ states' = MarkSent
  /\ phase' = "idle"
  /\ pending' = {}
  /\ UNCHANGED <<clock, evaluatedAt, evaluations>>

(* NotifyBatch returns an error.  The message may have been shown all the same: *)
(* the request timed out on the reply, or the reply could not be decoded.       *)
NotifyFailed ==
  /\ phase = "notifying"
  /\ inbox' \in {inbox, inbox \cup Deliveries(FALSE)}
  /\ phase' = "idle"
  /\ pending' = {}
  /\ UNCHANGED <<clock, states, evaluatedAt, evaluations>>

(* The process stops and starts again; nothing was persisted.  A request in *)
(* flight may have reached Feishu.                                          *)
Restart ==
  /\ states' = NoStates
  /\ phase' = "idle"
  /\ inbox' \in {inbox, inbox \cup Deliveries(FALSE)}
  /\ pending' = {}
  /\ evaluations' = {}
  /\ UNCHANGED <<clock, evaluatedAt>>

Tick ==
  /\ clock < MaxClock
  /\ clock' = clock + 1
  /\ UNCHANGED <<states, phase, evaluatedAt, pending, inbox, evaluations>>

Next ==
  \/ Tick
  \/ \E report \in Reports : EvaluateBegin(report)
  \/ NotifyAcknowledged
  \/ NotifyFailed
  \/ Restart

Spec == Init /\ [][Next]_vars

(* Time passes and the refresh loop keeps evaluating; the HTTP client has a    *)
(* timeout, so NotifyBatch returns; and a webhook that is tried again and      *)
(* again is not down for ever.                                                 *)
Fairness ==
  /\ WF_vars(Tick)
  /\ WF_vars(\E report \in Reports : EvaluateBegin(report))
  /\ WF_vars(NotifyAcknowledged \/ NotifyFailed)
  /\ SF_vars(NotifyAcknowledged)

FairSpec == Spec /\ Fairness

-------------------------------------------------------------------------------
Acknowledged == {d.message : d \in {e \in inbox : e.acknowledged}}

(* The alerts acknowledged for the running timer of c. *)
AcknowledgedFor(c) ==
  {m \in Acknowledged : m.collection = c /\ m.since = states[c].startedAt}

(* An alert says "loading since": some evaluation of this process saw the      *)
(* collection loading at that instant, every one since then has, and the       *)
(* timeout lies in between.  A report in which the collection is loaded, has   *)
(* failed to be inspected or is missing breaks the interval (lines 65-71,      *)
(* 91-95).                                                                     *)
AlertsAreForUnbrokenLoading ==
  \A n \in pending :
    /\ n.at - n.since >= LoadingTimeout
    /\ \E e \in evaluations : e.at = n.since
    /\ \A e \in evaluations : e.at >= n.since => n.collection \in e.loading

(* Two acknowledged alerts for one collection are a repeat interval apart when *)
(* they are for the same loading period, and a loading timeout apart when the  *)
(* period, or the process, was another one (lines 79-80, 108).                 *)
AlertSpacing ==
  \A m1, m2 \in Acknowledged :
    m1.collection = m2.collection /\ m1 # m2 /\ m1.at <= m2.at =>
      m2.at - m1.at >= IF m1.since = m2.since THEN RepeatInterval ELSE LoadingTimeout

(* An alert calls itself a reminder exactly when Feishu has acknowledged an    *)
(* alert for the same loading period: a batch that failed does not count, and  *)
(* neither does one from before the collection was seen in another state       *)
(* (line 83).                                                                  *)
RemindersFollowAnAcknowledgement ==
  \A n \in pending :
    n.repeated <=> \E m \in Acknowledged :
                     m.collection = n.collection /\ m.since = n.since

(* A collection that has been loading for the timeout and whose alert has never *)
(* been acknowledged is in the batch of the very next evaluation that still     *)
(* shows it loading, however many batches failed before (lines 103-105).        *)
UnacknowledgedIsSentAgain ==
  [][\A report \in Reports : EvaluateBegin(report) =>
       \A c \in DOMAIN states \cap Active(report) :
         clock - states[c].startedAt >= LoadingTimeout /\ AcknowledgedFor(c) = {}
           => \E n \in pending' : n.collection = c]_vars

(* A collection that stays loading past the timeout is eventually alerted      *)
(* about, or stops being tracked: lost requests delay the alert and cannot     *)
(* cancel it, and neither can the other collections of the batch.              *)
TrackedSince(c, t) == c \in DOMAIN states /\ states[c].startedAt = t

LoadingIsEventuallyAnnounced ==
  \A c \in Collections : \A t \in {i \in Instants : i + LoadingTimeout <= MaxClock} :
    TrackedSince(c, t) ~>
      \/ ~TrackedSince(c, t)
      \/ \E m \in Acknowledged : m.collection = c /\ m.since = t

===============================================================================
