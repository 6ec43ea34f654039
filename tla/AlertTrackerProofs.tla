-------------------------- MODULE AlertTrackerProofs --------------------------
(***************************************************************************)
(* Proofs about AlertTracker and, seen from one collection,                *)
(* AlertTrackerTimer, for every set of collections and reported states,    *)
(* every pair of durations and every last instant.                         *)
(*                                                                         *)
(* The invariant says what the map of timers means: a timer is not younger *)
(* than the last evaluation, its lastSentAt is the instant of an           *)
(* acknowledged alert of its own period, and every acknowledged alert of a *)
(* tracked collection is either recorded in lastSentAt or older than the   *)
(* timer.  Spacing is a statement about pairs of alerts that may lie far   *)
(* apart, with failed batches, cleared timers and restarts between them,   *)
(* and only the last clause carries it from one step to the next.          *)
(***************************************************************************)
EXTENDS AlertTrackerTimer, TLAPS

(* The timers of a process are in the past, and an acknowledgement comes a    *)
(* timeout after the start.                                                   *)
TimersAreInThePast ==
  /\ evaluatedAt <= clock
  /\ \A c \in DOMAIN states :
       /\ states[c].startedAt <= evaluatedAt
       /\ states[c].lastSentAt # ZeroTime =>
            /\ states[c].startedAt + LoadingTimeout <= states[c].lastSentAt
            /\ states[c].lastSentAt <= evaluatedAt

(* A batch is made from the timers, which do not change while it is sent. *)
PendingAreDue ==
  \A n \in pending :
    /\ phase = "notifying"
    /\ n.collection \in DOMAIN states
    /\ n.since = states[n.collection].startedAt
    /\ n.at = evaluatedAt
    /\ Due(states[n.collection], evaluatedAt)
    /\ n.repeated <=> states[n.collection].lastSentAt # ZeroTime

(* An acknowledged alert of a tracked collection is of its running period, and *)
(* recorded, or it is not younger than the period.                             *)
AcknowledgedAreRecorded ==
  \A m \in Acknowledged :
    /\ m.since + LoadingTimeout <= m.at
    /\ m.at <= evaluatedAt
    /\ m.collection \in DOMAIN states =>
         \/ /\ m.since = states[m.collection].startedAt
            /\ states[m.collection].lastSentAt # ZeroTime
            /\ m.at <= states[m.collection].lastSentAt
         \/ m.at <= states[m.collection].startedAt

RecordedAreAcknowledged ==
  \A c \in DOMAIN states :
    states[c].lastSentAt # ZeroTime => AcknowledgedFor(c) # {}

(* MaxClock stands for many instants, so nothing is said of timers started there. *)
TrackedAreLoadingSince ==
  /\ \A e \in evaluations : e.at <= evaluatedAt
  /\ \A c \in DOMAIN states :
       states[c].startedAt < MaxClock =>
         /\ \E e \in evaluations : e.at = states[c].startedAt
         /\ \A e \in evaluations : e.at >= states[c].startedAt => c \in e.loading

Inv ==
  /\ TypeOK
  /\ TimersAreInThePast
  /\ PendingAreDue
  /\ AcknowledgedAreRecorded
  /\ RecordedAreAcknowledged
  /\ TrackedAreLoadingSince
  /\ AlertSpacing

-------------------------------------------------------------------------------
(* Type correctness of an evaluation: the timers and the batch it computes. *)
LEMMA EvaluationTypes ==
  ASSUME TypeOK, NEW report \in Reports
  PROVE  /\ IsCollectionMap(Retimed(report, clock), LoadingState)
         /\ Active(report) \subseteq Collections
         /\ Batch(report, clock) \subseteq Notification
<1>1. Active(report) \subseteq Collections
  BY DEF Reports, CollectionMaps, Active
<1>2. \A c \in DOMAIN states : states[c] \in LoadingState /\ c \in Collections
  BY DEF TypeOK, IsCollectionMap
<1>3. [startedAt |-> clock, lastSentAt |-> ZeroTime] \in LoadingState
  BY DEF TypeOK, LoadingState
<1>4. IsCollectionMap(Retimed(report, clock), LoadingState)
  BY <1>1, <1>2, <1>3 DEF IsCollectionMap, Retimed
<1>5. ASSUME NEW n \in Batch(report, clock) PROVE n \in Notification
  <2>1. PICK c \in DOMAIN states :
          n = [collection |-> c, since |-> states[c].startedAt, at |-> clock,
               repeated |-> states[c].lastSentAt # ZeroTime]
    BY <1>5 DEF Batch
  <2>2. c \in Collections /\ states[c].startedAt \in Instants /\ clock \in Instants
    BY <1>2 DEF LoadingState, TypeOK
  <2>3. (states[c].lastSentAt # ZeroTime) \in BOOLEAN
    OBVIOUS
  <2> QED BY <2>1, <2>2, <2>3, Zenon DEF Notification
<1> QED BY <1>1, <1>4, <1>5

(* What NotifyBatch leaves behind, acknowledged or not, is well typed. *)
LEMMA DeliveryTypes ==
  ASSUME TypeOK, NEW a \in BOOLEAN
  PROVE  Deliveries(a) \subseteq Delivery
<1> SUFFICES ASSUME NEW d \in Deliveries(a) PROVE d \in Delivery
  OBVIOUS
<1>1. PICK n \in pending : d = [message |-> n, acknowledged |-> a]
  BY DEF Deliveries
<1>2. n \in Notification
  BY DEF TypeOK
<1> QED BY <1>1, <1>2, Zenon DEF Delivery

(* The tracker's variables have their types in every reachable state: the map *)
(* keeps a well-formed timer per collection through every evaluation, batch   *)
(* and restart (tracker.go:53-112).                                           *)
LEMMA TypeStep == TypeOK /\ [Next]_vars => TypeOK'
<1> SUFFICES ASSUME TypeOK, [Next]_vars PROVE TypeOK'
  OBVIOUS
<1>1. CASE Tick
  BY <1>1, ClockAssumption DEF Tick, TypeOK, Instants, IsCollectionMap
<1>2. ASSUME NEW report \in Reports, EvaluateBegin(report) PROVE TypeOK'
  <2>1. [at |-> clock, loading |-> Active(report)] \in Evaluation
    BY EvaluationTypes DEF Evaluation, TypeOK
  <2> QED BY <1>2, <2>1, EvaluationTypes DEF EvaluateBegin, TypeOK
<1>3. CASE NotifyAcknowledged
  <2>1. Deliveries(TRUE) \subseteq Delivery
    BY DeliveryTypes
  <2>2. IsCollectionMap(MarkSent, LoadingState)
    <3>1. ASSUME NEW n \in pending PROVE evaluatedAt \in Instants \cup {ZeroTime}
      BY DEF TypeOK
    <3>2. \A c \in DOMAIN states :
            /\ states[c] \in LoadingState
            /\ [states[c] EXCEPT !.lastSentAt = evaluatedAt] \in LoadingState
      BY DEF TypeOK, IsCollectionMap, LoadingState
    <3> QED BY <3>2 DEF MarkSent, IsCollectionMap, TypeOK
  <2> QED BY <1>3, <2>1, <2>2 DEF NotifyAcknowledged, TypeOK
<1>4. CASE NotifyFailed \/ Restart
  <2>1. Deliveries(FALSE) \subseteq Delivery
    BY DeliveryTypes
  <2>2. IsCollectionMap(NoStates, LoadingState)
    BY DEF IsCollectionMap, NoStates, EmptyMap
  <2> QED BY <1>4, <2>1, <2>2 DEF NotifyFailed, Restart, TypeOK
<1>5. CASE UNCHANGED vars
  BY <1>5 DEF vars, TypeOK, IsCollectionMap
<1> QED BY <1>1, <1>2, <1>3, <1>4, <1>5 DEF Next

(* A new tracker has no timers and no batch. *)
LEMMA TypeInit == Init => TypeOK
BY ClockAssumption DEF Init, TypeOK, Instants, IsCollectionMap, NoStates, EmptyMap

(* Type correctness: whatever reports arrive and whichever batches fail, the *)
(* map holds a well-formed timer per collection and the batch well-formed    *)
(* notifications (tracker.go:28-43, 52-113).                                 *)
THEOREM TypeCorrect == Spec => []TypeOK
BY TypeInit, TypeStep, PTL DEF Spec

-------------------------------------------------------------------------------
(* What Feishu has acknowledged grows by the batch when it acknowledges one, *)
(* and by nothing else.                                                      *)
LEMMA AcknowledgedStep ==
  /\ NotifyAcknowledged => Acknowledged' = Acknowledged \cup pending
  /\ NotifyFailed \/ Restart \/ UNCHANGED inbox => Acknowledged' = Acknowledged
<1>1. ASSUME NotifyAcknowledged PROVE Acknowledged' = Acknowledged \cup pending
  <2>1. inbox' = inbox \cup {[message |-> n, acknowledged |-> TRUE] : n \in pending}
    BY <1>1 DEF NotifyAcknowledged, Deliveries
  <2>2. ASSUME NEW m PROVE m \in Acknowledged' <=> m \in Acknowledged \/ m \in pending
    <3>1. m \in Acknowledged' <=> \E d \in inbox' : d.acknowledged /\ d.message = m
      BY DEF Acknowledged
    <3>2. m \in Acknowledged <=> \E d \in inbox : d.acknowledged /\ d.message = m
      BY DEF Acknowledged
    <3>3. m \in pending <=>
            \E d \in {[message |-> n, acknowledged |-> TRUE] : n \in pending} :
               d.acknowledged /\ d.message = m
      <4> DEFINE sent(n) == [message |-> n, acknowledged |-> TRUE]
      <4>1. \A n : sent(n).acknowledged /\ sent(n).message = n
        OBVIOUS
      <4> HIDE DEF sent
      <4>2. m \in pending <=>
              \E d \in {sent(n) : n \in pending} : d.acknowledged /\ d.message = m
        BY <4>1
      <4> QED BY <4>2 DEF sent
    <3> QED BY <2>1, <3>1, <3>2, <3>3
  <2> QED BY <2>2
<1>2. ASSUME NotifyFailed \/ Restart \/ UNCHANGED inbox PROVE Acknowledged' = Acknowledged
  <2>1. inbox' \in {inbox,
           inbox \cup {[message |-> n, acknowledged |-> FALSE] : n \in pending}}
    BY <1>2 DEF NotifyFailed, Restart, Deliveries
  <2>2. {e \in inbox' : e.acknowledged} = {e \in inbox : e.acknowledged}
    BY <2>1
  <2> QED BY <2>2 DEF Acknowledged
<1> QED BY <1>1, <1>2

(* The types an arithmetic step needs. *)
LEMMA Numbers ==
  ASSUME TypeOK
  PROVE  /\ clock \in Nat /\ evaluatedAt \in Nat /\ MaxClock \in Nat
         /\ clock <= MaxClock /\ evaluatedAt <= MaxClock /\ clock >= 1
         /\ LoadingTimeout \in Nat /\ LoadingTimeout > 0
         /\ RepeatInterval \in Nat /\ RepeatInterval > 0
         /\ \A c \in DOMAIN states :
              /\ c \in Collections
              /\ states[c] \in LoadingState
              /\ states[c].startedAt \in Nat /\ states[c].startedAt >= 1
              /\ states[c].startedAt <= MaxClock
              /\ states[c].lastSentAt \in Nat
         /\ \A m \in Acknowledged \cup pending :
              m.since \in Nat /\ m.since >= 1 /\ m.at \in Nat /\ m.at <= MaxClock
         /\ \A e \in evaluations : e.at \in Nat /\ e.at <= MaxClock
<1>1. Acknowledged \cup pending \subseteq Notification
  BY DEF TypeOK, Acknowledged, Delivery
<1>2. \A m \in Notification : m.since \in Instants /\ m.at \in Instants
  BY DEF Notification
<1>3. \A c \in DOMAIN states : c \in Collections /\ states[c] \in LoadingState
  BY DEF TypeOK, IsCollectionMap
<1>4. \A s \in LoadingState :
        s.startedAt \in Instants /\ s.lastSentAt \in Instants \cup {ZeroTime}
  BY DEF LoadingState
<1>5. \A e \in evaluations : e.at \in Instants
  BY DEF TypeOK, Evaluation
<1> QED
  BY <1>1, <1>2, <1>3, <1>4, <1>5, DurationsAssumption, ClockAssumption
  DEF TypeOK, Instants, ZeroTime

(* Nothing is tracked, pending or acknowledged at the start. *)
LEMMA InvInit == Init => Inv
<1> SUFFICES ASSUME Init PROVE Inv
  OBVIOUS
<1>1. DOMAIN states = {} /\ pending = {} /\ Acknowledged = {} /\ evaluations = {}
  BY DEF Init, NoStates, EmptyMap, Acknowledged
<1>2. evaluatedAt <= clock
  BY DEF Init, ZeroTime
<1> QED
  BY <1>1, <1>2, TypeInit
  DEF Inv, TimersAreInThePast, PendingAreDue, AcknowledgedAreRecorded,
      RecordedAreAcknowledged, TrackedAreLoadingSince, AlertSpacing

(* Time alone disturbs nothing: the timers only get older. *)
LEMMA InvTick ==
  ASSUME Inv, Tick PROVE Inv'
<1>1. UNCHANGED <<states, phase, evaluatedAt, pending, inbox, evaluations>> /\ clock' = clock + 1
  BY DEF Tick
<1>2. TypeOK'
  BY TypeStep DEF Inv, Next
<1>3. Acknowledged' = Acknowledged /\ \A c \in DOMAIN states : AcknowledgedFor(c)' = AcknowledgedFor(c)
  BY <1>1, AcknowledgedStep DEF AcknowledgedFor
<1>4. evaluatedAt' <= clock'
  BY <1>1, Numbers DEF Inv, TimersAreInThePast
<1> QED
  BY <1>1, <1>2, <1>3, <1>4
  DEF Inv, TimersAreInThePast, PendingAreDue, AcknowledgedAreRecorded,
      RecordedAreAcknowledged, TrackedAreLoadingSince, AlertSpacing, Due

(* Nor does a step that changes nothing. *)
LEMMA InvStutter ==
  ASSUME Inv, UNCHANGED vars PROVE Inv'
<1>1. UNCHANGED <<clock, states, phase, evaluatedAt, pending, inbox, evaluations>>
  BY DEF vars
<1>2. TypeOK'
  BY TypeStep DEF Inv
<1>3. Acknowledged' = Acknowledged /\ \A c \in DOMAIN states : AcknowledgedFor(c)' = AcknowledgedFor(c)
  BY <1>1, AcknowledgedStep DEF AcknowledgedFor
<1> QED
  BY <1>1, <1>2, <1>3
  DEF Inv, TimersAreInThePast, PendingAreDue, AcknowledgedAreRecorded,
      RecordedAreAcknowledged, TrackedAreLoadingSince, AlertSpacing, Due

(* A failed batch, or a crash, leaves the acknowledged alerts alone; a crash *)
(* also forgets every timer.                                                 *)
LEMMA InvNotifyFailed ==
  ASSUME Inv, NotifyFailed PROVE Inv'
<1>1. UNCHANGED <<clock, states, evaluatedAt, evaluations>> /\ pending' = {}
  BY DEF NotifyFailed
<1>2. TypeOK'
  BY TypeStep DEF Inv, Next
<1>3. Acknowledged' = Acknowledged /\ \A c \in DOMAIN states : AcknowledgedFor(c)' = AcknowledgedFor(c)
  BY <1>1, AcknowledgedStep DEF AcknowledgedFor
<1> QED
  BY <1>1, <1>2, <1>3
  DEF Inv, TimersAreInThePast, PendingAreDue, AcknowledgedAreRecorded,
      RecordedAreAcknowledged, TrackedAreLoadingSince, AlertSpacing

(* A crash forgets the timers; what was acknowledged for them stays in the *)
(* past.                                                                   *)
LEMMA InvRestart ==
  ASSUME Inv, Restart PROVE Inv'
<1>1. /\ UNCHANGED <<clock, evaluatedAt>> /\ pending' = {} /\ evaluations' = {}
      /\ DOMAIN states' = {}
  BY DEF Restart, NoStates, EmptyMap
<1>2. TypeOK'
  BY TypeStep DEF Inv, Next
<1>3. Acknowledged' = Acknowledged
  BY AcknowledgedStep
<1> QED
  BY <1>1, <1>2, <1>3
  DEF Inv, TimersAreInThePast, PendingAreDue, AcknowledgedAreRecorded,
      RecordedAreAcknowledged, TrackedAreLoadingSince, AlertSpacing

(* An evaluation keeps the timers of the collections that are still loading, *)
(* starts those of the new ones now, and makes a batch of the old ones due.  *)
LEMMA RetimedTimers ==
  ASSUME NEW report \in Reports
  PROVE  /\ DOMAIN Retimed(report, clock) = Active(report)
         /\ \A c \in Active(report) :
              IF c \in DOMAIN states
                THEN Retimed(report, clock)[c] = states[c]
                ELSE /\ Retimed(report, clock)[c].startedAt = clock
                     /\ Retimed(report, clock)[c].lastSentAt = ZeroTime
BY DEF Retimed

(* A notification of the new batch is about a collection that was tracked, is *)
(* still loading and is due.                                                  *)
LEMMA BatchMembers ==
  ASSUME TypeOK, NEW report \in Reports, NEW n \in Batch(report, clock)
  PROVE  /\ n.collection \in DOMAIN states /\ n.collection \in Active(report)
         /\ n.since = states[n.collection].startedAt
         /\ n.at = clock
         /\ Due(states[n.collection], clock)
         /\ n.repeated <=> states[n.collection].lastSentAt # ZeroTime
<1>1. PICK c \in Active(report) \cap DOMAIN states :
        /\ Due(states[c], clock)
        /\ n = [collection |-> c, since |-> states[c].startedAt, at |-> clock,
                repeated |-> states[c].lastSentAt # ZeroTime]
  BY DEF Batch
<1>2. /\ n.collection = c /\ n.since = states[c].startedAt /\ n.at = clock
      /\ n.repeated <=> states[c].lastSentAt # ZeroTime
  BY <1>1, Zenon
<1> QED BY <1>1, <1>2

(* An evaluation keeps the invariant: the timers and batch it computes are *)
(* due, and agree with what was acknowledged.                              *)
LEMMA InvEvaluateBegin ==
  ASSUME Inv, NEW report \in Reports, EvaluateBegin(report) PROVE Inv'
<1> DEFINE L == Active(report)
           e0 == [at |-> clock, loading |-> L]
<1>1. /\ evaluatedAt' = clock /\ UNCHANGED <<clock, inbox>>
      /\ states' = Retimed(report, clock) /\ pending' = Batch(report, clock)
      /\ phase' = IF pending' = {} THEN "idle" ELSE "notifying"
      /\ evaluations' = evaluations \cup {e0}
      /\ clock > evaluatedAt \/ clock = MaxClock
  BY DEF EvaluateBegin, NewInstant
<1>2. TypeOK'
  BY TypeStep DEF Inv, Next
<1>3. TypeOK /\ evaluatedAt <= clock
  BY DEF Inv, TimersAreInThePast
<1>4. Acknowledged' = Acknowledged
  BY <1>1, AcknowledgedStep
<1>5. /\ DOMAIN states' = L
      /\ \A c \in L : IF c \in DOMAIN states
                        THEN states'[c] = states[c]
                        ELSE states'[c].startedAt = clock /\ states'[c].lastSentAt = ZeroTime
  BY <1>1, RetimedTimers
<1>6. TimersAreInThePast'
  <2>1. evaluatedAt' <= clock'
    BY <1>1, <1>3, Numbers
  <2>2. ASSUME NEW c \in L
        PROVE  /\ states'[c].startedAt <= evaluatedAt'
               /\ states'[c].lastSentAt # ZeroTime =>
                    /\ states'[c].startedAt + LoadingTimeout <= states'[c].lastSentAt
                    /\ states'[c].lastSentAt <= evaluatedAt'
    <3>1. CASE c \in DOMAIN states
      BY <1>1, <1>3, <1>5, <3>1, Numbers DEF Inv, TimersAreInThePast
    <3>2. CASE c \notin DOMAIN states
      BY <1>1, <1>3, <1>5, <3>2, Numbers
    <3> QED BY <3>1, <3>2
  <2> QED BY <1>5, <2>1, <2>2 DEF TimersAreInThePast
<1>7. PendingAreDue'
  <2> SUFFICES ASSUME NEW n \in pending'
               PROVE  /\ phase' = "notifying"
                      /\ n.collection \in DOMAIN states'
                      /\ n.since = states'[n.collection].startedAt
                      /\ n.at = evaluatedAt'
                      /\ Due(states'[n.collection], evaluatedAt')
                      /\ n.repeated <=> states'[n.collection].lastSentAt # ZeroTime
    BY DEF PendingAreDue, Due
  <2>1. phase' = "notifying"
    BY <1>1
  <2>2. /\ n.collection \in DOMAIN states /\ n.collection \in L
        /\ n.since = states[n.collection].startedAt
        /\ n.at = clock
        /\ Due(states[n.collection], clock)
        /\ n.repeated <=> states[n.collection].lastSentAt # ZeroTime
    BY <1>1, <1>3, BatchMembers
  <2> QED BY <1>1, <1>5, <2>1, <2>2
<1>8. AcknowledgedAreRecorded'
  <2> SUFFICES ASSUME NEW m \in Acknowledged
               PROVE  /\ m.since + LoadingTimeout <= m.at
                      /\ m.at <= evaluatedAt'
                      /\ m.collection \in DOMAIN states' =>
                           \/ /\ m.since = states'[m.collection].startedAt
                              /\ states'[m.collection].lastSentAt # ZeroTime
                              /\ m.at <= states'[m.collection].lastSentAt
                           \/ m.at <= states'[m.collection].startedAt
    BY <1>4 DEF AcknowledgedAreRecorded
  <2>1. m.since + LoadingTimeout <= m.at /\ m.at <= evaluatedAt /\ m.at <= clock
    BY <1>3, Numbers DEF Inv, AcknowledgedAreRecorded
  <2>2. CASE m.collection \in DOMAIN states
    BY <1>1, <1>5, <2>1, <2>2 DEF Inv, AcknowledgedAreRecorded
  <2>3. CASE m.collection \notin DOMAIN states
    BY <1>1, <1>5, <2>1, <2>3
  <2> QED BY <2>2, <2>3
<1>9. RecordedAreAcknowledged'
  <2> SUFFICES ASSUME NEW c \in L, states'[c].lastSentAt # ZeroTime
               PROVE  AcknowledgedFor(c)' # {}
    BY <1>5 DEF RecordedAreAcknowledged
  <2>1. c \in DOMAIN states /\ states'[c] = states[c]
    BY <1>5
  <2> QED BY <1>4, <2>1 DEF Inv, RecordedAreAcknowledged, AcknowledgedFor
<1>10. TrackedAreLoadingSince'
  <2>1. \A e \in evaluations' : e.at <= evaluatedAt'
    BY <1>1, <1>3, Numbers DEF Inv, TrackedAreLoadingSince
  <2>2. ASSUME NEW c \in L, states'[c].startedAt < MaxClock
        PROVE  /\ \E e \in evaluations' : e.at = states'[c].startedAt
               /\ \A e \in evaluations' : e.at >= states'[c].startedAt => c \in e.loading
    <3>1. CASE c \in DOMAIN states
      BY <1>1, <1>5, <2>2, <3>1 DEF Inv, TrackedAreLoadingSince
    <3>2. CASE c \notin DOMAIN states
      <4>1. states'[c].startedAt = clock /\ clock > evaluatedAt
        BY <1>1, <1>5, <2>2, <3>2, <1>3, Numbers
      <4>2. \A e \in evaluations : ~(e.at >= clock)
        BY <4>1, <1>3, Numbers DEF Inv, TrackedAreLoadingSince
      <4>3. e0 \in evaluations' /\ e0.at = clock /\ e0.loading = L
        BY <1>1
      <4>4. \A e \in evaluations' : e.at >= clock => e = e0
        BY <1>1, <4>2
      <4> QED BY <4>1, <4>3, <4>4
    <3> QED BY <3>1, <3>2
  <2> QED BY <1>1, <1>5, <2>1, <2>2 DEF TrackedAreLoadingSince
<1>11. AlertSpacing'
  BY <1>4 DEF Inv, AlertSpacing
<1> QED BY <1>2, <1>6, <1>7, <1>8, <1>9, <1>10, <1>11 DEF Inv

(* The acknowledgement of a batch is the step that the spacing hangs on. *)
LEMMA MarkedTimers ==
  ASSUME TypeOK
  PROVE  /\ DOMAIN MarkSent = DOMAIN states
         /\ \A c \in DOMAIN states :
              /\ MarkSent[c].startedAt = states[c].startedAt
              /\ IF \E n \in pending : n.collection = c
                   THEN MarkSent[c].lastSentAt = evaluatedAt
                   ELSE MarkSent[c].lastSentAt = states[c].lastSentAt
<1>1. \A c \in DOMAIN states : states[c] \in LoadingState
  BY Numbers
<1> QED BY <1>1 DEF MarkSent, LoadingState

(* Two notifications of a batch for one collection are the same one. *)
LEMMA SameNotification ==
  ASSUME NEW x \in Notification, NEW y \in Notification,
         x.collection = y.collection, x.since = y.since, x.at = y.at,
         x.repeated = y.repeated
  PROVE  x = y
BY SMT DEF Notification

(* A notification of the batch is far enough from every alert acknowledged so far. *)
LEMMA PendingIsSpaced ==
  ASSUME Inv, NEW n \in pending, NEW m \in Acknowledged,
         m.collection = n.collection
  PROVE  /\ m.at <= n.at
         /\ m.at # n.at
         /\ n.at - m.at >= IF m.since = n.since THEN RepeatInterval ELSE LoadingTimeout
<1> DEFINE s == states[n.collection]
<1>1. /\ n.collection \in DOMAIN states /\ n.since = s.startedAt /\ n.at = evaluatedAt
      /\ evaluatedAt - s.startedAt >= LoadingTimeout
      /\ s.lastSentAt # ZeroTime => evaluatedAt - s.lastSentAt >= RepeatInterval
  BY DEF Inv, PendingAreDue, Due
<1>2. /\ m.since + LoadingTimeout <= m.at
      /\ \/ m.since = s.startedAt /\ s.lastSentAt # ZeroTime /\ m.at <= s.lastSentAt
         \/ m.at <= s.startedAt
  BY <1>1 DEF Inv, AcknowledgedAreRecorded
<1>3. /\ m.since \in Nat /\ m.at \in Nat /\ n.at \in Nat /\ n.since \in Nat
      /\ s.startedAt \in Nat /\ s.lastSentAt \in Nat /\ evaluatedAt \in Nat
      /\ LoadingTimeout \in Nat /\ LoadingTimeout > 0
      /\ RepeatInterval \in Nat /\ RepeatInterval > 0
  BY <1>1, Numbers DEF Inv
<1> HIDE DEF s
<1>4. CASE m.since = s.startedAt /\ s.lastSentAt # ZeroTime /\ m.at <= s.lastSentAt
  BY <1>1, <1>3, <1>4
<1>5. CASE m.at <= s.startedAt
  BY <1>1, <1>2, <1>3, <1>5
<1> QED BY <1>2, <1>4, <1>5

(* An acknowledged batch keeps the invariant: its alerts are spaced from all *)
(* the earlier ones and its timers are marked.                               *)
LEMMA InvNotifyAcknowledged ==
  ASSUME Inv, NotifyAcknowledged PROVE Inv'
<1>1. /\ UNCHANGED <<clock, evaluatedAt, evaluations>>
      /\ states' = MarkSent /\ pending' = {}
  BY DEF NotifyAcknowledged
<1>2. TypeOK'
  BY TypeStep DEF Inv, Next
<1>3. TypeOK
  BY DEF Inv
<1>4. Acknowledged' = Acknowledged \cup pending
  BY AcknowledgedStep
<1>5. /\ DOMAIN states' = DOMAIN states
      /\ \A c \in DOMAIN states :
           /\ states'[c].startedAt = states[c].startedAt
           /\ IF \E n \in pending : n.collection = c
                THEN states'[c].lastSentAt = evaluatedAt
                ELSE states'[c].lastSentAt = states[c].lastSentAt
  BY <1>1, <1>3, MarkedTimers
<1>6. \A n \in pending :
        /\ n.collection \in DOMAIN states
        /\ n.since = states[n.collection].startedAt /\ n.at = evaluatedAt
        /\ evaluatedAt - n.since >= LoadingTimeout
  BY DEF Inv, PendingAreDue, Due
<1>7. \A n \in pending : n.since \in Nat /\ evaluatedAt \in Nat /\ LoadingTimeout \in Nat
                         /\ evaluatedAt > 0 /\ n.since + LoadingTimeout <= evaluatedAt
  <2>1. \A n \in pending : n.since \in Nat /\ n.since >= 1
    BY <1>3, Numbers
  <2>2. evaluatedAt \in Nat /\ LoadingTimeout \in Nat /\ LoadingTimeout > 0
    BY <1>3, Numbers
  <2> QED BY <1>6, <2>1, <2>2
<1>8. TimersAreInThePast'
  <2>1. ASSUME NEW c \in DOMAIN states
        PROVE  /\ states'[c].startedAt <= evaluatedAt'
               /\ states'[c].lastSentAt # ZeroTime =>
                    /\ states'[c].startedAt + LoadingTimeout <= states'[c].lastSentAt
                    /\ states'[c].lastSentAt <= evaluatedAt'
    <3>1. CASE \E n \in pending : n.collection = c
      BY <1>1, <1>3, <1>5, <1>6, <1>7, <3>1, Numbers DEF Inv, TimersAreInThePast
    <3>2. CASE ~ \E n \in pending : n.collection = c
      BY <1>1, <1>5, <3>2 DEF Inv, TimersAreInThePast
    <3> QED BY <3>1, <3>2
  <2> QED BY <1>1, <1>5, <2>1 DEF Inv, TimersAreInThePast
<1>9. AcknowledgedAreRecorded'
  <2>1. ASSUME NEW m \in Acknowledged \cup pending
        PROVE  /\ m.since + LoadingTimeout <= m.at
               /\ m.at <= evaluatedAt'
               /\ m.collection \in DOMAIN states' =>
                    \/ /\ m.since = states'[m.collection].startedAt
                       /\ states'[m.collection].lastSentAt # ZeroTime
                       /\ m.at <= states'[m.collection].lastSentAt
                    \/ m.at <= states'[m.collection].startedAt
    <3>1. CASE m \in pending
      BY <1>1, <1>5, <1>6, <1>7, <3>1 DEF ZeroTime
    <3>2. CASE m \in Acknowledged
      <4>1. m.since + LoadingTimeout <= m.at /\ m.at <= evaluatedAt /\ m.at \in Nat
        BY <1>3, <3>2, Numbers DEF Inv, AcknowledgedAreRecorded
      <4>2. ASSUME m.collection \in DOMAIN states
            PROVE  \/ /\ m.since = states'[m.collection].startedAt
                      /\ states'[m.collection].lastSentAt # ZeroTime
                      /\ m.at <= states'[m.collection].lastSentAt
                   \/ m.at <= states'[m.collection].startedAt
        <5>1. CASE \E n \in pending : n.collection = m.collection
          BY <1>5, <1>7, <3>2, <4>1, <4>2, <5>1 DEF Inv, AcknowledgedAreRecorded, ZeroTime
        <5>2. CASE ~ \E n \in pending : n.collection = m.collection
          BY <1>5, <3>2, <4>2, <5>2 DEF Inv, AcknowledgedAreRecorded
        <5> QED BY <5>1, <5>2
      <4> QED BY <1>1, <1>5, <4>1, <4>2
    <3> QED BY <3>1, <3>2
  <2> QED BY <1>4, <2>1 DEF AcknowledgedAreRecorded
<1>10. RecordedAreAcknowledged'
  <2> SUFFICES ASSUME NEW c \in DOMAIN states, states'[c].lastSentAt # ZeroTime
               PROVE  AcknowledgedFor(c)' # {}
    BY <1>5 DEF RecordedAreAcknowledged
  <2>1. AcknowledgedFor(c)' =
          {m \in Acknowledged \cup pending :
             m.collection = c /\ m.since = states[c].startedAt}
    BY <1>4, <1>5 DEF AcknowledgedFor
  <2>2. CASE \E n \in pending : n.collection = c
    BY <1>6, <2>1, <2>2
  <2>3. CASE ~ \E n \in pending : n.collection = c
    <3>1. AcknowledgedFor(c) # {}
      BY <1>5, <2>3 DEF Inv, RecordedAreAcknowledged
    <3> QED BY <2>1, <3>1 DEF AcknowledgedFor
  <2> QED BY <2>2, <2>3
<1>11. TrackedAreLoadingSince'
  BY <1>1, <1>5 DEF Inv, TrackedAreLoadingSince
<1>12. AlertSpacing'
  <2> SUFFICES ASSUME NEW m1 \in Acknowledged \cup pending,
                      NEW m2 \in Acknowledged \cup pending,
                      m1.collection = m2.collection, m1 # m2, m1.at <= m2.at
               PROVE  m2.at - m1.at >=
                        IF m1.since = m2.since THEN RepeatInterval ELSE LoadingTimeout
    BY <1>4 DEF AlertSpacing
  <2>1. CASE m1 \in Acknowledged /\ m2 \in Acknowledged
    BY <2>1 DEF Inv, AlertSpacing
  <2>2. CASE m1 \in Acknowledged /\ m2 \in pending
    BY <2>2, PendingIsSpaced
  <2>3. CASE m1 \in pending /\ m2 \in Acknowledged
    <3>1. m2.at <= m1.at /\ m2.at # m1.at
      BY <2>3, PendingIsSpaced
    <3>2. m1.at \in Nat /\ m2.at \in Nat
      BY <1>3, Numbers
    <3> QED BY <3>1, <3>2
  <2>4. CASE m1 \in pending /\ m2 \in pending
    <3>1. /\ m1.since = m2.since /\ m1.at = m2.at /\ m1.repeated = m2.repeated
          /\ m1 \in Notification /\ m2 \in Notification
      <4>1. /\ m1.since = states[m1.collection].startedAt
            /\ m2.since = states[m1.collection].startedAt
            /\ m1.at = evaluatedAt /\ m2.at = evaluatedAt
            /\ m1.repeated <=> m2.repeated
        BY <2>4 DEF Inv, PendingAreDue
      <4>2. m1 \in Notification /\ m2 \in Notification
        BY <1>3, <2>4 DEF TypeOK
      <4>3. m1.repeated \in BOOLEAN /\ m2.repeated \in BOOLEAN
        BY <4>2 DEF Notification
      <4>4. m1.repeated = m2.repeated
        BY <4>1, <4>3, Zenon
      <4> QED BY <4>1, <4>2, <4>4
    <3> QED BY <3>1, SameNotification
  <2> QED BY <2>1, <2>2, <2>3, <2>4
<1>13. PendingAreDue'
  BY <1>1 DEF PendingAreDue
<1> QED
  BY <1>2, <1>8, <1>9, <1>10, <1>11, <1>12, <1>13 DEF Inv

(* Every step keeps the invariant. *)
LEMMA InvStep == Inv /\ [Next]_vars => Inv'
BY InvTick, InvEvaluateBegin, InvNotifyAcknowledged, InvNotifyFailed, InvRestart,
   InvStutter DEF Next

(* The invariant holds in every reachable state. *)
LEMMA Invariance == Spec => []Inv
BY InvInit, InvStep, PTL DEF Spec

-------------------------------------------------------------------------------
(* Acknowledged alerts for one collection never come closer than the repeat  *)
(* interval within one loading period, nor than the loading timeout across   *)
(* two, with any number of collections, failures and restarts between them   *)
(* (tracker.go:79-80, 108).                                                  *)
THEOREM Spacing == Spec => []AlertSpacing
<1>1. Inv => AlertSpacing
  BY DEF Inv
<1> QED BY <1>1, Invariance, PTL

(* Every alert is about a collection that each evaluation of this process has *)
(* seen loading, for the timeout at least (tracker.go:65-80, 91-95).          *)
THEOREM UnbrokenLoading == Spec => []AlertsAreForUnbrokenLoading
<1>1. Inv => AlertsAreForUnbrokenLoading
  <2> SUFFICES ASSUME Inv, NEW n \in pending
               PROVE  /\ n.at - n.since >= LoadingTimeout
                      /\ \E e \in evaluations : e.at = n.since
                      /\ \A e \in evaluations : e.at >= n.since => n.collection \in e.loading
    BY DEF AlertsAreForUnbrokenLoading
  <2>1. /\ n.collection \in DOMAIN states
        /\ n.since = states[n.collection].startedAt
        /\ n.at = evaluatedAt
        /\ evaluatedAt - states[n.collection].startedAt >= LoadingTimeout
    BY DEF Inv, PendingAreDue, Due
  <2>2. states[n.collection].startedAt < MaxClock
    BY <2>1, Numbers DEF Inv
  <2> QED BY <2>1, <2>2 DEF Inv, TrackedAreLoadingSince
<1> QED BY <1>1, Invariance, PTL

(* An alert is marked as a repeat exactly when an alert of the same loading *)
(* period has been acknowledged (tracker.go:83).                            *)
THEOREM Reminders == Spec => []RemindersFollowAnAcknowledgement
<1>1. Inv => RemindersFollowAnAcknowledgement
  <2> SUFFICES ASSUME Inv, NEW n \in pending
               PROVE  n.repeated <=> \E m \in Acknowledged :
                                       m.collection = n.collection /\ m.since = n.since
    BY DEF RemindersFollowAnAcknowledgement
  <2>1. /\ n.collection \in DOMAIN states
        /\ n.since = states[n.collection].startedAt
        /\ n.repeated <=> states[n.collection].lastSentAt # ZeroTime
    BY DEF Inv, PendingAreDue
  <2>2. ASSUME states[n.collection].lastSentAt # ZeroTime
        PROVE  \E m \in Acknowledged : m.collection = n.collection /\ m.since = n.since
    BY <2>1, <2>2 DEF Inv, RecordedAreAcknowledged, AcknowledgedFor
  <2>3. ASSUME NEW m \in Acknowledged, m.collection = n.collection, m.since = n.since
        PROVE  states[n.collection].lastSentAt # ZeroTime
    <3>1. /\ m.since + LoadingTimeout <= m.at
          /\ \/ states[n.collection].lastSentAt # ZeroTime
             \/ m.at <= m.since
      BY <2>1, <2>3 DEF Inv, AcknowledgedAreRecorded
    <3> QED BY <3>1, Numbers DEF Inv
  <2> QED BY <2>1, <2>2, <2>3
<1> QED BY <1>1, Invariance, PTL

(* A collection past the timeout whose alert was never acknowledged is in the *)
(* batch of the next evaluation that shows it loading (tracker.go:80,         *)
(* 103-105).                                                                  *)
THEOREM SentAgain == Spec => UnacknowledgedIsSentAgain
<1>1. ASSUME Inv, NEW report \in Reports, EvaluateBegin(report),
             NEW c \in DOMAIN states \cap Active(report),
             clock - states[c].startedAt >= LoadingTimeout,
             AcknowledgedFor(c) = {}
      PROVE  \E n \in pending' : n.collection = c
  <2>1. states[c].lastSentAt = ZeroTime
    BY <1>1 DEF Inv, RecordedAreAcknowledged
  <2>2. Due(states[c], clock)
    BY <1>1, <2>1 DEF Due
  <2>3. [collection |-> c, since |-> states[c].startedAt, at |-> clock,
         repeated |-> states[c].lastSentAt # ZeroTime] \in pending'
    BY <1>1, <2>2 DEF EvaluateBegin, Batch
  <2> QED BY <2>3
<1>2. Inv => (\A report \in Reports : EvaluateBegin(report) =>
                \A c \in DOMAIN states \cap Active(report) :
                  clock - states[c].startedAt >= LoadingTimeout /\ AcknowledgedFor(c) = {}
                    => \E n \in pending' : n.collection = c)
  BY <1>1
<1> QED BY <1>2, Invariance, PTL DEF UnacknowledgedIsSentAgain

-------------------------------------------------------------------------------
(* The refinement: StartedAt, LastSentAt and AlertsOfWatched step by step. *)
LEMMA WatchedUnchanged ==
  /\ UNCHANGED states => UNCHANGED <<StartedAt, LastSentAt>>
  /\ Acknowledged' = Acknowledged => UNCHANGED AlertsOfWatched
BY DEF StartedAt, LastSentAt, AlertsOfWatched

(* The timer of the watched collection is a number, 0 while it is off. *)
LEMMA WatchedTypes ==
  ASSUME TypeOK
  PROVE  /\ StartedAt # ZeroTime <=> Watched \in DOMAIN states
         /\ LastSentAt # ZeroTime => Watched \in DOMAIN states
BY Numbers DEF StartedAt, LastSentAt, ZeroTime

(* An evaluation is a Start, a Stop or a stutter of the watched timer. *)
LEMMA TimerEvaluates ==
  ASSUME Inv, NEW report \in Reports, EvaluateBegin(report)
  PROVE  [Timer!Next]_Timer!vars
<1>1. /\ UNCHANGED <<clock, inbox>> /\ states' = Retimed(report, clock)
  BY DEF EvaluateBegin
<1>2. UNCHANGED AlertsOfWatched
  BY <1>1, AcknowledgedStep, WatchedUnchanged
<1>3. /\ DOMAIN states' = Active(report)
      /\ \A c \in Active(report) :
           IF c \in DOMAIN states
             THEN states'[c] = states[c]
             ELSE states'[c].startedAt = clock /\ states'[c].lastSentAt = ZeroTime
  BY <1>1, RetimedTimers
<1>4. CASE Watched \in DOMAIN states /\ Watched \in Active(report)
  BY <1>1, <1>2, <1>3, <1>4 DEF Timer!vars, StartedAt, LastSentAt
<1>5. CASE Watched \notin DOMAIN states /\ Watched \notin Active(report)
  BY <1>1, <1>2, <1>3, <1>5 DEF Timer!vars, StartedAt, LastSentAt
<1>6. CASE Watched \notin DOMAIN states /\ Watched \in Active(report)
  <2>1. Timer!Start
    BY <1>1, <1>2, <1>3, <1>6 DEF Timer!Start, StartedAt, LastSentAt, ZeroTime
  <2> QED BY <2>1 DEF Timer!Next
<1>7. CASE Watched \in DOMAIN states /\ Watched \notin Active(report)
  <2>1. Timer!Stop
    BY <1>1, <1>2, <1>3, <1>7, Numbers DEF Inv, Timer!Stop, StartedAt, LastSentAt, ZeroTime
  <2> QED BY <2>1 DEF Timer!Next
<1> QED BY <1>4, <1>5, <1>6, <1>7

(* An acknowledged batch is an Alert of the watched timer, or a stutter when *)
(* it is not in the batch.                                                   *)
LEMMA TimerAlerts ==
  ASSUME Inv, NotifyAcknowledged
  PROVE  [Timer!Next]_Timer!vars
<1>1. UNCHANGED <<clock, evaluatedAt>> /\ states' = MarkSent /\ TypeOK
  BY DEF NotifyAcknowledged, Inv
<1>2. Acknowledged' = Acknowledged \cup pending
  BY AcknowledgedStep
<1>3. /\ DOMAIN states' = DOMAIN states
      /\ \A c \in DOMAIN states :
           /\ states'[c].startedAt = states[c].startedAt
           /\ IF \E n \in pending : n.collection = c
                THEN states'[c].lastSentAt = evaluatedAt
                ELSE states'[c].lastSentAt = states[c].lastSentAt
  BY <1>1, MarkedTimers
<1>4. CASE ~ \E n \in pending : n.collection = Watched
  <2>1. UNCHANGED AlertsOfWatched
    BY <1>2, <1>4 DEF AlertsOfWatched
  <2> QED BY <1>1, <1>3, <1>4, <2>1 DEF Timer!vars, StartedAt, LastSentAt
<1>5. ASSUME NEW n \in pending, n.collection = Watched
      PROVE  [Timer!Next]_Timer!vars
  <2>1. /\ Watched \in DOMAIN states
        /\ Due(states[Watched], evaluatedAt)
        /\ \A k \in pending : k.at = evaluatedAt
    BY <1>5 DEF Inv, PendingAreDue
  <2>2. AlertsOfWatched' = AlertsOfWatched \cup {evaluatedAt}
    BY <1>2, <1>5, <2>1 DEF AlertsOfWatched
  <2>3. /\ clock \in Nat /\ evaluatedAt \in Nat /\ evaluatedAt <= clock
        /\ states[Watched].startedAt \in Nat /\ states[Watched].startedAt >= 1
        /\ states[Watched].startedAt <= evaluatedAt
    BY <1>1, <2>1, Numbers DEF Inv, TimersAreInThePast
  <2>4. evaluatedAt \in 1 .. clock
    BY <2>3
  <2>5. Timer!Alert(evaluatedAt)
    BY <1>1, <1>3, <1>5, <2>1, <2>2, <2>3
    DEF Timer!Alert, StartedAt, LastSentAt, Due, ZeroTime
  <2> QED BY <2>4, <2>5 DEF Timer!Next
<1> QED BY <1>4, <1>5

(* A crash is a Stop of the watched timer, or a stutter. *)
LEMMA TimerRestarts ==
  ASSUME Inv, Restart
  PROVE  [Timer!Next]_Timer!vars
<1>1. UNCHANGED clock /\ DOMAIN states' = {} /\ UNCHANGED AlertsOfWatched
  BY AcknowledgedStep, WatchedUnchanged DEF Restart, NoStates, EmptyMap
<1>2. CASE Watched \in DOMAIN states
  <2>1. Timer!Stop
    BY <1>1, <1>2, Numbers DEF Inv, Timer!Stop, StartedAt, LastSentAt, ZeroTime
  <2> QED BY <2>1 DEF Timer!Next
<1>3. CASE Watched \notin DOMAIN states
  BY <1>1, <1>3 DEF Timer!vars, StartedAt, LastSentAt
<1> QED BY <1>2, <1>3

(* The alerts of any collection follow a LoadingTimer of its own: what the    *)
(* batch, the failures and the other collections do never shows in them       *)
(* (tracker.go:52-113).                                                       *)
THEOREM TimedAlone == Spec => CollectionIsTimedAlone
<1>1. Init => Timer!Init
  <2> SUFFICES ASSUME Init PROVE Timer!Init
    OBVIOUS
  <2>1. DOMAIN states = {} /\ Acknowledged = {} /\ clock = 1
    BY DEF Init, NoStates, EmptyMap, Acknowledged
  <2> QED BY <2>1 DEF Timer!Init, StartedAt, LastSentAt, AlertsOfWatched, ZeroTime
<1>2. Inv /\ [Next]_vars => [Timer!Next]_Timer!vars
  <2> SUFFICES ASSUME Inv, [Next]_vars PROVE [Timer!Next]_Timer!vars
    OBVIOUS
  <2>1. CASE Tick
    <3>1. UNCHANGED <<StartedAt, LastSentAt, AlertsOfWatched>>
      BY <2>1, AcknowledgedStep, WatchedUnchanged DEF Tick
    <3>2. Timer!Advance
      BY <2>1, <3>1, Numbers DEF Inv, Tick, Timer!Advance
    <3> QED BY <3>2 DEF Timer!Next
  <2>2. CASE NotifyFailed
    BY <2>2, AcknowledgedStep, WatchedUnchanged DEF NotifyFailed, Timer!vars
  <2>3. CASE UNCHANGED vars
    BY <2>3, AcknowledgedStep, WatchedUnchanged DEF vars, Timer!vars
  <2> QED
    BY <2>1, <2>2, <2>3, TimerEvaluates, TimerAlerts, TimerRestarts DEF Next
<1> QED BY <1>1, <1>2, Invariance, PTL DEF Spec, Timer!Spec, CollectionIsTimedAlone

===============================================================================
