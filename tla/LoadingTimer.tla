----------------------------- MODULE LoadingTimer -----------------------------
(***************************************************************************)
(* What the loading alert promises about ONE collection, whatever happens  *)
(* to the others and however their alerts are batched: a timer that runs   *)
(* while the collection is observed loading, a first alert no sooner than  *)
(* LoadingTimeout after the timer started, and repeats no closer than      *)
(* RepeatInterval.  AlertTracker is shown to implement one such timer per  *)
(* collection.                                                             *)
(***************************************************************************)
EXTENDS Integers

CONSTANTS LoadingTimeout, RepeatInterval

VARIABLES
  now,        \* the current instant
  since,      \* when the running timer was started, 0 while it is off
  lastAlert,  \* when the last alert of this run of the timer was acknowledged, or 0
  alerts      \* the instants of all the acknowledged alerts

vars == <<now, since, lastAlert, alerts>>

Init == now \in Nat /\ since = 0 /\ lastAlert = 0 /\ alerts = {}

Advance ==
  /\ now' \in Nat /\ now' > now
  /\ UNCHANGED <<since, lastAlert, alerts>>

(* The collection is observed loading, and was not at the previous observation. *)
Start ==
  /\ since = 0
  /\ since' = now
  /\ UNCHANGED <<now, lastAlert, alerts>>

(* The collection is observed in another state, or not at all, or the process restarted. *)
Stop ==
  /\ since # 0
  /\ since' = 0 /\ lastAlert' = 0
  /\ UNCHANGED <<now, alerts>>

(* An alert decided at the instant t is acknowledged; t may lie in the past. *)
Alert(t) ==
  /\ since # 0
  /\ t <= now
  /\ t - since >= LoadingTimeout
  /\ lastAlert # 0 => t - lastAlert >= RepeatInterval
  /\ lastAlert' = t
  /\ alerts' = alerts \cup {t}
  /\ UNCHANGED <<now, since>>

Next == Advance \/ Start \/ Stop \/ \E t \in 1 .. now : Alert(t)

Spec == Init /\ [][Next]_vars

===============================================================================
