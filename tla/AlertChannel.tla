----------------------------- MODULE AlertChannel -----------------------------
(***************************************************************************)
(* What AlertTracker takes the alert channel to be: a call that ends with  *)
(* success or an error; the message is shown at most once per call, was    *)
(* shown when the call succeeds, and may be shown, even later, when it     *)
(* does not.                                                               *)
(***************************************************************************)
VARIABLES
  call,    \* "none", "running", "succeeded" or "failed"
  shown    \* has the message of the latest call been shown?

vars == <<call, shown>>

Init == call = "none" /\ shown = FALSE

Send == call = "none" /\ call' = "running" /\ UNCHANGED shown

Show == call \in {"running", "failed"} /\ ~shown /\ shown' = TRUE /\ UNCHANGED call

Succeed == call = "running" /\ shown /\ call' = "succeeded" /\ UNCHANGED shown

Fail == call = "running" /\ call' = "failed" /\ UNCHANGED shown

(* The caller looks at the result; what was in flight is forgotten. *)
Take == call \in {"succeeded", "failed"} /\ call' = "none" /\ shown' = FALSE

Next == Send \/ Show \/ Succeed \/ Fail \/ Take

Spec == Init /\ [][Next]_vars

===============================================================================
