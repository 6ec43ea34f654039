---------------------------- MODULE FeishuNotifier ----------------------------
(***************************************************************************)
(* One NotifyBatch call (internal/alert/feishu.go) against a Feishu        *)
(* webhook that may be slow, refuse the message, or be hidden behind a     *)
(* gateway that answers for it.  Feishu speaks two protocols: the older    *)
(* one reports in StatusCode, the newer one in code; a key that is absent  *)
(* decodes to 0.  The timeout of the HTTP client covers the whole          *)
(* exchange, the reading of the body included; a client whose timeout is   *)
(* not positive has none.                                                  *)
(*                                                                         *)
(* The card's contents are left out, and so is the empty batch (lines      *)
(* 28-30), which neither the tracker nor alert-test sends.                 *)
(***************************************************************************)
EXTENDS Integers

VARIABLES
  at,      \* "none", "sending", "status", "body", "classify", "returned"
  feishu,  \* external: "none", "waiting", "shown", "refused" of the message
  reply,   \* external: the reply on its way, or NoReply
  err      \* the result: "nil" or "error"; "nil" while there is none

vars == <<at, feishu, reply, err>>

(* Feishu's codes: 0 is success; two refusals, so that the protocols can differ. *)
Codes == 0 .. 2

(* A reply: the HTTP status, and the body, decoded or not decodable. *)
Reply == [status : {200, 302, 502}, decodes : BOOLEAN, code : Codes, StatusCode : Codes]
NoReply == [status |-> 0, decodes |-> FALSE, code |-> 0, StatusCode |-> 0]

(* Type invariant: the call is at one of its steps, and its result is nil or *)
(* an error (feishu.go:27-87).                                               *)
TypeOK ==
  /\ at \in {"none", "sending", "status", "body", "classify", "returned"}
  /\ feishu \in {"none", "waiting", "shown", "refused"}
  /\ reply \in Reply \cup {NoReply}
  /\ err \in {"nil", "error"}

Init == at = "none" /\ feishu = "none" /\ reply = NoReply /\ err = "nil"

-------------------------------------------------------------------------------
(* Lines 31-58: the request is built. *)
NotifyBatch == at = "none" /\ at' = "sending" /\ UNCHANGED <<feishu, reply, err>>

GoOn(next) == at' = next /\ UNCHANGED <<feishu, reply, err>>
Error      == at' = "returned" /\ err' = "error" /\ UNCHANGED <<feishu, reply>>

(* Line 59: the request leaves; lines 60-62: it does not. *)
RequestArrives ==
  /\ at = "sending"
  /\ at' = "status" /\ feishu' = "waiting"
  /\ UNCHANGED <<reply, err>>

RequestFails == at = "sending" /\ Error

(* External: Feishu answers, and is heard if the call still waits for that. *)
Says(outcome, c, s) ==
  /\ feishu = "waiting" /\ at # "none"
  /\ feishu' = outcome
  /\ reply' = IF at = "status" /\ reply = NoReply
                THEN [status |-> 200, decodes |-> TRUE, code |-> c, StatusCode |-> s]
                ELSE reply
  /\ UNCHANGED <<at, err>>

(* External: it shows the card, and both protocols say 0; or it refuses the *)
(* card, in one protocol or in both.                                        *)
FeishuShows   == Says("shown", 0, 0)
FeishuRefuses == \E c, s \in Codes : (c # 0 \/ s # 0) /\ Says("refused", c, s)

(* External: something between the two answers instead, whether the card was  *)
(* shown or not: another status, or a body that is not JSON.  That what        *)
(* answers 200 in JSON is Feishu is an assumption; the code does not look.     *)
GatewayAnswers ==
  /\ at = "status" /\ reply = NoReply
  /\ \E status \in {200, 302, 502} : reply' = [NoReply EXCEPT !.status = status]
  /\ UNCHANGED <<at, feishu, err>>

(* Lines 64-67. *)
StatusArrives ==
  /\ at = "status" /\ reply # NoReply
  /\ IF reply.status < 200 \/ reply.status >= 300 THEN Error ELSE GoOn("body")

(* Lines 74-76. *)
BodyArrives == at = "body" /\ IF reply.decodes THEN GoOn("classify") ELSE Error

(* Mutant: only the newer protocol is read. *)
BusinessCodeOfNewProtocol == reply.code

(* Lines 77-82: StatusCode, unless it is 0. *)
BusinessCode == IF reply.StatusCode # 0 THEN reply.StatusCode ELSE reply.code

(* Lines 83-86. *)
Classify == at = "classify" /\ IF BusinessCode # 0 THEN Error ELSE GoOn("returned")

(* The end of client.Timeout, or of ctx, in the exchange (lines 20, 54). *)
TimesOut == at \in {"sending", "status", "body"} /\ Error

(* The caller takes the result; what is still in flight is forgotten. *)
Taken ==
  /\ at = "returned"
  /\ at' = "none" /\ feishu' = "none" /\ reply' = NoReply /\ err' = "nil"

ExchangeSteps == RequestArrives \/ RequestFails \/ StatusArrives \/ BodyArrives \/ Classify
ExternalSteps == FeishuShows \/ FeishuRefuses \/ GatewayAnswers

Next == NotifyBatch \/ ExchangeSteps \/ TimesOut \/ Taken \/ ExternalSteps

Spec == Init /\ [][Next]_vars

-------------------------------------------------------------------------------
(* What the caller sees of the call. *)
Channel ==
  INSTANCE AlertChannel
    WITH call <- CASE at = "none"                       -> "none"
                   [] at = "returned" /\ err = "nil" -> "succeeded"
                   [] at = "returned" /\ err # "nil" -> "failed"
                   [] OTHER                          -> "running",
         shown <- feishu = "shown"

(* The notifier is the channel that AlertTracker is modelled with              *)
(* (NotifyAcknowledged, NotifyFailed): a card is shown at most once per call,  *)
(* before the call succeeds, and possibly after it has failed                  *)
(* (feishu.go:27-87).                                                          *)
ImplementsChannel == Channel!Spec

===============================================================================
