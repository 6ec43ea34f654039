---------------------------- MODULE CommandsProofs ----------------------------
(***************************************************************************)
(* Proofs about Commands, for every set of configuration files, every      *)
(* deployment and every threshold; and, since a process makes its webhook  *)
(* calls one after the other, about FeishuNotifier in it.                  *)
(*                                                                         *)
(* Two facts about a call carry most of it: a reply that decodes is        *)
(* Feishu's own, and says in one of its codes whether the card was shown;  *)
(* and a call that returned nil had such a reply.  An exit code then tells *)
(* the truth because nothing it is about moves once the command has        *)
(* returned: the report, the result of the call and the signal.  The       *)
(* client is released because it is open exactly while buildChecker or a   *)
(* deferred call is still bound to close it (OpenClientHasItsClosing).     *)
(***************************************************************************)
EXTENDS Commands, CheckerProofs

NotifierTypes == Notifier!TypeOK

(* Before the request leaves there is nothing to hear, and an error ends the call. *)
CallBeginsAndEnds ==
  /\ at \in {"none", "sending"} => feishu = "none" /\ reply = Notifier!NoReply
  /\ err = "error" => at = "returned"

(* What decodes was said by Feishu, of this message. *)
DecodedRepliesAreFeishus ==
  /\ reply.decodes =>
       \/ feishu = "shown" /\ reply.code = 0 /\ reply.StatusCode = 0
       \/ feishu = "refused" /\ (reply.code # 0 \/ reply.StatusCode # 0)
  /\ at = "classify" => reply.decodes

SuccessMeansShown == at = "returned" /\ err = "nil" => feishu = "shown"

CallInv ==
  /\ NotifierTypes
  /\ CallBeginsAndEnds
  /\ DecodedRepliesAreFeishus
  /\ SuccessMeansShown

(* A stage belongs to a command, and is only reached with an accepted file. *)
StagesOfCommands ==
  /\ command \in {"check", "serve", "alert-test"}
  /\ stage \in {"loading", "alert-test", "connecting", "connected", "check",
                "written", "serve", "returning", "exited"}
  /\ stage \in {"check", "written"} => command = "check"
  /\ stage = "alert-test" => command = "alert-test"
  /\ stage = "serve" => command = "serve"
  /\ stage \notin {"loading", "returning", "exited"} \/ loop # "none" => Loads(file)
  /\ loop # "none" => command = "serve"
  /\ result \in {"none", "ok", "error"}
  /\ result = "none" <=> stage \notin {"returning", "exited"}
  /\ exit = IF stage = "exited" THEN result ELSE "none"

(* The client is open exactly while somebody is bound to close it: the command, *)
(* by its deferred call, or buildChecker, until it has handed it over.          *)
OpenClientHasItsClosing ==
  /\ client \in {"none", "open", "closed"} /\ deferred \in BOOLEAN
  /\ client = "open" <=> deferred \/ stage = "connected"
  /\ stage \in {"check", "written", "serve"} => deferred
  /\ deferred => stage \in {"check", "written", "serve", "returning"}

(* What is printed is a returned report, which is kept until the end. *)
PrintedReportIsKept ==
  /\ printed \in BOOLEAN
  /\ printed => stage \in {"written", "returning", "exited"} /\ step = "returned"
  /\ stage = "written" => printed

ResultsAreEarned ==
  /\ result = "ok" /\ command = "check" => printed /\ checkReport.healthy
  /\ result = "ok" /\ command = "serve" => ctx = "cancelled"
  /\ result = "ok" /\ command = "alert-test" => feishu = "shown"
  /\ result = "error" => ~(printed /\ checkReport.healthy)
  /\ listener = "shut down" => ctx = "cancelled"

ProcessInv ==
  /\ Inv
  /\ CallInv
  /\ StagesOfCommands
  /\ OpenClientHasItsClosing
  /\ PrintedReportIsKept
  /\ ResultsAreEarned

-------------------------------------------------------------------------------
(* The webhook call, wherever it is made (feishu.go:27-87). *)
LEMMA CallInitInv == Notifier!Init => CallInv
BY DEF Notifier!Init, CallInv, NotifierTypes, Notifier!TypeOK, Notifier!NoReply,
       CallBeginsAndEnds, DecodedRepliesAreFeishus, SuccessMeansShown

(* A reply that is heard is well formed. *)
LEMMA ReplyTypes ==
  /\ \A c, s \in Notifier!Codes :
       [status |-> 200, decodes |-> TRUE, code |-> c, StatusCode |-> s] \in Notifier!Reply
  /\ \A status \in {200, 302, 502} :
       [Notifier!NoReply EXCEPT !.status = status] \in Notifier!Reply
  /\ Notifier!NoReply \notin Notifier!Reply
<1>1. ASSUME NEW c \in Notifier!Codes, NEW s \in Notifier!Codes
      PROVE  [status |-> 200, decodes |-> TRUE, code |-> c, StatusCode |-> s]
               \in Notifier!Reply
  BY DEF Notifier!Reply
<1>2. ASSUME NEW status \in {200, 302, 502}
      PROVE  [Notifier!NoReply EXCEPT !.status = status] \in Notifier!Reply
  <2>1. Notifier!NoReply \in [status : {0}, decodes : BOOLEAN, code : Notifier!Codes,
                             StatusCode : Notifier!Codes]
    <3>1. 0 \in Notifier!Codes /\ FALSE \in BOOLEAN /\ 0 \in {0}
      BY DEF Notifier!Codes
    <3> QED BY <3>1, Zenon DEF Notifier!NoReply
  <2> QED BY <2>1 DEF Notifier!Reply
<1>3. Notifier!NoReply \notin Notifier!Reply
  BY DEF Notifier!Reply, Notifier!NoReply
<1> QED BY <1>1, <1>2, <1>3

(* Feishu's answer decides what is heard, if anything is. *)
LEMMA SaysInv ==
  ASSUME CallInv, NEW c \in Notifier!Codes, NEW s \in Notifier!Codes,
         NEW outcome \in {"shown", "refused"}, Notifier!Says(outcome, c, s),
         outcome = "shown" <=> c = 0 /\ s = 0
  PROVE  CallInv'
<1> USE DEF CallInv
<1>1. /\ feishu = "waiting" /\ feishu' = outcome
      /\ at' = at /\ err' = err /\ at \notin {"none", "sending"}
      /\ reply' = IF at = "status" /\ reply = Notifier!NoReply
                    THEN [status |-> 200, decodes |-> TRUE, code |-> c, StatusCode |-> s]
                    ELSE reply
  BY DEF Notifier!Says, CallBeginsAndEnds
<1>2. ~reply.decodes /\ at # "classify"
  BY <1>1 DEF DecodedRepliesAreFeishus
<1>3. NotifierTypes'
  BY <1>1, ReplyTypes DEF NotifierTypes, Notifier!TypeOK
<1>4. DecodedRepliesAreFeishus'
  <2>1. CASE at = "status" /\ reply = Notifier!NoReply
    BY <1>1, <2>1 DEF DecodedRepliesAreFeishus
  <2>2. CASE ~(at = "status" /\ reply = Notifier!NoReply)
    BY <1>1, <1>2, <2>2 DEF DecodedRepliesAreFeishus
  <2> QED BY <2>1, <2>2
<1>5. CallBeginsAndEnds' /\ SuccessMeansShown'
  BY <1>1 DEF CallBeginsAndEnds, SuccessMeansShown
<1> QED BY <1>3, <1>4, <1>5

LEMMA CallStepInv == CallInv /\ [Notifier!Next]_callVars => CallInv'
<1> SUFFICES ASSUME CallInv, [Notifier!Next]_callVars PROVE CallInv'
  OBVIOUS
<1> USE DEF CallInv
<1>1. CASE Notifier!FeishuShows \/ Notifier!FeishuRefuses
  <2>1. CASE Notifier!FeishuShows
    BY <2>1, SaysInv DEF Notifier!FeishuShows, Notifier!Codes
  <2>2. CASE Notifier!FeishuRefuses
    BY <2>2, SaysInv DEF Notifier!FeishuRefuses
  <2> QED BY <1>1, <2>1, <2>2
<1>2. CASE Notifier!GatewayAnswers
  <2>1. PICK status \in {200, 302, 502} :
          reply' = [Notifier!NoReply EXCEPT !.status = status]
    BY <1>2 DEF Notifier!GatewayAnswers
  <2>2. reply' \in Notifier!Reply /\ ~reply'.decodes
    BY <2>1, ReplyTypes DEF Notifier!NoReply
  <2> QED BY <1>2, <2>2
          DEF Notifier!GatewayAnswers, NotifierTypes, Notifier!TypeOK, CallBeginsAndEnds,
              DecodedRepliesAreFeishus, SuccessMeansShown
<1>3. CASE Notifier!BodyArrives \/ Notifier!Classify
  BY <1>3 DEF Notifier!BodyArrives, Notifier!Classify, Notifier!BusinessCode,
              Notifier!GoOn, Notifier!Error, NotifierTypes, Notifier!TypeOK,
              CallBeginsAndEnds, DecodedRepliesAreFeishus, SuccessMeansShown
<1>4. CASE Notifier!NotifyBatch \/ Notifier!RequestArrives \/ Notifier!RequestFails
  BY <1>4 DEF Notifier!NotifyBatch, Notifier!RequestArrives, Notifier!RequestFails,
              Notifier!Error, NotifierTypes, Notifier!TypeOK, Notifier!NoReply,
              CallBeginsAndEnds, DecodedRepliesAreFeishus, SuccessMeansShown
<1>5. CASE Notifier!StatusArrives \/ Notifier!TimesOut
  BY <1>5 DEF Notifier!StatusArrives, Notifier!TimesOut, Notifier!GoOn, Notifier!Error,
              NotifierTypes, Notifier!TypeOK, CallBeginsAndEnds,
              DecodedRepliesAreFeishus, SuccessMeansShown
<1>6. CASE Notifier!Taken
  BY <1>6 DEF Notifier!Taken, Notifier!NoReply, NotifierTypes, Notifier!TypeOK,
              CallBeginsAndEnds, DecodedRepliesAreFeishus, SuccessMeansShown
<1>7. CASE UNCHANGED callVars
  BY <1>7 DEF callVars, NotifierTypes, Notifier!TypeOK, CallBeginsAndEnds,
              DecodedRepliesAreFeishus, SuccessMeansShown
<1> QED BY <1>1, <1>2, <1>3, <1>4, <1>5, <1>6, <1>7
        DEF Notifier!Next, Notifier!ExchangeSteps, Notifier!ExternalSteps

(* A step of the call is a step of the channel, or shows nothing of itself. *)
LEMMA CallStepIsAChannelStep ==
  CallInv /\ [Notifier!Next]_callVars
    => [Notifier!Channel!Next]_(Notifier!Channel!vars)
<1> SUFFICES ASSUME CallInv, [Notifier!Next]_callVars
             PROVE  [Notifier!Channel!Next]_(Notifier!Channel!vars)
  OBVIOUS
<1> USE DEF CallInv, Notifier!Channel!vars
<1>1. CASE Notifier!NotifyBatch
  BY <1>1 DEF Notifier!NotifyBatch, Notifier!Channel!Next, Notifier!Channel!Send
<1>2. CASE Notifier!FeishuShows
  BY <1>2 DEF Notifier!FeishuShows, Notifier!Says, SuccessMeansShown, NotifierTypes,
              Notifier!TypeOK, Notifier!Channel!Next, Notifier!Channel!Show
<1>3. CASE Notifier!FeishuRefuses \/ Notifier!GatewayAnswers
  BY <1>3 DEF Notifier!FeishuRefuses, Notifier!GatewayAnswers, Notifier!Says
<1>4. CASE Notifier!Classify
  <2>1. reply.decodes /\ err = "nil"
    BY <1>4 DEF Notifier!Classify, DecodedRepliesAreFeishus, CallBeginsAndEnds,
                NotifierTypes, Notifier!TypeOK
  <2> QED BY <1>4, <2>1
          DEF Notifier!Classify, Notifier!BusinessCode, Notifier!GoOn, Notifier!Error,
              DecodedRepliesAreFeishus, Notifier!Channel!Next, Notifier!Channel!Succeed,
              Notifier!Channel!Fail
<1>5. CASE Notifier!RequestArrives
  BY <1>5 DEF Notifier!RequestArrives, CallBeginsAndEnds
<1>6. CASE Notifier!RequestFails \/ Notifier!TimesOut
  BY <1>6 DEF Notifier!RequestFails, Notifier!TimesOut, Notifier!Error,
              Notifier!Channel!Next, Notifier!Channel!Fail
<1>7. CASE Notifier!StatusArrives \/ Notifier!BodyArrives
  BY <1>7 DEF Notifier!StatusArrives, Notifier!BodyArrives, Notifier!GoOn,
              Notifier!Error, Notifier!Channel!Next, Notifier!Channel!Fail
<1>8. CASE Notifier!Taken
  BY <1>8 DEF Notifier!Taken, Notifier!Channel!Next, Notifier!Channel!Take
<1>9. CASE UNCHANGED callVars
  BY <1>9 DEF callVars
<1> QED BY <1>1, <1>2, <1>3, <1>4, <1>5, <1>6, <1>7, <1>8, <1>9
        DEF Notifier!Next, Notifier!ExchangeSteps, Notifier!ExternalSteps

-------------------------------------------------------------------------------
(* What a step of the process is to its parts: a step of the webhook call, or  *)
(* of the check, or of neither (root.go:59-64, 82, 220-243).                   *)
LEMMA CallsAreTheNotifiers == [ProcessNext]_allVars => [Notifier!Next]_callVars
<1> SUFFICES ASSUME [ProcessNext]_allVars PROVE [Notifier!Next]_callVars
  OBVIOUS
<1>1. CASE Start
  BY <1>1 DEF Start, LoadRuntime, ReadFileFails, Connect, ConnectFails, BuildCheckerFails,
              CheckBegins, ServeBegins
<1>2. CASE Check
  BY <1>2 DEF Check, CheckStep, CheckFails, WriteReport, WriteFails, CheckEnds
<1>3. CASE AlertTest
  BY <1>3 DEF AlertTest, AlertTestRefused, AlertTestSends, AlertTestEnds, Notifier!Next
<1>4. CASE CallStep \/ WebhookActs
  BY <1>4 DEF CallStep, WebhookActs, Notifier!Next
<1>5. CASE Serve \/ Shutdown \/ ListenFails \/ Signal \/ MilvusChanges \/ End
  BY <1>5 DEF Serve, Listen, ServeEnds, Shutdown, ListenFails, Signal, MilvusChanges,
              End, DeferredClose, Exit
<1>6. CASE Loop
  BY <1>6 DEF Loop, LoopBegins, LoopNotifies, LoopEnds, Notifier!Next
<1>7. CASE UNCHANGED allVars
  BY <1>7 DEF allVars
<1> QED BY <1>1, <1>2, <1>3, <1>4, <1>5, <1>6, <1>7 DEF ProcessNext

LEMMA ChecksAreTheCheckers == Inv /\ [ProcessNext]_allVars => Inv'
<1> SUFFICES ASSUME Inv, [ProcessNext]_allVars PROVE Inv'
  OBVIOUS
<1>1. CASE CheckStep
  BY <1>1, CheckStepInv DEF CheckStep, ScanSteps, others
<1>2. CASE MilvusChanges
  BY <1>2, ServerStepInv DEF MilvusChanges
<1>3. CASE UNCHANGED checkVars
  BY <1>3, StutterInv DEF checkVars, vars
<1>4. CASE Start \/ AlertTest \/ CallStep \/ Serve \/ Shutdown \/ Loop
  <2>1. UNCHANGED checkVars
    BY <1>4 DEF Start, LoadRuntime, ReadFileFails, Connect, ConnectFails, BuildCheckerFails,
                CheckBegins, ServeBegins,
                AlertTest, AlertTestRefused, AlertTestSends, AlertTestEnds, CallStep,
                Serve, Listen, ServeEnds, Shutdown, Loop, LoopBegins, LoopNotifies,
                LoopEnds
  <2> QED BY <1>3, <2>1
<1>5. CASE CheckFails \/ WriteReport \/ WriteFails \/ CheckEnds \/ End
           \/ ListenFails \/ Signal \/ WebhookActs \/ UNCHANGED allVars
  <2>1. UNCHANGED checkVars
    BY <1>5 DEF CheckFails, WriteReport, WriteFails, CheckEnds, ListenFails, Signal,
                WebhookActs, End, DeferredClose, Exit, allVars
  <2> QED BY <1>3, <2>1
<1> QED BY <1>1, <1>2, <1>4, <1>5 DEF ProcessNext, Check

-------------------------------------------------------------------------------
PartsInv ==
  /\ StagesOfCommands
  /\ OpenClientHasItsClosing
  /\ PrintedReportIsKept
  /\ ResultsAreEarned

(* Steps of the other goroutines and of the outside leave the command where it *)
(* is; a signal stays sent, and a card shown.                                  *)
LEMMA CommandWaits ==
  ASSUME PartsInv,
         UNCHANGED <<command, file, stage, client, deferred, printed, result, exit>>,
         UNCHANGED <<step, checkReport>>,
         loop' = "none" <=> loop = "none",
         ctx = "cancelled" => ctx' = "cancelled",
         command = "alert-test" /\ feishu = "shown" => feishu' = "shown",
         listener' = "shut down" => listener = "shut down" \/ ctx = "cancelled"
  PROVE  PartsInv'
<1>1. StagesOfCommands'
  BY DEF PartsInv, StagesOfCommands
<1>2. OpenClientHasItsClosing'
  BY DEF PartsInv, OpenClientHasItsClosing
<1>3. PrintedReportIsKept' /\ ResultsAreEarned'
  BY DEF PartsInv, PrintedReportIsKept, ResultsAreEarned
<1> QED BY <1>1, <1>2, <1>3 DEF PartsInv

(* What a result takes, when the command returns it. *)
Earned(e) ==
  /\ e = "ok" /\ command = "check" => printed /\ checkReport.healthy
  /\ e = "ok" /\ command = "serve" => ctx = "cancelled"
  /\ e = "ok" /\ command = "alert-test" => feishu = "shown"
  /\ e = "error" => ~(printed /\ checkReport.healthy)

(* A command that returns leaves everything as it is; unless it is buildChecker *)
(* that fails, an open client is left to the deferred call (root.go:80, 107,    *)
(* 181-187).                                                                    *)
LEMMA ReturnInv ==
  ASSUME PartsInv, stage \notin {"returning", "exited"}, NEW e \in {"ok", "error"},
         Earned(e), ReturnWith(e), UNCHANGED <<checkVars, callVars>>,
         \/ stage # "connected" /\ UNCHANGED clientVars
         \/ stage = "connected" /\ CloseInBuildChecker
  PROVE  PartsInv'
<1> USE DEF PartsInv, ReturnWith, checkVars, scanVars, callVars
<1>1. StagesOfCommands' /\ PrintedReportIsKept'
  BY DEF StagesOfCommands, PrintedReportIsKept
<1>2. OpenClientHasItsClosing'
  <2>1. CASE stage # "connected" /\ UNCHANGED clientVars
    BY <2>1 DEF StagesOfCommands, OpenClientHasItsClosing, clientVars
  <2>2. CASE stage = "connected" /\ CloseInBuildChecker
    BY <2>2 DEF OpenClientHasItsClosing, CloseInBuildChecker, CloseNow, Close
  <2> QED BY <2>1, <2>2
<1>3. ResultsAreEarned'
  BY DEF ResultsAreEarned, Earned
<1> QED BY <1>1, <1>2, <1>3

(* Nothing was printed before a check has returned its report, so every error  *)
(* before that is one.                                                         *)
LEMMA EarlyErrorsAreEarned ==
  PartsInv /\ stage \notin {"written", "returning", "exited"} => Earned("error")
BY DEF PartsInv, PrintedReportIsKept, Earned

LEMMA StartInv == PartsInv /\ Start => PartsInv'
<1> SUFFICES ASSUME PartsInv, Start PROVE PartsInv'
  OBVIOUS
<1> USE DEF Start, LoadRuntime, ReadFileFails, Connect, ConnectFails, BuildCheckerFails,
            CheckBegins, ServeBegins
<1>1. UNCHANGED <<checkVars, callVars>> /\ stage \in {"loading", "connecting", "connected"}
  OBVIOUS
<1>2. CASE Return("error") /\ stage # "connected"
  BY <1>1, <1>2, ReturnInv, EarlyErrorsAreEarned DEF Return
<1>3. CASE BuildCheckerFails
  BY <1>1, <1>3, ReturnInv, EarlyErrorsAreEarned
<1>4. CASE ~(Return("error") /\ stage # "connected") /\ ~BuildCheckerFails
  <2>1. /\ \/ stage' \in {"alert-test", "connecting"} /\ stage = "loading" /\ Loads(file)
                /\ (stage' = "alert-test" => command = "alert-test")
                /\ UNCHANGED clientVars /\ loop' = loop
           \/ stage' = "connected" /\ stage = "connecting"
                /\ client' = "open" /\ UNCHANGED <<deferred, loop>>
           \/ stage' = command /\ stage = "connected" /\ command \in {"check", "serve"}
                /\ deferred' = TRUE /\ client' = client
                /\ (command = "check" => loop' = loop)
        /\ UNCHANGED <<command, file, printed, listener, ctx, result, exit>>
    BY <1>4 DEF GoTo, DeferInCheck, DeferInServe, Defer
  <2>2. stage' \notin {"loading", "written", "returning", "exited"}
    BY <2>1 DEF PartsInv, StagesOfCommands
  <2>3. StagesOfCommands'
    BY <2>1, <2>2 DEF PartsInv, StagesOfCommands
  <2>4. OpenClientHasItsClosing'
    <3>1. CASE stage' = "connected"
      BY <2>1, <3>1 DEF PartsInv, StagesOfCommands, OpenClientHasItsClosing
    <3>2. CASE stage = "loading"
      BY <2>1, <3>2 DEF PartsInv, OpenClientHasItsClosing, clientVars
    <3>3. CASE stage = "connected"
      BY <2>1, <3>3 DEF PartsInv, OpenClientHasItsClosing
    <3> QED BY <2>1, <3>1, <3>2, <3>3
  <2>5. PrintedReportIsKept'
    BY <1>1, <2>1, <2>2 DEF PartsInv, PrintedReportIsKept, checkVars, scanVars
  <2>6. ResultsAreEarned'
    BY <1>1, <2>1 DEF PartsInv, StagesOfCommands, ResultsAreEarned
  <2> QED BY <2>3, <2>4, <2>5, <2>6 DEF PartsInv
<1> QED BY <1>2, <1>3, <1>4

LEMMA CheckInv == PartsInv /\ Inv /\ Check => PartsInv'
<1> SUFFICES ASSUME PartsInv, Inv, Check PROVE PartsInv'
  OBVIOUS
<1>1. CASE CheckStep
  BY <1>1 DEF CheckStep, PartsInv, StagesOfCommands, OpenClientHasItsClosing,
              PrintedReportIsKept, ResultsAreEarned, processVars, clientVars, callVars
<1>2. CASE CheckFails \/ WriteFails
  BY <1>2, ReturnInv, EarlyErrorsAreEarned DEF CheckFails, WriteFails, Return
<1>3. CASE WriteReport
  BY <1>3 DEF WriteReport, PartsInv, StagesOfCommands, OpenClientHasItsClosing,
              PrintedReportIsKept, ResultsAreEarned, clientVars, checkVars, scanVars, callVars
<1>4. CASE CheckEnds
  <2>1. stage = "written" /\ printed /\ command = "check"
    BY <1>4 DEF CheckEnds, PartsInv, StagesOfCommands, PrintedReportIsKept
  <2>2. FailureError \in {"ok", "error"} /\ Earned(FailureError)
    BY <2>1 DEF FailureError, Earned
  <2> QED BY <1>4, <2>1, <2>2, ReturnInv DEF CheckEnds, Return
<1> QED BY <1>1, <1>2, <1>3, <1>4 DEF Check

LEMMA AlertTestInv == PartsInv /\ CallInv /\ AlertTest => PartsInv'
<1> SUFFICES ASSUME PartsInv, CallInv, AlertTest PROVE PartsInv'
  OBVIOUS
<1>1. CASE AlertTestRefused
  BY <1>1, ReturnInv, EarlyErrorsAreEarned DEF AlertTestRefused, Return
<1>2. CASE AlertTestSends
  BY <1>2 DEF AlertTestSends, Notifier!NotifyBatch, PartsInv, StagesOfCommands,
              OpenClientHasItsClosing, PrintedReportIsKept, ResultsAreEarned, processVars,
              clientVars, checkVars, scanVars
<1>3. CASE AlertTestEnds
  <2>1. stage = "alert-test" /\ at = "returned" /\ command = "alert-test"
    BY <1>3 DEF AlertTestEnds, PartsInv, StagesOfCommands
  <2>2. err = "nil" => Earned("ok")
    BY <2>1 DEF CallInv, SuccessMeansShown, Earned
  <2>3. Earned("error")
    BY <2>1, EarlyErrorsAreEarned
  <2> QED BY <1>3, <2>1, <2>2, <2>3, ReturnInv DEF AlertTestEnds, Return
<1> QED BY <1>1, <1>2, <1>3 DEF AlertTest

(* A card that was shown stays shown, whatever happens to the call and to the *)
(* process (feishu.go:59-86).                                                 *)
LEMMA OutsideInv ==
  PartsInv /\ CallInv /\ (CallStep \/ WebhookActs \/ Signal \/ MilvusChanges)
    => PartsInv'
<1> SUFFICES ASSUME PartsInv, CallInv, CallStep \/ WebhookActs \/ Signal \/ MilvusChanges
             PROVE  PartsInv'
  OBVIOUS
<1> USE CommandWaits DEF processVars, clientVars, checkVars, scanVars, callVars
<1>1. CASE CallStep
  <2>1. feishu = "shown" => feishu' = "shown"
    BY <1>1 DEF CallStep, Notifier!ExchangeSteps, Notifier!RequestArrives,
                Notifier!RequestFails, Notifier!StatusArrives, Notifier!BodyArrives,
                Notifier!Classify, Notifier!TimesOut, Notifier!GoOn, Notifier!Error,
                Notifier!BusinessCode, CallInv, CallBeginsAndEnds
  <2> QED BY <1>1, <2>1 DEF CallStep
<1>2. CASE WebhookActs
  <2>1. feishu = "shown" => feishu' = "shown"
    BY <1>2 DEF WebhookActs, Notifier!ExternalSteps, Notifier!FeishuShows,
                Notifier!FeishuRefuses, Notifier!Says, Notifier!GatewayAnswers
  <2> QED BY <1>2, <2>1 DEF WebhookActs
<1>3. CASE Signal
  BY <1>3 DEF Signal
<1>4. CASE MilvusChanges
  BY <1>4 DEF MilvusChanges
<1> QED BY <1>1, <1>2, <1>3, <1>4

(* An accepted file gives the refresh loop a period it can tick with           *)
(* (config.go:166).                                                            *)
LEMMA AcceptedIntervalIsPositive == Loads(file) => cfg.interval > 0
<1>1. "interval" \in Positive
  BY DEF Positive
<1> QED BY <1>1 DEF Loads, Validate, cfg

(* The other goroutines of serve touch neither the client nor what is returned, *)
(* whether they run before the command returns or while it closes the client.   *)
LEMMA LoopInv == PartsInv /\ (Shutdown \/ Loop) => PartsInv'
<1> SUFFICES ASSUME PartsInv, Shutdown \/ Loop PROVE PartsInv'
  OBVIOUS
<1> USE CommandWaits DEF clientVars, checkVars, scanVars, callVars
<1>1. CASE LoopBegins
  <2>1. Loads(file)
    BY <1>1 DEF LoopBegins, PartsInv, StagesOfCommands
  <2>2. UNCHANGED <<stage, exit>> /\ loop' # "none"
    BY <1>1, <2>1, AcceptedIntervalIsPositive DEF LoopBegins
  <2> QED BY <1>1, <2>2 DEF LoopBegins
<1>2. CASE Shutdown
  BY <1>2 DEF Shutdown
<1>3. CASE LoopEnds
  BY <1>3 DEF LoopEnds
<1>4. CASE LoopNotifies
  <2>1. command # "alert-test"
    BY <1>4 DEF LoopNotifies, PartsInv, StagesOfCommands
  <2> QED BY <1>4, <2>1 DEF LoopNotifies, processVars
<1> QED BY <1>1, <1>2, <1>3, <1>4 DEF Loop

LEMMA ServeInv == PartsInv /\ (Serve \/ ListenFails) => PartsInv'
<1> SUFFICES ASSUME PartsInv, Serve \/ ListenFails PROVE PartsInv'
  OBVIOUS
<1>1. CASE ServeEnds
  <2>1. Earned("ok")
    BY <1>1 DEF ServeEnds, PartsInv, StagesOfCommands, ResultsAreEarned, Earned
  <2> QED BY <1>1, <2>1, ReturnInv DEF ServeEnds, Return
<1>2. CASE ListenFails
  BY <1>2, ReturnInv, EarlyErrorsAreEarned DEF ListenFails, Return
<1>3. CASE Listen
  BY <1>3, CommandWaits DEF Listen, clientVars, checkVars, scanVars, callVars
<1> QED BY <1>1, <1>2, <1>3 DEF Serve

(* What the command has deferred, it does before the process ends, and it is    *)
(* the only closing of that client (root.go:80, 107).                           *)
LEMMA EndInv == PartsInv /\ End => PartsInv'
<1> SUFFICES ASSUME PartsInv, End PROVE PartsInv'
  OBVIOUS
<1> USE DEF PartsInv, StagesOfCommands, PrintedReportIsKept, ResultsAreEarned, checkVars,
            scanVars, callVars
<1>1. CASE DeferredClose
  <2>1. OpenClientHasItsClosing'
    BY <1>1 DEF DeferredClose, Close, OpenClientHasItsClosing
  <2> QED BY <1>1, <2>1 DEF DeferredClose
<1>2. CASE Exit
  BY <1>2 DEF Exit, OpenClientHasItsClosing, clientVars
<1> QED BY <1>1, <1>2 DEF End

LEMMA ProcessInitInv == ProcessInit => ProcessInv
BY InitInv, CallInitInv
   DEF ProcessInit, ProcessInv, StagesOfCommands, OpenClientHasItsClosing,
       PrintedReportIsKept, ResultsAreEarned

LEMMA ProcessStepInv == ProcessInv /\ [ProcessNext]_allVars => ProcessInv'
<1> SUFFICES ASSUME ProcessInv, [ProcessNext]_allVars PROVE ProcessInv'
  OBVIOUS
<1>1. Inv' /\ CallInv'
  BY ChecksAreTheCheckers, CallsAreTheNotifiers, CallStepInv DEF ProcessInv
<1>2. PartsInv'
  <2>1. PartsInv /\ Inv /\ CallInv
    BY DEF ProcessInv, PartsInv
  <2>2. CASE UNCHANGED allVars
    BY <2>1, <2>2, CommandWaits DEF allVars, processVars, clientVars, checkVars, scanVars,
                                    callVars
  <2> QED BY <2>1, <2>2, StartInv, CheckInv, AlertTestInv, OutsideInv, ServeInv, LoopInv,
             EndInv
          DEF ProcessNext
<1> QED BY <1>1, <1>2 DEF ProcessInv, PartsInv

LEMMA ProcessKeepsInv == ProcessSpec => []ProcessInv
BY ProcessInitInv, ProcessStepInv, PTL DEF ProcessSpec

-------------------------------------------------------------------------------
(* Whatever a signal, a failing writer or a failing Milvus does to `check`, a  *)
(* report it gets is healthy exactly when all it covers could be listed and is *)
(* healthy (checker.go:34-85, root.go:82-89).                                  *)
THEOREM HealthyMeansHealthy == ProcessSpec => []HealthyReportIsComplete
<1>1. ProcessInv => HealthyReportIsComplete
  BY InvIsEnough DEF ProcessInv
<1> QED BY <1>1, ProcessKeepsInv, PTL

(* And no collection that was listed is missing from it, whether it could be   *)
(* inspected or not (checker.go:57-82).                                        *)
THEOREM ListedMeansReported == ProcessSpec => []EveryListedCollectionIsReported
<1>1. ProcessInv => EveryListedCollectionIsReported
  BY InvIsEnough DEF ProcessInv
<1> QED BY <1>1, ProcessKeepsInv, PTL

(* Exit code 0 of `check` means a printed report of all listed collections,    *)
(* all fit; of `serve`, that it was told to stop; and a check that printed a   *)
(* healthy report never exits with 1 (root.go:82-89, 145-149).                 *)
THEOREM ExitCodesTellTheTruth == ProcessSpec => []ExitCodeTellsTheTruth
<1>1. ProcessInv => ExitCodeTellsTheTruth
  <2> SUFFICES ASSUME ProcessInv PROVE ExitCodeTellsTheTruth
    OBVIOUS
  <2>1. HealthyReportIsComplete /\ EveryListedCollectionIsReported
    BY InvIsEnough DEF ProcessInv
  <2>2. ASSUME exit = "ok", command = "check"
        PROVE  /\ printed /\ checkReport.warnings = {}
               /\ DOMAIN checkReport.items = listed
               /\ \A c \in listed : CollectionHealthy(checkReport.items[c])
    <3>1. printed /\ checkReport.healthy /\ step = "returned"
      BY <2>2 DEF ProcessInv, ResultsAreEarned, PrintedReportIsKept, StagesOfCommands
    <3> QED BY <2>1, <3>1 DEF HealthyReportIsComplete, EveryListedCollectionIsReported
  <2> QED BY <2>2 DEF ProcessInv, StagesOfCommands, ResultsAreEarned, ExitCodeTellsTheTruth
<1> QED BY <1>1, ProcessKeepsInv, PTL

(* alert-test exits with 0 only if Feishu showed the card (feishu.go:59-86,    *)
(* README.md:64).                                                              *)
THEOREM TestExitsMeanShown == ProcessSpec => []TestExitMeansShown
<1>1. ProcessInv => TestExitMeansShown
  BY DEF ProcessInv, StagesOfCommands, ResultsAreEarned, TestExitMeansShown
<1> QED BY <1>1, ProcessKeepsInv, PTL

(* A command works on an open Milvus client only, and no process returns with   *)
(* one open or closes it a second time: of the closing in buildChecker and the  *)
(* deferred ones of the commands, each path makes exactly one (root.go:80, 107, *)
(* 173-186).                                                                    *)
THEOREM ClientsAreReleasedOnce == ProcessSpec => []ClientIsReleasedOnce
<1>1. ProcessInv => ClientIsReleasedOnce
  BY DEF ProcessInv, StagesOfCommands, OpenClientHasItsClosing, ClientIsReleasedOnce
<1> QED BY <1>1, ProcessKeepsInv, PTL

(* What Validate accepts never makes the ticker of the loop panic (config.go:166, *)
(* root.go:221).                                                                  *)
THEOREM LoopNeverPanics == ProcessSpec => []AcceptedConfigNeverPanics
<1>1. ProcessInv => AcceptedConfigNeverPanics
  BY DEF ProcessInv, StagesOfCommands, AcceptedConfigNeverPanics
<1> QED BY <1>1, ProcessKeepsInv, PTL

(* The webhook calls of a process implement AlertChannel: a card is shown at   *)
(* most once per call, before the call succeeds, and possibly after it has     *)
(* failed (feishu.go:27-87).                                                   *)
THEOREM WebhookCallsAreTheChannel == ProcessSpec => IsTheAlertChannel
<1>1. ProcessInit => Notifier!Channel!Init
  BY DEF ProcessInit, Notifier!Init, Notifier!Channel!Init
<1>2. ProcessInv /\ [ProcessNext]_allVars
        => [Notifier!Channel!Next]_(Notifier!Channel!vars)
  BY CallsAreTheNotifiers, CallStepIsAChannelStep DEF ProcessInv
<1> QED BY <1>1, <1>2, ProcessKeepsInv, PTL
        DEF ProcessSpec, IsTheAlertChannel, Notifier!ImplementsChannel,
            Notifier!Channel!Spec
===============================================================================
