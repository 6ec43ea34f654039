----------------------------- MODULE MilvusClient -----------------------------
(***************************************************************************)
(* The Milvus client (internal/milvus/client.go).  One SDK connection is   *)
(* shared by all calls, and the database it talks to is a state of that    *)
(* connection: ListCollections and InspectCollection switch it first, then *)
(* name collections without saying of which database.  c.mu is held for a  *)
(* whole call, so there is one call at a time; each of its requests is a   *)
(* step, and Milvus changes between them.  All the requests of a call      *)
(* share one deadline: once it has passed, every further request fails.    *)
(*                                                                         *)
(* Left out of an item: the collection id, the entity and partition counts *)
(* and the warnings, which are only shown.                                 *)
(***************************************************************************)
EXTENDS Integers, FiniteSets, Domain

CONSTANTS
  Databases,
  Names,     \* collection names: two databases may use the same ones
  Indexes,   \* index names
  Codes      \* the load state codes of the SDK that Milvus shows

ASSUME KeysAssumption == Collections = Databases \X Names

SdkCodes == {"NotExist", "NotLoad", "Loading", "Loaded", "Unloading"}

ASSUME CodesAssumption == Codes \subseteq SdkCodes

VARIABLES
  codes,      \* external: the collections Milvus has, with their load codes
  finished,   \* external: per collection, its indexes: built or not
  session,    \* external: the database of the connection
  call,       \* the method that runs, or "none"
  target,     \* its arguments
  at,         \* the next request of the method
  expired,    \* requestCtx is past its deadline, or ctx was cancelled
  item,       \* report of InspectCollection
  toDescribe, \* the index names left in the loop of line 143
  names,      \* what ListCollections returns
  seen        \* history: what the target has shown since the call began

serverVars == <<codes, finished>>
vars == <<serverVars, session, call, target, at, expired, item, toDescribe, names, seen>>

Calls == {"none", "ListCollections", "InspectCollection"}
Requests == {"none", "UseDatabase", "ListCollections", "DescribeCollection",
             "GetLoadState", "Details", "ListIndexes", "DescribeIndex", "returned"}

IndexMaps == UNION {[I -> BOOLEAN] : I \in SUBSET Indexes}

NewItem == [exists |-> FALSE, loadState |-> LoadStateUnset, loadProgress |-> 0,
            indexHealthy |-> TRUE, error |-> FALSE]

(* Type invariant: an item of the client is one of domain.CollectionReport, *)
(* whatever code the SDK gave (client.go:91, 109-112, 156-167).             *)
TypeOK ==
  /\ IsCollectionMap(codes, Codes)
  /\ finished \in [Collections -> IndexMaps]
  /\ session \in Databases
  /\ call \in Calls
  /\ target \in Collections
  /\ at \in Requests
  /\ expired \in BOOLEAN
  /\ item \in Items
  /\ toDescribe \subseteq Indexes
  /\ names \subseteq Names
  /\ seen \in [codes : SUBSET Codes, names : SUBSET Names,
               listed : SUBSET Indexes, built : SUBSET Indexes]

(* convertLoadState, lines 156-167. *)
ConvertLoadState(code) ==
  CASE code = "Loaded"                    -> LoadStateLoaded
    [] code = "Loading"                   -> LoadStateLoading
    [] code \in {"NotLoad", "Unloading"}  -> LoadStateNotLoad
    [] OTHER                              -> LoadStateUnknown

NamesIn(d) == {n \in Names : <<d, n>> \in DOMAIN codes}
Built(c)   == {i \in DOMAIN finished[c] : finished[c][i]}

(* What the target of a call shows at this moment. *)
ShownBy(c) ==
  [codes |-> {codes[k] : k \in {c} \cap DOMAIN codes},
   names |-> NamesIn(c[1]),
   listed |-> {},
   built |-> Built(c)]

NothingSeen == [codes |-> {}, names |-> {}, listed |-> {}, built |-> {}]

Init ==
  /\ \E c \in Codes : codes = [k \in Collections |-> c]
  /\ finished = [c \in Collections |-> [i \in Indexes |-> TRUE]]
  /\ session \in Databases
  /\ call = "none" /\ at = "none"
  /\ target \in Collections
  /\ expired = FALSE
  /\ item = NewItem
  /\ toDescribe = {} /\ names = {}
  /\ seen = NothingSeen

-------------------------------------------------------------------------------
(* Lines 73-76 and 89-93: the lock, a new report, a new deadline; the locals *)
(* of the previous call are gone.                                            *)
Begin(method, c) ==
  /\ call = "none"
  /\ call' = method
  /\ target' = c
  /\ at' = "UseDatabase"
  /\ seen' = ShownBy(c)
  /\ UNCHANGED <<serverVars, session, expired, item, toDescribe, names>>

(* The call returns, releases the lock and forgets its locals. *)
Return ==
  /\ at = "returned"
  /\ call' = "none" /\ at' = "none"
  /\ item' = NewItem /\ names' = {} /\ toDescribe' = {}
  /\ expired' = FALSE
  /\ seen' = NothingSeen
  /\ UNCHANGED <<serverVars, session, target>>

DeadlinePasses ==
  /\ call # "none" /\ ~expired
  /\ expired' = TRUE
  /\ UNCHANGED <<serverVars, session, call, target, at, item, toDescribe, names, seen>>

rest == <<serverVars, call, target, expired, seen>>

(* The collection that the connection means by the name of the target. *)
Addressed == <<session, target[2]>>

(* Mutant: the connection is taken to be on the right database already. *)
NotSwitched == session

Switched == target[1]

(* Lines 77 and 94. *)
UseDatabaseAnswers ==
  /\ at = "UseDatabase" /\ ~expired
  /\ session' = Switched
  /\ at' = IF call = "ListCollections" THEN "ListCollections" ELSE "DescribeCollection"
  /\ UNCHANGED <<rest, item, toDescribe, names>>

(* Lines 78 and 95; the SDK may have switched before it failed. *)
UseDatabaseFails ==
  /\ at = "UseDatabase"
  /\ session' \in {session, target[1]}
  /\ at' = "returned"
  /\ item' = [item EXCEPT !.error = TRUE]
  /\ UNCHANGED <<rest, toDescribe, names>>

(* Lines 80-84. *)
ListCollectionsAnswers ==
  /\ at = "ListCollections" /\ ~expired
  /\ names' = NamesIn(session)
  /\ at' = "returned"
  /\ UNCHANGED <<rest, session, item, toDescribe>>

(* Lines 98-103. *)
DescribeCollectionAnswers ==
  /\ at = "DescribeCollection" /\ ~expired
  /\ Addressed \in DOMAIN codes
  /\ item' = [item EXCEPT !.exists = TRUE]
  /\ at' = "GetLoadState"
  /\ UNCHANGED <<rest, session, toDescribe, names>>

(* Mutant: the progress is the one of the answer. *)
AsAnswered(state, progress) == progress

(* Lines 109-113. *)
Progress(state, progress) == IF state = LoadStateLoaded THEN 100 ELSE progress

(* Lines 105-113. *)
GetLoadStateAnswers ==
  /\ at = "GetLoadState" /\ ~expired
  /\ Addressed \in DOMAIN codes
  /\ LET state == ConvertLoadState(codes[Addressed])
     IN  \E progress \in {0, 100} :
           item' = [item EXCEPT !.loadState = state,
                                !.loadProgress = Progress(state, progress)]
  /\ at' = "Details"
  /\ UNCHANGED <<rest, session, toDescribe, names>>

(* Lines 82, 100 and 107: these three errors end the call. *)
RequestFails ==
  /\ at \in {"ListCollections", "DescribeCollection", "GetLoadState"}
  /\ item' = [item EXCEPT !.error = TRUE]
  /\ at' = "returned"
  /\ UNCHANGED <<rest, session, toDescribe, names>>

(* Lines 115-132: two requests whose errors are warnings. *)
CollectDetails ==
  /\ at = "Details"
  /\ at' = "ListIndexes"
  /\ UNCHANGED <<rest, session, item, toDescribe, names>>

(* Lines 134 and 143: the SDK answers, or says "index not found" when there is *)
(* none, which is a warning and leaves the index healthy.                      *)
ListIndexesAnswers ==
  /\ at = "ListIndexes" /\ ~expired
  /\ Addressed \in DOMAIN codes
  /\ toDescribe' = DOMAIN finished[Addressed]
  /\ seen' = [seen EXCEPT !.listed = toDescribe']
  /\ at' = "DescribeIndex"
  /\ UNCHANGED <<serverVars, call, target, expired, session, item, names>>

(* Lines 138-141. *)
ListIndexesFails ==
  /\ at = "ListIndexes"
  /\ item' = [item EXCEPT !.indexHealthy = FALSE]
  /\ at' = "returned"
  /\ UNCHANGED <<rest, session, toDescribe, names>>

(* Mutant: an index that cannot be described counts as healthy. *)
NotSeenBroken(answers, i) == answers => finished[Addressed][i]

SeenBuilt(answers, i) == answers /\ finished[Addressed][i]

(* Mutant: an index that cannot be described is asked for again. *)
LeftWhenDescribed(answers, i) == IF answers THEN toDescribe \ {i} ELSE toDescribe

LeftToDescribe(answers, i) == toDescribe \ {i}

(* Lines 143-151, one index: it is healthy if the SDK answers that it is built. *)
DescribeIndex(i) ==
  /\ at = "DescribeIndex" /\ i \in toDescribe
  /\ \E answers \in BOOLEAN :
       /\ answers => ~expired /\ i \in DOMAIN finished[Addressed]
       /\ item' = [item EXCEPT !.indexHealthy = @ /\ SeenBuilt(answers, i)]
       /\ toDescribe' = LeftToDescribe(answers, i)
  /\ UNCHANGED <<rest, session, at, names>>

(* Line 153. *)
IndexesDone ==
  /\ at = "DescribeIndex" /\ toDescribe = {}
  /\ at' = "returned"
  /\ UNCHANGED <<rest, session, item, toDescribe, names>>

(* Milvus, at any moment.  The history takes in what the target then shows. *)
Witness(c) ==
  LET shown == ShownBy(c)'
  IN  seen' = [codes  |-> seen.codes \cup shown.codes,
               names  |-> seen.names \cup shown.names,
               listed |-> seen.listed,
               built  |-> seen.built \cup shown.built]

LoadChanges(c) ==
  /\ \/ \E code \in Codes :
          codes' = [k \in DOMAIN codes \cup {c} |-> IF k = c THEN code ELSE codes[k]]
     \/ codes' = [k \in DOMAIN codes \ {c} |-> codes[k]]
  /\ UNCHANGED finished

IndexesChange(c) ==
  /\ \E indexes \in IndexMaps : finished' = [finished EXCEPT ![c] = indexes]
  /\ UNCHANGED codes

MilvusChanges ==
  /\ \E c \in Collections : LoadChanges(c) \/ IndexesChange(c)
  /\ UNCHANGED <<session, call, target, at, expired, item, toDescribe, names>>
  /\ IF call = "none" THEN UNCHANGED seen ELSE Witness(target)

Requesting ==
  \/ UseDatabaseAnswers \/ UseDatabaseFails
  \/ ListCollectionsAnswers
  \/ DescribeCollectionAnswers \/ GetLoadStateAnswers \/ RequestFails
  \/ CollectDetails \/ ListIndexesAnswers \/ ListIndexesFails
  \/ \E i \in Indexes : DescribeIndex(i)
  \/ IndexesDone

Next ==
  \/ \E c \in Collections : Begin("ListCollections", c) \/ Begin("InspectCollection", c)
  \/ Requesting \/ Return \/ DeadlinePasses \/ MilvusChanges

Spec == Init /\ [][Next]_vars

(* The deadline passes, and then no request waits any more; before, one may. *)
FairSpec ==
  Spec /\ WF_vars(DeadlinePasses) /\ WF_vars(expired /\ Requesting) /\ WF_vars(Return)

-------------------------------------------------------------------------------
Returns(method) == call = method /\ at = "returned"

(* An item tells a load state that the collection it names had at some moment  *)
(* of the call, and a listing only names of its database, although neither     *)
(* request says which database it is about (client.go:77-80, 94-110).          *)
AnswersAreAboutTheTarget ==
  /\ Returns("InspectCollection") /\ ~item.error =>
       item.loadState \in {ConvertLoadState(c) : c \in seen.codes}
  /\ Returns("ListCollections") => names \subseteq seen.names

(* An item that says its indexes are healthy has seen each index that was      *)
(* listed built at some moment of the call; a request that failed, or came     *)
(* after the deadline, never counts as healthy (client.go:134-151).            *)
HealthyIndexesWereBuilt ==
  Returns("InspectCollection") /\ ~item.error /\ item.indexHealthy =>
    seen.listed \subseteq seen.built

(* Whatever fails and whenever, the checker gets one of the items it is        *)
(* modelled with: an error comes with no load state, so a collection that      *)
(* could not be inspected never looks loading or loaded, and without an error  *)
(* there is a load state (client.go:95-113).                                   *)
ItemsAreWhatTheCheckerExpects ==
  Returns("InspectCollection") =>
    item \in ErrorItems \cup UNION {InspectedAs(s) : s \in LoadStates \ {LoadStateUnset}}

(* A call that begins returns, and gives the client free for the next one,     *)
(* even if Milvus accepts its requests and answers none: what Checker and      *)
(* RefreshLoop take for granted of every call (client.go:73-76, 89-93).        *)
EveryCallReturns == call # "none" ~> call = "none"

===============================================================================
