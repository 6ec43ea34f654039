-------------------------- MODULE MilvusClientProofs --------------------------
(***************************************************************************)
(* Proofs about MilvusClient, for any number of databases, names and       *)
(* indexes.                                                                *)
(*                                                                         *)
(* An item is put together from five requests, none of which says which    *)
(* database it is about, while Milvus changes.  The invariant says that    *)
(* from UseDatabase to the end of the call the connection is on the        *)
(* database of the target, so that each answer is one the target showed;   *)
(* that the item is at each request one the checker knows; and that an     *)
(* index still to be described is all that `healthy` leaves open.          *)
(***************************************************************************)
EXTENDS MilvusClient, TLAPS

Addressing == {"ListCollections", "DescribeCollection", "GetLoadState", "Details",
               "ListIndexes", "DescribeIndex"}

(* c.mu is held from UseDatabase on, so nobody switches the connection. *)
SessionIsOnTarget ==
  /\ at \in Addressing => session = target[1]
  /\ at \in Addressing => call = IF at = "ListCollections" THEN "ListCollections"
                                                            ELSE "InspectCollection"
  /\ at = "none" <=> call = "none"

(* What the target shows now is in the history of the call. *)
TargetIsSeen ==
  call # "none" =>
    /\ target \in DOMAIN codes => codes[target] \in seen.codes
    /\ NamesIn(target[1]) \subseteq seen.names
    /\ Built(target) \subseteq seen.built

Inspected == \E c \in seen.codes : item \in InspectedAs(ConvertLoadState(c))

ItemFollowsTheRequests ==
  /\ at \in {"none", "UseDatabase", "ListCollections", "DescribeCollection"} =>
       item = NewItem
  /\ at = "GetLoadState" => item = [NewItem EXCEPT !.exists = TRUE]
  /\ at \in {"Details", "ListIndexes", "DescribeIndex"} => Inspected
  /\ Returns("InspectCollection") => item \in ErrorItems \/ Inspected

(* An index that is not left to describe has been seen built, or the item says so. *)
IndexesAreSeenOrLeft ==
  at = "DescribeIndex" /\ item.indexHealthy =>
    seen.listed \subseteq seen.built \cup toDescribe

(* Only ListCollections fills in names, and at its end. *)
NamesAreSeen ==
  /\ at # "returned" => names = {}
  /\ names \subseteq seen.names

Inv ==
  /\ TypeOK
  /\ SessionIsOnTarget
  /\ TargetIsSeen
  /\ ItemFollowsTheRequests
  /\ IndexesAreSeenOrLeft
  /\ NamesAreSeen
  /\ HealthyIndexesWereBuilt

-------------------------------------------------------------------------------
(* An item is its five fields. *)
LEMMA ItemFields ==
  ASSUME NEW r \in Items
  PROVE  r = [exists |-> r.exists, loadState |-> r.loadState,
              loadProgress |-> r.loadProgress, indexHealthy |-> r.indexHealthy,
              error |-> r.error]
BY DEF Items

LEMMA ConvertedStates == \A c : ConvertLoadState(c) \in LoadStates \ {LoadStateUnset}
BY DEF ConvertLoadState, LoadStates, LoadStateUnset, LoadStateUnknown, LoadStateNotLoad,
       LoadStateLoading, LoadStateLoaded

LEMMA NewItemType ==
  /\ NewItem \in Items
  /\ [NewItem EXCEPT !.exists = TRUE] \in Items
<1>1. NewItem \in Items
  <2>1. FALSE \in BOOLEAN /\ TRUE \in BOOLEAN /\ LoadStateUnset \in LoadStates
        /\ 0 \in 0 .. 100
    BY DEF LoadStates
  <2> QED BY <2>1, Zenon DEF NewItem, Items
<1>2. [NewItem EXCEPT !.exists = TRUE] \in Items
  BY <1>1 DEF Items
<1> QED BY <1>1, <1>2

(* An item in error, at whichever of the requests it got there, is one of the  *)
(* checker's error items (client.go:95-107).                                   *)
LEMMA ErrorItem ==
  ASSUME item \in {NewItem, [NewItem EXCEPT !.exists = TRUE]}
  PROVE  [item EXCEPT !.error = TRUE] \in ErrorItems
<1> DEFINE r == [item EXCEPT !.error = TRUE]
<1>1. item \in Items /\ r \in Items
  <2>1. item \in Items
    BY NewItemType
  <2> QED BY <2>1 DEF Items
<1>2. /\ r.exists \in BOOLEAN /\ r.loadState = LoadStateUnset /\ r.loadProgress = 0
      /\ r.indexHealthy = TRUE /\ r.error = TRUE
  BY <1>1 DEF NewItem, Items
<1> HIDE DEF r
<1>3. r = [exists |-> r.exists, loadState |-> LoadStateUnset, loadProgress |-> 0,
           indexHealthy |-> TRUE, error |-> TRUE]
  BY <1>1, <1>2, ItemFields
<1>4. r \in ErrorItems
  BY <1>2, <1>3 DEF ErrorItems
<1> QED BY <1>4 DEF r

LEMMA ErrorItemTypes ==
  /\ \A r \in ErrorItems : r \in Items /\ r.error
  /\ \A state \in LoadStates : \A r \in InspectedAs(state) :
       r \in Items /\ ~r.error /\ r.exists /\ r.loadState = state
<1>1. ASSUME NEW r \in ErrorItems PROVE r \in Items /\ r.error
  <2>1. PICK e \in BOOLEAN :
          r = [exists |-> e, loadState |-> LoadStateUnset, loadProgress |-> 0,
               indexHealthy |-> TRUE, error |-> TRUE]
    BY DEF ErrorItems
  <2>2. LoadStateUnset \in LoadStates /\ 0 \in 0 .. 100 /\ TRUE \in BOOLEAN
    BY DEF LoadStates
  <2>3. r \in Items
    BY <2>1, <2>2, Zenon DEF Items
  <2> QED BY <2>1, <2>3
<1>2. ASSUME NEW state \in LoadStates, NEW r \in InspectedAs(state)
      PROVE  r \in Items /\ ~r.error /\ r.exists /\ r.loadState = state
  <2>1. PICK p \in ProgressOf(state), i \in BOOLEAN : r = InspectedItem(state, p, i)
    BY DEF InspectedAs
  <2>2. p \in 0 .. 100 /\ TRUE \in BOOLEAN /\ FALSE \in BOOLEAN
    BY DEF ProgressOf
  <2>3. r \in Items
    BY <2>1, <2>2, Zenon DEF Items, InspectedItem
  <2> QED BY <2>1, <2>3 DEF InspectedItem
<1> QED BY <1>1, <1>2

LEMMA InspectedItems ==
  ASSUME NEW state, NEW p \in ProgressOf(state), NEW i \in BOOLEAN
  PROVE  InspectedItem(state, p, i) \in InspectedAs(state)
BY DEF InspectedAs

(* An inspected item stays one whatever is said of its indexes. *)
LEMMA IndexesOfInspected ==
  ASSUME NEW state \in LoadStates, NEW r \in InspectedAs(state), NEW i \in BOOLEAN
  PROVE  [r EXCEPT !.indexHealthy = i] \in InspectedAs(state)
<1>1. PICK p \in ProgressOf(state), j \in BOOLEAN : r = InspectedItem(state, p, j)
  BY DEF InspectedAs
<1> DEFINE q == [r EXCEPT !.indexHealthy = i]
<1>2. q \in Items
  BY ErrorItemTypes DEF Items
<1>3. q.exists = TRUE /\ q.loadState = state /\ q.loadProgress = p
      /\ q.indexHealthy = i /\ q.error = FALSE
  BY <1>1 DEF InspectedItem
<1> HIDE DEF q
<1>4. q = InspectedItem(state, p, i)
  BY <1>2, <1>3, ItemFields DEF InspectedItem
<1>5. q \in InspectedAs(state)
  BY <1>4, InspectedItems
<1> QED BY <1>5 DEF q

(* The item after GetLoadState: a loaded collection is at 100 percent          *)
(* (client.go:105-113).                                                        *)
LEMMA LoadStateOfInspected ==
  ASSUME item = [NewItem EXCEPT !.exists = TRUE], NEW state \in LoadStates,
         NEW progress \in {0, 100}
  PROVE  [item EXCEPT !.loadState = state, !.loadProgress = Progress(state, progress)]
           \in InspectedAs(state)
<1> DEFINE p == Progress(state, progress)
           q == [item EXCEPT !.loadState = state, !.loadProgress = p]
<1>1. p \in ProgressOf(state) /\ p \in 0 .. 100
  BY DEF Progress, ProgressOf
<1>2. item \in Items
  BY NewItemType
<1> HIDE DEF p
<1>3. q \in Items
  BY <1>1, <1>2 DEF Items
<1>4. q.exists = TRUE /\ q.loadState = state /\ q.loadProgress = p
      /\ q.indexHealthy = TRUE /\ q.error = FALSE
  BY <1>2 DEF NewItem, Items
<1> HIDE DEF q
<1>5. q = InspectedItem(state, p, TRUE)
  BY <1>3, <1>4, ItemFields DEF InspectedItem
<1>6. q \in InspectedAs(state)
  BY <1>1, <1>5, InspectedItems
<1> QED BY <1>6 DEF q, p

-------------------------------------------------------------------------------
(* The collection that the connection means is the target. *)
LEMMA AddressedIsTheTarget ==
  ASSUME TypeOK, SessionIsOnTarget, at \in Addressing PROVE Addressed = target
BY KeysAssumption DEF TypeOK, SessionIsOnTarget, Addressed

LEMMA ItemBeforeAnAnswer ==
  ASSUME ItemFollowsTheRequests,
         at \in {"UseDatabase", "ListCollections", "DescribeCollection", "GetLoadState"}
  PROVE  /\ item \in {NewItem, [NewItem EXCEPT !.exists = TRUE]}
         /\ [item EXCEPT !.error = TRUE] \in ErrorItems
         /\ [item EXCEPT !.error = TRUE] \in Items
         /\ [item EXCEPT !.error = TRUE].error
<1>1. item \in {NewItem, [NewItem EXCEPT !.exists = TRUE]}
  BY DEF ItemFollowsTheRequests
<1> QED BY <1>1, ErrorItem, ErrorItemTypes

LEMMA InspectedTypes ==
  ASSUME Inspected PROVE item \in Items /\ ~item.error
BY ConvertedStates, ErrorItemTypes DEF Inspected

(* A step of the call that changes neither Milvus nor the history. *)
LEMMA TargetStaysSeen ==
  ASSUME TargetIsSeen, UNCHANGED rest PROVE TargetIsSeen'
BY DEF TargetIsSeen, rest, serverVars, NamesIn, Built

LEMMA InitInv == Init => Inv
<1> SUFFICES ASSUME Init PROVE Inv
  OBVIOUS
<1>1. TypeOK
  <2>1. PICK c \in Codes : codes = [k \in Collections |-> c]
    BY DEF Init
  <2>2. IsCollectionMap(codes, Codes)
    BY <2>1 DEF IsCollectionMap
  <2>3. [i \in Indexes |-> TRUE] \in IndexMaps
    BY DEF IndexMaps
  <2>4. finished \in [Collections -> IndexMaps]
    BY <2>3 DEF Init
  <2> QED BY <2>2, <2>4, NewItemType DEF TypeOK, Init, Calls, Requests, NothingSeen
<1> QED BY <1>1 DEF Init, Inv, SessionIsOnTarget, Addressing, TargetIsSeen,
     ItemFollowsTheRequests, Returns, IndexesAreSeenOrLeft, NamesAreSeen,
     HealthyIndexesWereBuilt, NothingSeen

LEMMA BeginInv ==
  ASSUME Inv, NEW method \in {"ListCollections", "InspectCollection"},
         NEW c \in Collections, Begin(method, c)
  PROVE  Inv'
<1> USE DEF Inv
<1>1. at = "none" /\ item = NewItem /\ names = {}
  BY DEF Begin, SessionIsOnTarget, ItemFollowsTheRequests, NamesAreSeen
<1>2. /\ {codes[k] : k \in {c} \cap DOMAIN codes} \subseteq Codes
      /\ NamesIn(c[1]) \subseteq Names /\ Built(c) \subseteq Indexes
  BY DEF TypeOK, IsCollectionMap, NamesIn, Built, IndexMaps
<1>3. TypeOK'
  BY <1>2 DEF TypeOK, Begin, serverVars, ShownBy, Calls, Requests
<1>4. TargetIsSeen'
  BY DEF Begin, TargetIsSeen, serverVars, ShownBy, NamesIn, Built
<1> QED BY <1>1, <1>3, <1>4 DEF Begin, SessionIsOnTarget, Addressing,
     ItemFollowsTheRequests, Returns, IndexesAreSeenOrLeft, NamesAreSeen,
     HealthyIndexesWereBuilt

LEMMA ReturnInv ==
  ASSUME Inv, Return PROVE Inv'
<1>1. TypeOK'
  BY NewItemType DEF Inv, Return, TypeOK, serverVars, Calls, Requests, NothingSeen
<1> QED BY <1>1 DEF Inv, Return, SessionIsOnTarget, Addressing, TargetIsSeen,
     ItemFollowsTheRequests, Returns, IndexesAreSeenOrLeft, NamesAreSeen,
     HealthyIndexesWereBuilt, NothingSeen

LEMMA DeadlineInv ==
  ASSUME Inv, DeadlinePasses PROVE Inv'
BY DEF Inv, DeadlinePasses, TypeOK, serverVars, SessionIsOnTarget, TargetIsSeen,
     NamesIn, Built, ItemFollowsTheRequests, Inspected, Returns, IndexesAreSeenOrLeft,
     NamesAreSeen, HealthyIndexesWereBuilt

LEMMA UseDatabaseInv ==
  ASSUME Inv, UseDatabaseAnswers \/ UseDatabaseFails PROVE Inv'
<1> USE DEF Inv
<1>1. at = "UseDatabase" /\ UNCHANGED <<rest, toDescribe, names>>
  BY DEF UseDatabaseAnswers, UseDatabaseFails
<1>2. item = NewItem /\ names = {} /\ call \in {"ListCollections", "InspectCollection"}
  BY <1>1 DEF ItemFollowsTheRequests, NamesAreSeen, SessionIsOnTarget, TypeOK, Calls
<1>3. target[1] \in Databases
  BY KeysAssumption DEF TypeOK
<1>4. TargetIsSeen'
  BY <1>1, TargetStaysSeen
<1>5. CASE UseDatabaseAnswers
  <2>1. TypeOK'
    BY <1>1, <1>3, <1>5 DEF TypeOK, UseDatabaseAnswers, Switched, Requests, rest,
         serverVars
  <2> QED BY <1>1, <1>2, <1>4, <1>5, <2>1 DEF UseDatabaseAnswers, Switched, rest,
       SessionIsOnTarget, Addressing, ItemFollowsTheRequests, Returns,
       IndexesAreSeenOrLeft, NamesAreSeen, HealthyIndexesWereBuilt
<1>6. CASE UseDatabaseFails
  <2>1. item' \in ErrorItems /\ item' \in Items /\ item'.error
    BY <1>1, <1>6, ItemBeforeAnAnswer DEF UseDatabaseFails
  <2>2. TypeOK'
    BY <1>1, <1>3, <1>6, <2>1 DEF TypeOK, UseDatabaseFails, Requests, rest, serverVars
  <2> QED BY <1>1, <1>2, <1>4, <1>6, <2>1, <2>2 DEF UseDatabaseFails, rest,
       SessionIsOnTarget, Addressing, ItemFollowsTheRequests, Returns,
       IndexesAreSeenOrLeft, NamesAreSeen, HealthyIndexesWereBuilt
<1> QED BY <1>5, <1>6

LEMMA RequestFailsInv ==
  ASSUME Inv, RequestFails PROVE Inv'
<1> USE DEF Inv
<1>1. item' \in ErrorItems /\ item' \in Items /\ item'.error
  BY ItemBeforeAnAnswer DEF RequestFails
<1>2. TypeOK'
  BY <1>1 DEF TypeOK, RequestFails, Requests, rest, serverVars
<1>3. TargetIsSeen'
  BY TargetStaysSeen DEF RequestFails
<1>4. call # "none" /\ names = {}
  BY DEF RequestFails, SessionIsOnTarget, NamesAreSeen
<1> QED BY <1>1, <1>2, <1>3, <1>4 DEF RequestFails, rest, SessionIsOnTarget, Addressing,
     ItemFollowsTheRequests, Returns, IndexesAreSeenOrLeft, NamesAreSeen,
     HealthyIndexesWereBuilt

(* A listing is of the database of the target: the connection was switched to  *)
(* it and c.mu keeps it there (client.go:77-84).                               *)
LEMMA ListCollectionsInv ==
  ASSUME Inv, ListCollectionsAnswers PROVE Inv'
<1> USE DEF Inv
<1>1. call = "ListCollections" /\ session = target[1]
  BY DEF ListCollectionsAnswers, SessionIsOnTarget, Addressing
<1>2. names' \subseteq Names /\ names' \subseteq seen.names
  BY <1>1 DEF ListCollectionsAnswers, NamesIn, TargetIsSeen
<1>3. TypeOK'
  BY <1>2 DEF TypeOK, ListCollectionsAnswers, Requests, rest, serverVars
<1>4. TargetIsSeen'
  BY TargetStaysSeen DEF ListCollectionsAnswers
<1> QED BY <1>1, <1>2, <1>3, <1>4 DEF ListCollectionsAnswers, rest, SessionIsOnTarget,
     Addressing, ItemFollowsTheRequests, Returns, IndexesAreSeenOrLeft, NamesAreSeen,
     HealthyIndexesWereBuilt

LEMMA DescribeCollectionInv ==
  ASSUME Inv, DescribeCollectionAnswers PROVE Inv'
<1> USE DEF Inv
<1>1. item = NewItem /\ call = "InspectCollection" /\ session = target[1] /\ names = {}
  BY DEF DescribeCollectionAnswers, SessionIsOnTarget, Addressing,
     ItemFollowsTheRequests, NamesAreSeen
<1>2. item' = [NewItem EXCEPT !.exists = TRUE] /\ item' \in Items
  BY <1>1, NewItemType DEF DescribeCollectionAnswers
<1>3. TypeOK'
  BY <1>2 DEF TypeOK, DescribeCollectionAnswers, Requests, rest, serverVars
<1>4. TargetIsSeen'
  BY TargetStaysSeen DEF DescribeCollectionAnswers
<1> QED BY <1>1, <1>2, <1>3, <1>4 DEF DescribeCollectionAnswers, rest,
     SessionIsOnTarget, Addressing, ItemFollowsTheRequests, Returns,
     IndexesAreSeenOrLeft, NamesAreSeen, HealthyIndexesWereBuilt

(* The load state is that of the target, at this moment of the call            *)
(* (client.go:105-113).                                                        *)
LEMMA GetLoadStateInv ==
  ASSUME Inv, GetLoadStateAnswers PROVE Inv'
<1> USE DEF Inv
<1>1. /\ at = "GetLoadState" /\ call = "InspectCollection" /\ session = target[1]
      /\ item = [NewItem EXCEPT !.exists = TRUE] /\ names = {}
  BY DEF GetLoadStateAnswers, SessionIsOnTarget, Addressing, ItemFollowsTheRequests,
     NamesAreSeen
<1>2. Addressed = target /\ target \in DOMAIN codes
  BY <1>1, AddressedIsTheTarget DEF GetLoadStateAnswers, Addressing
<1> DEFINE state == ConvertLoadState(codes[target])
<1>3. codes[target] \in seen.codes
  BY <1>1, <1>2 DEF TargetIsSeen
<1>4. PICK progress \in {0, 100} :
        item' = [item EXCEPT !.loadState = state, !.loadProgress = Progress(state, progress)]
  BY <1>2 DEF GetLoadStateAnswers
<1>5. state \in LoadStates
  BY ConvertedStates
<1>6. item' \in InspectedAs(state)
  BY <1>1, <1>4, <1>5, LoadStateOfInspected
<1>7. item' \in Items
  BY <1>5, <1>6, ErrorItemTypes
<1>8. Inspected'
  BY <1>3, <1>6 DEF Inspected, GetLoadStateAnswers, rest
<1>9. TypeOK'
  BY <1>7 DEF TypeOK, GetLoadStateAnswers, Requests, rest, serverVars
<1>10. TargetIsSeen'
  BY TargetStaysSeen DEF GetLoadStateAnswers
<1> QED BY <1>1, <1>8, <1>9, <1>10 DEF GetLoadStateAnswers, rest, SessionIsOnTarget,
     Addressing, ItemFollowsTheRequests, Returns, IndexesAreSeenOrLeft, NamesAreSeen,
     HealthyIndexesWereBuilt

LEMMA CollectDetailsInv ==
  ASSUME Inv, CollectDetails PROVE Inv'
<1> USE DEF Inv
<1>1. Inspected' /\ call = "InspectCollection" /\ session = target[1] /\ names = {}
  BY DEF CollectDetails, rest, ItemFollowsTheRequests, Inspected, SessionIsOnTarget,
     Addressing, NamesAreSeen
<1>2. TypeOK'
  BY DEF TypeOK, CollectDetails, Requests, rest, serverVars
<1>3. TargetIsSeen'
  BY TargetStaysSeen DEF CollectDetails
<1> QED BY <1>1, <1>2, <1>3 DEF CollectDetails, rest, SessionIsOnTarget, Addressing,
     ItemFollowsTheRequests, Returns, IndexesAreSeenOrLeft, NamesAreSeen,
     HealthyIndexesWereBuilt

(* All the indexes listed are left to describe (client.go:134, 143). *)
LEMMA ListIndexesAnswersInv ==
  ASSUME Inv, ListIndexesAnswers PROVE Inv'
<1> USE DEF Inv
<1>1. call = "InspectCollection" /\ session = target[1] /\ names = {} /\ Inspected
  BY DEF ListIndexesAnswers, ItemFollowsTheRequests, SessionIsOnTarget, Addressing,
     NamesAreSeen
<1>2. toDescribe' \subseteq Indexes
  <2>1. Addressed \in Collections
    BY <1>1, AddressedIsTheTarget DEF ListIndexesAnswers, TypeOK, Addressing
  <2> QED BY <2>1 DEF ListIndexesAnswers, TypeOK, IndexMaps
<1>3. /\ seen' = [codes |-> seen.codes, names |-> seen.names, listed |-> toDescribe',
                  built |-> seen.built]
  BY DEF ListIndexesAnswers, TypeOK
<1>4. TypeOK'
  BY <1>2, <1>3 DEF TypeOK, ListIndexesAnswers, Requests, serverVars
<1>5. Inspected' /\ TargetIsSeen'
  BY <1>1, <1>3 DEF ListIndexesAnswers, serverVars, Inspected, TargetIsSeen, NamesIn,
     Built
<1> QED BY <1>1, <1>3, <1>4, <1>5 DEF ListIndexesAnswers, SessionIsOnTarget, Addressing,
     ItemFollowsTheRequests, Returns, IndexesAreSeenOrLeft, NamesAreSeen,
     HealthyIndexesWereBuilt

LEMMA ListIndexesFailsInv ==
  ASSUME Inv, ListIndexesFails PROVE Inv'
<1> USE DEF Inv
<1>1. call = "InspectCollection" /\ names = {} /\ Inspected
  BY DEF ListIndexesFails, ItemFollowsTheRequests, SessionIsOnTarget, Addressing,
     NamesAreSeen
<1>2. PICK c \in seen.codes : item \in InspectedAs(ConvertLoadState(c))
  BY <1>1 DEF Inspected
<1>3. item' \in InspectedAs(ConvertLoadState(c))
  BY <1>2, ConvertedStates, IndexesOfInspected DEF ListIndexesFails
<1>4. Inspected'
  BY <1>3 DEF Inspected, ListIndexesFails, rest
<1>5. item' \in Items
  BY <1>3, ConvertedStates, ErrorItemTypes
<1>6. ~item'.indexHealthy
  BY <1>1, InspectedTypes DEF ListIndexesFails, Items
<1>7. TypeOK'
  BY <1>5 DEF TypeOK, ListIndexesFails, Requests, rest, serverVars
<1>8. TargetIsSeen'
  BY TargetStaysSeen DEF ListIndexesFails
<1> QED BY <1>1, <1>4, <1>6, <1>7, <1>8 DEF ListIndexesFails, rest, SessionIsOnTarget,
     Addressing, ItemFollowsTheRequests, Returns, IndexesAreSeenOrLeft, NamesAreSeen,
     HealthyIndexesWereBuilt

(* An index leaves the loop built, and then the target showed it, or with the  *)
(* item unhealthy (client.go:143-151).                                         *)
LEMMA DescribeIndexInv ==
  ASSUME Inv, NEW i \in Indexes, DescribeIndex(i) PROVE Inv'
<1> USE DEF Inv
<1>1. /\ call = "InspectCollection" /\ session = target[1] /\ names = {} /\ Inspected
      /\ at = "DescribeIndex" /\ UNCHANGED <<rest, session, at, names>>
  BY DEF DescribeIndex, ItemFollowsTheRequests, SessionIsOnTarget, Addressing,
     NamesAreSeen
<1>2. Addressed = target
  BY <1>1, AddressedIsTheTarget DEF Addressing
<1>3. PICK answers \in BOOLEAN :
        /\ answers => i \in DOMAIN finished[target]
        /\ item' = [item EXCEPT !.indexHealthy =
                      item.indexHealthy /\ SeenBuilt(answers, i)]
        /\ toDescribe' = toDescribe \ {i}
  BY <1>2 DEF DescribeIndex, LeftToDescribe
<1>4. PICK c \in seen.codes : item \in InspectedAs(ConvertLoadState(c))
  BY <1>1 DEF Inspected
<1>5. (item.indexHealthy /\ SeenBuilt(answers, i)) \in BOOLEAN
  OBVIOUS
<1>6. item' \in InspectedAs(ConvertLoadState(c))
  BY <1>3, <1>4, <1>5, ConvertedStates, IndexesOfInspected
<1>7. Inspected'
  BY <1>1, <1>6 DEF Inspected, rest
<1>8. item' \in Items
  BY <1>6, ConvertedStates, ErrorItemTypes
<1>9. item'.indexHealthy => item.indexHealthy /\ answers /\ finished[target][i]
  BY <1>1, <1>2, <1>3, InspectedTypes DEF Items, SeenBuilt
<1>10. item'.indexHealthy => i \in seen.built
  BY <1>1, <1>3, <1>9 DEF TargetIsSeen, Built
<1>11. TypeOK'
  BY <1>1, <1>3, <1>8 DEF TypeOK, rest, serverVars
<1>12. TargetIsSeen'
  BY <1>1, TargetStaysSeen
<1>13. IndexesAreSeenOrLeft'
  BY <1>1, <1>3, <1>9, <1>10 DEF IndexesAreSeenOrLeft, rest
<1> QED BY <1>1, <1>7, <1>11, <1>12, <1>13 DEF rest, SessionIsOnTarget, Addressing,
     ItemFollowsTheRequests, Returns, NamesAreSeen, HealthyIndexesWereBuilt

LEMMA IndexesDoneInv ==
  ASSUME Inv, IndexesDone PROVE Inv'
<1> USE DEF Inv
<1>1. /\ call = "InspectCollection" /\ names = {} /\ Inspected
      /\ item.indexHealthy => seen.listed \subseteq seen.built
  BY DEF IndexesDone, ItemFollowsTheRequests, SessionIsOnTarget, Addressing,
     NamesAreSeen, IndexesAreSeenOrLeft
<1>2. Inspected'
  BY <1>1 DEF Inspected, IndexesDone, rest
<1>3. TypeOK'
  BY DEF TypeOK, IndexesDone, Requests, rest, serverVars
<1>4. TargetIsSeen'
  BY TargetStaysSeen DEF IndexesDone
<1> QED BY <1>1, <1>2, <1>3, <1>4 DEF IndexesDone, rest, SessionIsOnTarget, Addressing,
     ItemFollowsTheRequests, Returns, IndexesAreSeenOrLeft, NamesAreSeen,
     HealthyIndexesWereBuilt

LEMMA RequestingInv ==
  ASSUME Inv, Requesting PROVE Inv'
BY UseDatabaseInv, ListCollectionsInv, DescribeCollectionInv, GetLoadStateInv,
   RequestFailsInv, CollectDetailsInv, ListIndexesAnswersInv, ListIndexesFailsInv,
   DescribeIndexInv, IndexesDoneInv
   DEF Requesting

(* Milvus may change in the middle of a call: what the target showed stays in  *)
(* the history, and what it shows now enters it.                               *)
LEMMA MilvusChangesInv ==
  ASSUME Inv, MilvusChanges PROVE Inv'
<1> USE DEF Inv
<1>1. PICK c \in Collections : LoadChanges(c) \/ IndexesChange(c)
  BY DEF MilvusChanges
<1>2. UNCHANGED <<session, call, target, at, expired, item, toDescribe, names>>
  BY DEF MilvusChanges
<1>3. IsCollectionMap(codes, Codes)' /\ (finished \in [Collections -> IndexMaps])'
  <2>1. CASE LoadChanges(c)
    BY <2>1 DEF LoadChanges, TypeOK, IsCollectionMap
  <2>2. CASE IndexesChange(c)
    BY <2>2 DEF IndexesChange, TypeOK, IsCollectionMap
  <2> QED BY <1>1, <2>1, <2>2
<1>4. CASE call = "none"
  <2>1. UNCHANGED seen
    BY <1>4 DEF MilvusChanges
  <2>2. TypeOK'
    BY <1>2, <1>3, <2>1 DEF TypeOK
  <2> QED BY <1>2, <1>4, <2>1, <2>2 DEF SessionIsOnTarget, Addressing, TargetIsSeen,
       ItemFollowsTheRequests, Inspected, Returns, IndexesAreSeenOrLeft, NamesAreSeen,
       HealthyIndexesWereBuilt
<1>5. CASE call # "none"
  <2>1. seen' = [codes  |-> seen.codes \cup {codes'[k] : k \in {target} \cap DOMAIN codes'},
                 names  |-> seen.names \cup NamesIn(target[1])',
                 listed |-> seen.listed,
                 built  |-> seen.built \cup Built(target)']
    BY <1>2, <1>5 DEF MilvusChanges, Witness, ShownBy
  <2>2. /\ {codes'[k] : k \in {target} \cap DOMAIN codes'} \subseteq Codes
        /\ NamesIn(target[1])' \subseteq Names /\ Built(target)' \subseteq Indexes
    BY <1>2, <1>3 DEF TypeOK, IsCollectionMap, NamesIn, Built, IndexMaps
  <2>3. TypeOK'
    BY <1>2, <1>3, <2>1, <2>2 DEF TypeOK
  <2>4. TargetIsSeen'
    BY <1>2, <2>1 DEF TargetIsSeen
  <2>5. /\ seen.codes \subseteq seen'.codes /\ seen.names \subseteq seen'.names
        /\ seen'.listed = seen.listed /\ seen.built \subseteq seen'.built
    BY <2>1
  <2>6. Inspected => Inspected'
    BY <1>2, <2>5 DEF Inspected
  <2> QED BY <1>2, <2>3, <2>4, <2>5, <2>6 DEF SessionIsOnTarget, Addressing,
       ItemFollowsTheRequests, Returns, IndexesAreSeenOrLeft, NamesAreSeen,
       HealthyIndexesWereBuilt
<1> QED BY <1>4, <1>5

LEMMA StutterInv ==
  ASSUME Inv, UNCHANGED vars PROVE Inv'
BY DEF Inv, vars, serverVars, TypeOK, SessionIsOnTarget, TargetIsSeen, NamesIn, Built,
   ItemFollowsTheRequests, Inspected, Returns, IndexesAreSeenOrLeft, NamesAreSeen,
   HealthyIndexesWereBuilt

LEMMA InvStep == Inv /\ [Next]_vars => Inv'
<1> SUFFICES ASSUME Inv, [Next]_vars PROVE Inv'
  OBVIOUS
<1>1. ASSUME NEW c \in Collections,
             Begin("ListCollections", c) \/ Begin("InspectCollection", c)
      PROVE  Inv'
  BY <1>1, BeginInv
<1> QED BY <1>1, RequestingInv, ReturnInv, DeadlineInv, MilvusChangesInv, StutterInv
         DEF Next

LEMMA InvIsInvariant == Spec => []Inv
<1> QED BY InitInv, InvStep, PTL DEF Spec

-------------------------------------------------------------------------------
(* An item of the client is a CollectionReport whatever code the SDK gave and  *)
(* whichever request failed (client.go:89-113, 156-167).                       *)
THEOREM ClientTypes == Spec => []TypeOK
<1>1. Inv => TypeOK
  BY DEF Inv
<1> QED BY <1>1, InvIsInvariant, PTL

(* Although the database is a state of the shared connection and no request    *)
(* names it, a load state is one the collection that was asked for had during  *)
(* the call, and a listing has only names of the database that was asked for:  *)
(* the connection is switched first and the lock keeps it (client.go:73-80,    *)
(* 89-110).                                                                    *)
THEOREM AnswersAreTheTargets == Spec => []AnswersAreAboutTheTarget
<1>1. Inv => AnswersAreAboutTheTarget
  <2> SUFFICES ASSUME Inv PROVE AnswersAreAboutTheTarget
    OBVIOUS
  <2>1. ASSUME Returns("InspectCollection"), ~item.error
        PROVE  item.loadState \in {ConvertLoadState(c) : c \in seen.codes}
    <3>1. Inspected
      BY <2>1, ErrorItemTypes DEF Inv, ItemFollowsTheRequests
    <3> QED BY <3>1, ConvertedStates, ErrorItemTypes DEF Inspected
  <2> QED BY <2>1 DEF AnswersAreAboutTheTarget, Inv, NamesAreSeen
<1> QED BY <1>1, InvIsInvariant, PTL

(* An item that says its indexes are healthy has seen every listed one built;  *)
(* neither an error nor the deadline makes one look healthy                    *)
(* (client.go:134-151).                                                        *)
THEOREM HealthyMeansBuilt == Spec => []HealthyIndexesWereBuilt
<1>1. Inv => HealthyIndexesWereBuilt
  BY DEF Inv
<1> QED BY <1>1, InvIsInvariant, PTL

(* The client gives the checker only items that Checker is modelled with: an   *)
(* error comes with no load state, an inspected collection with one, a loaded   *)
(* one is at 100 percent (client.go:95-113).  It is what ties the theorems about Checker to this     *)
(* client.                                                                     *)
THEOREM ItemsAreThoseOfTheChecker == Spec => []ItemsAreWhatTheCheckerExpects
<1>1. Inv => ItemsAreWhatTheCheckerExpects
  BY ConvertedStates DEF Inv, ItemsAreWhatTheCheckerExpects, ItemFollowsTheRequests,
     Inspected
<1> QED BY <1>1, InvIsInvariant, PTL

===============================================================================
