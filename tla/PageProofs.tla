------------------------------- MODULE PageProofs -------------------------------
(***************************************************************************)
(* Proofs about the page: its trend panels (TrendPanels), its polling of   *)
(* the status (StatusPoll) and its collection table (CollectionTable), for *)
(* any catalogue, number of loads, of instants, of server processes, of    *)
(* requests that could be under way, any collections and any page sizes.   *)
(***************************************************************************)
EXTENDS TrendPanels, StatusPoll, CollectionTable, FiniteSetTheorems, SequenceTheorems,
        TLAPS

-------------------------------------------------------------------------------
(* The trend panels.  An answer writes into the panel of its metric and into   *)
(* the map of the charts without looking at what is selected by then.  What    *)
(* keeps it right is that loadCategory aborts: a request that still waits is   *)
(* one of the last load, for a panel that is in the grid and says "loading".   *)
RequestsAreForThePanels ==
  /\ activeCategory = Dictionary => requests = {}
  /\ \A r \in requests :
       /\ r.load = loads /\ r.range = activeRange
       /\ r.metric \in DOMAIN grid /\ grid[r.metric].shows = "loading"

PanelsAreOfTheLastLoad ==
  activeCategory # Dictionary => \A m \in DOMAIN grid : grid[m].load = loads

PanelsInv ==
  /\ TypeOK
  /\ PanelsMatchTheSelection
  /\ ChartsAreThoseOfTheGrid
  /\ RequestsAreForThePanels
  /\ PanelsAreOfTheLastLoad

LEMMA PanelsInitially == Init => PanelsInv
<1> SUFFICES ASSUME Init PROVE PanelsInv
  OBVIOUS
<1>1. DOMAIN Nothing = {} /\ Nothing \in [{} -> Panel] /\ Nothing \in [{} -> Chart]
  BY DEF Nothing
<1>2. TypeOK
  BY <1>1, SelectionAssumption, MaxLoadsAssumption DEF Init, TypeOK
<1>3. OnDisplay = {}
  BY <1>1 DEF Init, OnDisplay
<1>4. ChartsAreThoseOfTheGrid
  BY <1>3 DEF Init, ChartsAreThoseOfTheGrid, Nothing
<1> QED BY <1>1, <1>2, <1>4, SelectionAssumption DEF Init, PanelsInv,
     PanelsMatchTheSelection, RequestsAreForThePanels, PanelsAreOfTheLastLoad

(* loadCategory, from whichever handler: the charts and the requests of the    *)
(* panels that are left are gone with them (app.js:485-505).                   *)
LEMMA LoadKeepsPanels ==
  ASSUME PanelsInv, LoadCategory, keyword' = keyword,
         catalog' \in {"asked", "arrived", "failed"}, activeCategory' \in Categories,
         activeRange' \in Ranges, metricCatalog' \in {{}, Metrics},
         metricCatalog \subseteq metricCatalog'
  PROVE  PanelsInv'
<1> DEFINE shown == Shown(activeCategory')
<1>1. /\ loads' = loads + 1 /\ loads \in 0 .. MaxLoads /\ loads < MaxLoads
      /\ loads' \in 1 .. MaxLoads
  BY MaxLoadsAssumption DEF LoadCategory, PanelsInv, TypeOK
<1>2. shown \subseteq metricCatalog' /\ shown \subseteq Metrics
  BY DEF Shown
<1>3. charts' = Nothing /\ DOMAIN charts' = {} /\ charts' \in [{} -> Chart]
  BY DEF LoadCategory, Nothing
<1>4. keyword' \in Keywords /\ dictionaryBody \subseteq metricCatalog
      /\ grid \in [DOMAIN grid -> Panel] /\ DOMAIN grid \subseteq metricCatalog
  BY DEF PanelsInv, TypeOK
<1>5. CASE activeCategory' = Dictionary
  <2>1. /\ requests' = {} /\ dictionaryBody' = metricCatalog' \cap keyword
        /\ grid' = grid
    BY <1>5 DEF LoadCategory, Abort
  <2>2. TypeOK'
    BY <1>1, <1>3, <1>4, <2>1 DEF TypeOK
  <2>3. ChartsAreThoseOfTheGrid'
    <3>1. OnDisplay' = {}
      BY <1>5 DEF OnDisplay
    <3> QED BY <1>3, <3>1 DEF ChartsAreThoseOfTheGrid, Nothing
  <2> QED BY <1>5, <2>1, <2>2, <2>3 DEF PanelsInv, PanelsMatchTheSelection,
       RequestsAreForThePanels, PanelsAreOfTheLastLoad
<1>6. CASE activeCategory' # Dictionary
  <2>1. /\ requests' = [metric : shown, range : {activeRange'}, load : {loads'}]
        /\ grid' = [m \in shown |->
                      [load |-> loads', range |-> activeRange', shows |-> "loading"]]
        /\ dictionaryBody' = dictionaryBody
    BY <1>6 DEF LoadCategory, Abort, RangeAsked
  <2> HIDE DEF shown
  <2>2. /\ DOMAIN grid' = shown /\ grid' \in [DOMAIN grid' -> Panel]
        /\ \A m \in shown : grid'[m] = [load |-> loads', range |-> activeRange',
                                        shows |-> "loading"]
    BY <1>1, <2>1 DEF Panel
  <2>3. requests' \subseteq Request
    BY <1>1, <1>2, <2>1 DEF Request
  <2>4. TypeOK'
    BY <1>1, <1>2, <1>3, <1>4, <2>1, <2>2, <2>3 DEF TypeOK
  <2>5. ChartsAreThoseOfTheGrid'
    <3>1. {k \in OnDisplay' : grid'[k].shows = "chart"} = {}
      BY <1>6, <2>2 DEF OnDisplay
    <3> QED BY <1>3, <3>1 DEF ChartsAreThoseOfTheGrid, Nothing
  <2>6. RequestsAreForThePanels'
    BY <1>6, <2>1, <2>2 DEF RequestsAreForThePanels
  <2>7. PanelsMatchTheSelection' /\ PanelsAreOfTheLastLoad'
    BY <1>6, <2>2 DEF PanelsMatchTheSelection, PanelsAreOfTheLastLoad, shown, Shown
  <2> QED BY <2>4, <2>5, <2>6, <2>7 DEF PanelsInv
<1> QED BY <1>5, <1>6

LEMMA SelectingKeepsPanels ==
  ASSUME PanelsInv,
         \/ \E range \in Ranges : CatalogArrives(range) \/ ChooseRange(range)
         \/ \E category \in Categories : ChooseCategory(category)
  PROVE  PanelsInv'
<1>1. /\ catalog \in {"asked", "arrived", "failed"} /\ metricCatalog \in {{}, Metrics}
      /\ activeCategory \in Categories /\ activeRange \in Ranges
  BY DEF PanelsInv, TypeOK
<1>2. ASSUME NEW range \in Ranges, CatalogArrives(range) PROVE PanelsInv'
  BY <1>1, <1>2, LoadKeepsPanels DEF CatalogArrives
<1>3. ASSUME NEW range \in Ranges, ChooseRange(range) PROVE PanelsInv'
  BY <1>1, <1>3, LoadKeepsPanels DEF ChooseRange
<1>4. ASSUME NEW category \in Categories, ChooseCategory(category) PROVE PanelsInv'
  BY <1>1, <1>4, LoadKeepsPanels DEF ChooseCategory
<1> QED BY <1>2, <1>3, <1>4

LEMMA CatalogFailsKeepsPanels ==
  ASSUME PanelsInv, CatalogFails \/ UNCHANGED vars PROVE PanelsInv'
<1>1. UNCHANGED <<metricCatalog, activeCategory, activeRange, keyword, loads, requests,
                  grid, charts, dictionaryBody>>
  BY DEF CatalogFails, vars
<1>2. catalog' \in {"asked", "arrived", "failed"}
  BY DEF CatalogFails, vars, PanelsInv, TypeOK
<1> QED BY <1>1, <1>2 DEF PanelsInv, TypeOK, PanelsMatchTheSelection,
     ChartsAreThoseOfTheGrid, OnDisplay, RequestsAreForThePanels, PanelsAreOfTheLastLoad

LEMMA SearchKeepsPanels ==
  ASSUME PanelsInv, NEW word \in Keywords, Search(word) PROVE PanelsInv'
<1>1. /\ activeCategory = Dictionary /\ keyword' = word
      /\ dictionaryBody' = metricCatalog \cap word
      /\ UNCHANGED <<catalog, metricCatalog, activeCategory, activeRange, loads, requests,
                     grid, charts>>
  BY DEF Search
<1> QED BY <1>1 DEF PanelsInv, TypeOK, PanelsMatchTheSelection, ChartsAreThoseOfTheGrid,
     OnDisplay, RequestsAreForThePanels, PanelsAreOfTheLastLoad

(* An answer finds its own panel, and no other request is for it: what it      *)
(* draws is on display, and there was no chart before it (app.js:377-378,      *)
(* 498-503).                                                                   *)
LEMMA AnswerKeepsPanels ==
  ASSUME PanelsInv, NEW r \in requests, Settle(r) PROVE PanelsInv'
<1> DEFINE m == r.metric
<1>1. /\ activeCategory # Dictionary /\ r \in Request /\ requests' = requests \ {r}
      /\ r.load = loads /\ r.range = activeRange
      /\ m \in DOMAIN grid /\ grid[m].shows = "loading" /\ grid[m].load = loads
      /\ UNCHANGED <<catalog, metricCatalog, activeCategory, activeRange, keyword, loads,
                     dictionaryBody>>
  BY DEF PanelsInv, TypeOK, RequestsAreForThePanels, PanelsAreOfTheLastLoad, Settle,
     SeriesArrives, SeriesFails
<1>2. /\ grid \in [DOMAIN grid -> Panel] /\ DOMAIN grid \subseteq metricCatalog
      /\ loads \in 1 .. MaxLoads /\ activeRange \in Ranges
      /\ DOMAIN charts \subseteq metricCatalog /\ charts \in [DOMAIN charts -> Chart]
  <2>1. r.load \in 1 .. MaxLoads
    BY <1>1 DEF Request
  <2> QED BY <1>1, <2>1 DEF PanelsInv, TypeOK
<1>3. charts = [k \in {n \in DOMAIN grid : grid[n].shows = "chart"} |->
                  [load |-> loads, alive |-> TRUE]]
  BY <1>1 DEF PanelsInv, ChartsAreThoseOfTheGrid, OnDisplay, PanelsAreOfTheLastLoad
<1>4. m \notin DOMAIN charts
  BY <1>1, <1>3
<1>5. \E content \in {"chart", "text", "failure"} :
        /\ grid' = [grid EXCEPT ![m] =
                      [load |-> loads, range |-> activeRange, shows |-> content]]
        /\ charts' = IF content = "chart"
                       THEN Put(charts, m, [load |-> loads, alive |-> TRUE]) ELSE charts
  <2>1. InGrid(r)
    BY <1>1 DEF InGrid
  <2>2. CASE SeriesFails(r)
    BY <1>1, <2>1, <2>2 DEF SeriesFails, Fill, Failure
  <2>3. CASE SeriesArrives(r)
    <3>1. PICK points \in BOOLEAN :
            Fill(r, IF points THEN "chart" ELSE "text") /\ DrawChart(r, points)
      BY <2>3 DEF SeriesArrives
    <3>2. CASE points = TRUE
      BY <1>1, <2>1, <3>1, <3>2 DEF Fill, DrawChart
    <3>3. CASE points = FALSE
      BY <1>1, <1>4, <2>1, <3>1, <3>3 DEF Fill, DrawChart
    <3> QED BY <3>2, <3>3
  <2> QED BY <2>2, <2>3 DEF Settle
<1>6. PICK content \in {"chart", "text", "failure"} :
        /\ grid' = [grid EXCEPT ![m] =
                      [load |-> loads, range |-> activeRange, shows |-> content]]
        /\ charts' = IF content = "chart"
                       THEN Put(charts, m, [load |-> loads, alive |-> TRUE]) ELSE charts
  BY <1>5
<1>7. /\ DOMAIN grid' = DOMAIN grid /\ grid' \in [DOMAIN grid -> Panel]
      /\ \A n \in DOMAIN grid :
           /\ n # m => grid'[n] = grid[n]
           /\ n = m => grid'[n] = [load |-> loads, range |-> activeRange, shows |-> content]
  BY <1>1, <1>2, <1>6 DEF Panel
<1>8. charts' = [k \in {n \in DOMAIN grid' : grid'[n].shows = "chart"} |->
                   [load |-> loads, alive |-> TRUE]]
  <2>1. CASE content = "chart"
    <3>1. {n \in DOMAIN grid' : grid'[n].shows = "chart"} = DOMAIN charts \cup {m}
      BY <1>1, <1>3, <1>7, <2>1
    <3>2. charts' = [k \in DOMAIN charts \cup {m} |->
                       IF k = m THEN [load |-> loads, alive |-> TRUE] ELSE charts[k]]
      BY <1>6, <2>1 DEF Put
    <3>3. \A k \in DOMAIN charts : charts[k] = [load |-> loads, alive |-> TRUE]
      BY <1>3
    <3> QED BY <3>1, <3>2, <3>3
  <2>2. CASE content # "chart"
    <3>1. {n \in DOMAIN grid' : grid'[n].shows = "chart"}
            = {n \in DOMAIN grid : grid[n].shows = "chart"}
      BY <1>1, <1>7, <2>2
    <3> QED BY <1>3, <1>6, <2>2, <3>1
  <2> QED BY <2>1, <2>2
<1>9. TypeOK'
  <2>1. DOMAIN charts' \subseteq metricCatalog /\ charts' \in [DOMAIN charts' -> Chart]
    BY <1>2, <1>7, <1>8 DEF Chart
  <2> QED BY <1>1, <1>7, <2>1 DEF PanelsInv, TypeOK
<1>10. ASSUME NEW q \in requests' PROVE q.metric # m
  <2>1. q \in Request /\ q.load = loads /\ q.range = activeRange /\ q # r
    BY <1>1, <1>10 DEF PanelsInv, TypeOK, RequestsAreForThePanels
  <2> QED BY <1>1, <2>1 DEF Request
<1>11. RequestsAreForThePanels'
  BY <1>1, <1>7, <1>10 DEF PanelsInv, RequestsAreForThePanels
<1>12. PanelsMatchTheSelection' /\ PanelsAreOfTheLastLoad'
  BY <1>1, <1>7 DEF PanelsInv, PanelsMatchTheSelection, PanelsAreOfTheLastLoad
<1>13. ChartsAreThoseOfTheGrid'
  BY <1>1, <1>8, <1>12 DEF ChartsAreThoseOfTheGrid, OnDisplay, PanelsAreOfTheLastLoad
<1> QED BY <1>9, <1>11, <1>12, <1>13 DEF PanelsInv

LEMMA PanelsInvIsInvariant == Spec => []PanelsInv
<1>1. PanelsInv /\ [Next]_vars => PanelsInv'
  BY SelectingKeepsPanels, CatalogFailsKeepsPanels, SearchKeepsPanels, AnswerKeepsPanels
     DEF Next
<1> QED BY <1>1, PanelsInitially, PTL DEF Spec

(* Panels, charts and requests are those of metrics that the catalogue has     *)
(* (app.js:274-278, 493-497).                                                  *)
THEOREM PanelTypes == Spec => []TypeOK
<1>1. PanelsInv => TypeOK
  BY DEF PanelsInv
<1> QED BY <1>1, PanelsInvIsInvariant, PTL

(* The panels on display are those of the category and the range that are      *)
(* selected, in whatever order the catalogue, the clicks and the answers come  *)
(* (app.js:485-505, 523-529, 536-548).                                         *)
THEOREM PanelsAreThoseSelected == Spec => []PanelsMatchTheSelection
<1>1. PanelsInv => PanelsMatchTheSelection
  BY DEF PanelsInv
<1> QED BY <1>1, PanelsInvIsInvariant, PTL

(* A panel that shows a chart owns the chart of its metric, alive, and there   *)
(* is no other: no answer to a panel that was left draws over, or destroys,    *)
(* the chart of the one that took its place (app.js:377-378, 486-488, 497).    *)
THEOREM ChartsAreOwned == Spec => []ChartsAreThoseOfTheGrid
<1>1. PanelsInv => ChartsAreThoseOfTheGrid
  BY DEF PanelsInv
<1> QED BY <1>1, PanelsInvIsInvariant, PTL

-------------------------------------------------------------------------------
(* The polling of the status. *)

(* Of two statuses: of an earlier process, or of the same one and not younger. *)
IsNotAfter(a, b) ==
  a.boot < b.boot \/ (a.boot = b.boot /\ a.checkedAt <= b.checkedAt)

(* What /api/status would say now. *)
ServerNow == [boot |-> boot, checkedAt |-> report.checkedAt]

OneFlight ==
  /\ \A f, g \in Slots : flights[f] # Free /\ flights[g] # Free => f = g
  /\ \A f \in Slots : flights[f] # Free => refreshing

(* The page, then the answer on its way, then the server. *)
InOrder ==
  /\ report.checkedAt <= clock
  /\ IsNotAfter(lastStatus, ServerNow)
  /\ \A f \in Slots : flights[f] \in Statuses =>
       IsNotAfter(lastStatus, flights[f]) /\ IsNotAfter(flights[f], ServerNow)

PollInv == PollTypeOK /\ OneFlight /\ InOrder

LEMMA NotStatuses ==
  /\ Free \notin Statuses /\ Asked \notin Statuses
  /\ Free # Asked
<1>1. /\ Free.boot = -1 /\ Asked.boot = -2
  BY DEF Free, Asked, NoStatus
<1>2. \A st \in Statuses : st.boot \in 1 .. MaxBoots
  BY DEF Statuses
<1> QED BY <1>1, <1>2

LEMMA PollInstants ==
  ASSUME PollTypeOK
  PROVE  /\ clock \in Nat \ {0} /\ boot \in Nat \ {0} /\ report.checkedAt \in Nat
         /\ lastStatus.boot \in Nat /\ lastStatus.checkedAt \in Nat
         /\ \A st \in Statuses : st.boot \in Nat /\ st.checkedAt \in Nat
<1>1. \A st \in Statuses : st.boot \in Nat /\ st.checkedAt \in Nat
  BY DEF Statuses, Instants, ZeroTime
<1>2. clock \in Nat \ {0} /\ boot \in Nat \ {0} /\ report.checkedAt \in Nat
  <2>1. /\ clock \in 1 .. MaxClock /\ boot \in 1 .. MaxBoots
        /\ report.checkedAt \in (1 .. MaxClock) \cup {0}
    BY DEF PollTypeOK, Instants, ZeroTime
  <2> QED BY <2>1
<1>3. lastStatus.boot \in Nat /\ lastStatus.checkedAt \in Nat
  <2>1. lastStatus \in Statuses \cup {NoStatus}
    BY DEF PollTypeOK
  <2> QED BY <1>1, <2>1 DEF NoStatus, ZeroTime
<1> QED BY <1>1, <1>2, <1>3

LEMMA FlightTypes ==
  ASSUME PollTypeOK
  PROVE  /\ flights \in [Slots -> Statuses \cup {Free, Asked}]
         /\ lastStatus \in Statuses \cup {NoStatus}
         /\ refreshing \in BOOLEAN
BY DEF PollTypeOK

LEMMA PollInitially ==
  ASSUME PollInit PROVE PollInv
<1>1. /\ clock = 1 /\ boot = 1 /\ report.checkedAt = 0 /\ refreshing = TRUE
      /\ flights = [f \in Slots |-> IF f = 1 THEN Asked ELSE Free]
      /\ lastStatus = NoStatus
  BY DEF PollInit, StoreInit, EmptyReport, ZeroTime
<1>2. PollTypeOK
  <2>1. flights \in [Slots -> Statuses \cup {Free, Asked}]
    BY <1>1
  <2>2. /\ clock \in Instants /\ boot \in 1 .. MaxBoots
        /\ report.checkedAt \in Instants \cup {ZeroTime}
    BY <1>1, BoundsAssumption DEF Instants, ZeroTime
  <2>3. /\ intervalSeconds \in {Interval, FirstInterval}
        /\ remainingSeconds \in 1 .. intervalSeconds
    BY IntervalAssumption DEF PollInit
  <2> QED BY <1>1, <2>1, <2>2, <2>3 DEF PollInit, StoreInit, NoError,
       PollTypeOK
<1>3. OneFlight
  BY <1>1, NotStatuses DEF OneFlight
<1>4. InOrder
  <2>1. \A f \in Slots : flights[f] \notin Statuses
    BY <1>1, NotStatuses
  <2>2. IsNotAfter(lastStatus, ServerNow)
    BY <1>1 DEF IsNotAfter, ServerNow, NoStatus
  <2> QED BY <1>1, <2>1, <2>2 DEF InOrder
<1> QED BY <1>2, <1>3, <1>4 DEF PollInv

(* Time, and a check that ends: the server only gets ahead of the page. *)
LEMMA ServerStepKeepsPoll ==
  ASSUME PollInv,
         Tick \/ CheckEnds \/ ServerRestarts
  PROVE  PollInv'
<1>1. UNCHANGED <<remainingSeconds, intervalSeconds, refreshing, flights, lastStatus,
                  errorBanner, staleBanner>>
  BY DEF Tick, CheckEnds, ServerRestarts, pageVars
<1>2. /\ clock' \in Instants /\ boot' \in 1 .. MaxBoots
      /\ report'.checkedAt \in Instants \cup {ZeroTime}
  <2>1. /\ clock \in Instants /\ boot \in 1 .. MaxBoots
        /\ report.checkedAt \in Instants \cup {ZeroTime}
    BY DEF PollInv, PollTypeOK
  <2>2. CASE Tick
    BY <2>1, <2>2, BoundsAssumption DEF Tick, serverVars, storeVars, Instants
  <2>3. CASE CheckEnds
    BY <2>1, <2>3, BoundsAssumption DEF CheckEnds, Publishes, SetSuccess, SetFailure, Instants
  <2>4. CASE ServerRestarts
    BY <2>1, <2>4, BoundsAssumption DEF ServerRestarts, EmptyReport
  <2> QED BY <2>2, <2>3, <2>4
<1>3. /\ ready' \in BOOLEAN /\ up' \in BOOLEAN
      /\ lastError' \in {NoError, "failed"}
  <2>1. /\ ready \in BOOLEAN /\ up \in BOOLEAN
        /\ lastError \in {NoError, "failed"}
    BY DEF PollInv, PollTypeOK
  <2>2. \/ UNCHANGED <<ready, up, lastError>>
        \/ ready' = TRUE /\ up' = TRUE /\ lastError' = NoError
        \/ UNCHANGED ready /\ up' = FALSE /\ lastError' = "failed"
        \/ ready' = FALSE /\ up' = FALSE /\ lastError' = NoError
    BY DEF Tick, CheckEnds, ServerRestarts, Publishes, SetSuccess,
       SetFailure, serverVars, storeVars
  <2> QED BY <2>1, <2>2, Zenon
<1>4. PollTypeOK'
  BY <1>1, <1>2, <1>3 DEF PollInv, PollTypeOK
<1>5. OneFlight'
  BY <1>1 DEF PollInv, OneFlight
<1>6. IsNotAfter(ServerNow, ServerNow') /\ report'.checkedAt <= clock'
  <2>1. report.checkedAt <= clock
    BY DEF PollInv, InOrder
  <2>2. /\ clock \in Nat /\ boot \in Nat /\ report.checkedAt \in Nat
    BY PollInstants DEF PollInv
  <2>3. CASE Tick
    BY <2>1, <2>2, <2>3 DEF Tick, serverVars, storeVars, IsNotAfter, ServerNow
  <2>4. CASE CheckEnds
    BY <2>1, <2>2, <2>4 DEF CheckEnds, Publishes, SetSuccess, SetFailure, IsNotAfter,
       ServerNow
  <2>5. CASE ServerRestarts
    BY <2>1, <2>2, <2>5 DEF ServerRestarts, EmptyReport, ZeroTime,
       IsNotAfter, ServerNow
  <2> QED BY <2>3, <2>4, <2>5
<1>7. InOrder'
  <2>1. /\ boot \in Nat /\ report.checkedAt \in Nat
        /\ boot' \in Nat /\ report'.checkedAt \in Nat
        /\ lastStatus.boot \in Nat /\ lastStatus.checkedAt \in Nat
        /\ \A st \in Statuses : st.boot \in Nat /\ st.checkedAt \in Nat
    BY PollInstants, <1>2, BoundsAssumption DEF PollInv, Instants, ZeroTime
  <2>2. \A st : st.boot \in Nat /\ st.checkedAt \in Nat /\ IsNotAfter(st, ServerNow)
                  => IsNotAfter(st, ServerNow')
    BY <1>6, <2>1 DEF IsNotAfter, ServerNow
  <2> QED BY <1>1, <1>6, <2>1, <2>2 DEF PollInv, InOrder
<1> QED BY <1>4, <1>5, <1>7 DEF PollInv

(* refresh() asks only when no request is under way (app.js:203-205). *)
LEMMA RefreshKeepsOneFlight ==
  ASSUME PollInv, Refresh
  PROVE  /\ flights' \in [Slots -> Statuses \cup {Free, Asked}]
         /\ refreshing' \in BOOLEAN
         /\ OneFlight'
         /\ \A f \in Slots : flights'[f] \in Statuses => flights'[f] = flights[f]
<1>1. /\ flights \in [Slots -> Statuses \cup {Free, Asked}]
      /\ refreshing \in BOOLEAN /\ OneFlight
  BY FlightTypes DEF PollInv
<1>2. CASE refreshing
  <2>1. refreshing' = refreshing /\ flights' = flights
    BY <1>2 DEF Refresh
  <2> QED BY <1>1, <2>1 DEF OneFlight
<1>3. CASE ~refreshing
  <2>1. PICK f \in Slots : /\ flights' = [flights EXCEPT ![f] = Asked]
                                /\ refreshing' = TRUE
    BY <1>3 DEF Refresh, Ask
  <2>2. \A g \in Slots : flights[g] = Free
    BY <1>1, <1>3 DEF OneFlight
  <2>3. \A g \in Slots : flights'[g] = IF g = f THEN Asked ELSE Free
    BY <1>1, <2>1, <2>2
  <2>4. OneFlight'
    BY <2>1, <2>3 DEF OneFlight
  <2> QED BY <1>1, <2>1, <2>3, <2>4, NotStatuses
<1> QED BY <1>2, <1>3

LEMMA PageStepKeepsPoll ==
  ASSUME PollInv, ClickRefresh \/ CountDown
  PROVE  PollInv'
<1>1. UNCHANGED <<clock, boot, ready, up, report, lastError, intervalSeconds, lastStatus,
                  errorBanner, staleBanner>>
  BY DEF ClickRefresh, CountDown, serverVars, storeVars
<1>2. /\ flights' \in [Slots -> Statuses \cup {Free, Asked}]
      /\ refreshing' \in BOOLEAN /\ OneFlight'
      /\ \A f \in Slots : flights'[f] \in Statuses => flights'[f] = flights[f]
  <2>1. CASE Refresh
    BY <2>1, RefreshKeepsOneFlight
  <2>2. CASE refreshing' = refreshing /\ flights' = flights
    BY <2>2, FlightTypes DEF PollInv, OneFlight
  <2> QED BY <2>1, <2>2 DEF ClickRefresh, CountDown
<1>3. remainingSeconds' \in 1 .. intervalSeconds
  <2>1. /\ remainingSeconds \in 1 .. intervalSeconds
        /\ intervalSeconds \in {Interval, FirstInterval}
    BY DEF PollInv, PollTypeOK
  <2> QED BY <2>1, IntervalAssumption DEF ClickRefresh, CountDown
<1>4. PollTypeOK'
  BY <1>1, <1>2, <1>3 DEF PollInv, PollTypeOK
<1>5. InOrder'
  BY <1>1, <1>2 DEF PollInv, InOrder, ServerNow
<1> QED BY <1>2, <1>4, <1>5 DEF PollInv

(* An answer is what the server would say now, so it is not before the page. *)
LEMMA AnswerKeepsPoll ==
  ASSUME PollInv, NEW f \in Slots, ServerAnswers(f)
  PROVE  PollInv'
<1> DEFINE answer == [boot |-> boot, ready |-> ready, up |-> up,
                      checkedAt |-> report.checkedAt, lastError |-> lastError]
<1>1. /\ flights[f] = Asked /\ flights' = [flights EXCEPT ![f] = answer]
      /\ UNCHANGED <<clock, boot, ready, up, report, lastError, remainingSeconds,
                     intervalSeconds, refreshing, lastStatus, errorBanner, staleBanner>>
  BY DEF ServerAnswers, serverVars, storeVars
<1>2. answer \in Statuses
  BY DEF PollInv, PollTypeOK, Statuses
<1>3. answer.boot = boot /\ answer.checkedAt = report.checkedAt
  OBVIOUS
<1> HIDE DEF answer
<1>4. /\ flights' \in [Slots -> Statuses \cup {Free, Asked}]
      /\ \A g \in Slots : flights'[g] = IF g = f THEN answer ELSE flights[g]
  BY <1>1, <1>2, FlightTypes DEF PollInv
<1>5. PollTypeOK'
  BY <1>1, <1>4 DEF PollInv, PollTypeOK
<1>6. OneFlight'
  BY <1>1, <1>4, NotStatuses DEF PollInv, OneFlight
<1>7. IsNotAfter(lastStatus, answer) /\ IsNotAfter(answer, ServerNow)
  <2>1. IsNotAfter(lastStatus, ServerNow)
    BY DEF PollInv, InOrder
  <2>2. boot \in Nat /\ report.checkedAt \in Nat
    BY PollInstants DEF PollInv
  <2> QED BY <1>3, <2>1, <2>2 DEF IsNotAfter, ServerNow
<1>8. InOrder'
  BY <1>1, <1>4, <1>7 DEF PollInv, InOrder, ServerNow
<1> QED BY <1>5, <1>6, <1>8 DEF PollInv

(* What arrives is not before the page, and nothing else is on its way. *)
LEMMA ArrivalKeepsPoll ==
  ASSUME PollInv, NEW f \in Slots, ResponseArrives(f)
  PROVE  PollInv' /\ IsNotAfter(lastStatus, lastStatus')
<1>1. /\ flights[f] \in Statuses /\ lastStatus' = flights[f]
      /\ intervalSeconds' = Interval /\ remainingSeconds' = Interval
      /\ refreshing' = FALSE /\ flights' = [flights EXCEPT ![f] = Free]
      /\ errorBanner' \in {"hidden", "last_error"}
      /\ UNCHANGED <<clock, boot, ready, up, report, lastError>>
  BY DEF ResponseArrives, serverVars, storeVars
<1>2. staleBanner' \in BOOLEAN
  BY DEF ResponseArrives, IsStale
<1>3. flights' \in [Slots -> Statuses \cup {Free, Asked}]
  BY <1>1, FlightTypes DEF PollInv
<1>4. \A g \in Slots : flights'[g] = Free
  BY <1>1, FlightTypes, NotStatuses DEF PollInv, OneFlight
<1>5. PollTypeOK'
  <2>1. /\ intervalSeconds' \in {Interval, FirstInterval}
        /\ remainingSeconds' \in 1 .. intervalSeconds'
    BY <1>1, IntervalAssumption
  <2>2. refreshing' \in BOOLEAN
    BY <1>1, Zenon
  <2>3. lastStatus' \in Statuses \cup {NoStatus}
    BY <1>1, Zenon
  <2>4. errorBanner' \in {"hidden", "last_error", "request failed"}
    BY <1>1, Zenon
  <2>5. /\ clock' \in Instants /\ boot' \in 1 .. MaxBoots
        /\ ready' \in BOOLEAN /\ up' \in BOOLEAN
        /\ lastError' \in {NoError, "failed"}
        /\ report'.checkedAt \in Instants \cup {ZeroTime}
    BY <1>1, Zenon DEF PollInv, PollTypeOK
  <2> QED BY <1>2, <1>3, <2>1, <2>2, <2>3, <2>4, <2>5, Zenon DEF PollTypeOK
<1>6. OneFlight'
  BY <1>4 DEF OneFlight
<1>7. InOrder'
  BY <1>1, <1>4, NotStatuses DEF PollInv, InOrder, ServerNow
<1>8. IsNotAfter(lastStatus, lastStatus')
  BY <1>1 DEF PollInv, InOrder
<1> QED BY <1>5, <1>6, <1>7, <1>8 DEF PollInv

LEMMA FailureKeepsPoll ==
  ASSUME PollInv, NEW f \in Slots, RequestFails(f)
  PROVE  PollInv'
<1>1. /\ flights[f] # Free /\ errorBanner' = "request failed"
      /\ refreshing' = FALSE /\ flights' = [flights EXCEPT ![f] = Free]
      /\ UNCHANGED <<clock, boot, ready, up, report, lastError, remainingSeconds,
                     intervalSeconds, lastStatus, staleBanner>>
  BY DEF RequestFails, Finally, serverVars, storeVars
<1>2. flights' \in [Slots -> Statuses \cup {Free, Asked}]
  BY <1>1, FlightTypes DEF PollInv
<1>3. \A g \in Slots : flights'[g] = Free
  BY <1>1, FlightTypes DEF PollInv, OneFlight
<1>4. PollTypeOK'
  BY <1>1, <1>2 DEF PollInv, PollTypeOK
<1>5. OneFlight'
  BY <1>3 DEF OneFlight
<1>6. InOrder'
  BY <1>1, <1>3, NotStatuses DEF PollInv, InOrder, ServerNow
<1> QED BY <1>4, <1>5, <1>6 DEF PollInv

LEMMA StutterKeepsPoll ==
  ASSUME PollInv, UNCHANGED pollVars PROVE PollInv' /\ lastStatus' = lastStatus
BY DEF pollVars, serverVars, storeVars, pageVars, PollInv, PollTypeOK,
   OneFlight, InOrder, ServerNow

LEMMA PollStep ==
  ASSUME PollInv, [PollNext]_pollVars
  PROVE  PollInv' /\ (lastStatus' = lastStatus \/ IsNotAfter(lastStatus, lastStatus'))
<1>1. CASE Tick \/ CheckEnds \/ ServerRestarts
  BY <1>1, ServerStepKeepsPoll
     DEF Tick, CheckEnds, ServerRestarts, pageVars
<1>2. CASE ClickRefresh \/ CountDown
  BY <1>2, PageStepKeepsPoll DEF ClickRefresh, CountDown
<1>3. ASSUME NEW f \in Slots,
             ServerAnswers(f) \/ ResponseArrives(f) \/ RequestFails(f)
      PROVE  PollInv' /\ (lastStatus' = lastStatus \/ IsNotAfter(lastStatus, lastStatus'))
  BY <1>3, AnswerKeepsPoll, ArrivalKeepsPoll, FailureKeepsPoll
     DEF ServerAnswers, RequestFails
<1> QED BY <1>1, <1>2, <1>3, StutterKeepsPoll DEF PollNext

LEMMA PollInvIsInvariant == PollSpec => []PollInv
<1>1. PollInit => PollInv
  BY PollInitially
<1>2. PollInv /\ [PollNext]_pollVars => PollInv'
  BY PollStep
<1> QED BY <1>1, <1>2, PTL DEF PollSpec

(* The countdown never leaves 1 to intervalSeconds, and the page shows a       *)
(* status that a server has given (app.js:28-31, 173-176, 252-257).            *)
THEOREM PollTypes == PollSpec => []PollTypeOK
<1>1. PollInv => PollTypeOK
  BY DEF PollInv
<1> QED BY <1>1, PollInvIsInvariant, PTL

(* The page never replaces a status by an older one, whatever the button, the  *)
(* timer, the network and restarts of the server do: one request is under way  *)
(* at a time, and its answer is not older than the page (app.js:203-205, 220). *)
THEOREM PageNeverGoesBack == PollSpec => DisplayNeverGoesBack
<1>1. PollInv /\ PollInv' /\ [PollNext]_pollVars =>
        [\/ lastStatus'.boot > lastStatus.boot
         \/ /\ lastStatus'.boot = lastStatus.boot
            /\ lastStatus'.checkedAt >= lastStatus.checkedAt]_lastStatus
  <2> SUFFICES ASSUME PollInv, PollInv', [PollNext]_pollVars, lastStatus' # lastStatus
               PROVE  \/ lastStatus'.boot > lastStatus.boot
                      \/ /\ lastStatus'.boot = lastStatus.boot
                         /\ lastStatus'.checkedAt >= lastStatus.checkedAt
    OBVIOUS
  <2>1. IsNotAfter(lastStatus, lastStatus')
    BY PollStep
  <2>2. /\ lastStatus.boot \in Nat /\ lastStatus.checkedAt \in Nat
    BY PollInstants DEF PollInv
  <2>3. lastStatus' \in Statuses \cup {NoStatus}
    BY DEF PollInv, PollTypeOK
  <2>4. lastStatus'.boot \in Nat /\ lastStatus'.checkedAt \in Nat
    BY <2>3, PollInstants DEF PollInv, NoStatus, ZeroTime
  <2> QED BY <2>1, <2>2, <2>4 DEF IsNotAfter
<1> QED BY <1>1, PollInvIsInvariant, PTL DEF PollSpec, DisplayNeverGoesBack

-------------------------------------------------------------------------------
(* The collection table. *)

(* Math.max and Math.min, and Math.ceil: the pages hold the whole list         *)
(* (app.js:112-114).                                                           *)
LEMMA LargerOf ==
  ASSUME NEW a \in Int, NEW b \in Int PROVE Max({a, b}) = IF a >= b THEN a ELSE b
BY SMT DEF Max

LEMMA SmallerOf ==
  ASSUME NEW a \in Int, NEW b \in Int PROVE Min({a, b}) = IF a <= b THEN a ELSE b
BY SMT DEF Min

LEMMA PagesCoverTheList ==
  ASSUME NEW total \in Nat, NEW size \in Nat \ {0}
  PROVE  /\ TotalPages(total, size) \in Nat \ {0}
         /\ total <= TotalPages(total, size) * size
         /\ total = 0 => TotalPages(total, size) = 1
         /\ total # 0 => /\ (TotalPages(total, size) - 1) * size < total
                        /\ TotalPages(total, size) <= total
<1> DEFINE q == (total + size - 1) \div size
           p == TotalPages(total, size)
<1>1. /\ q \in Int /\ total + size - 1 < (q + 1) * size
      /\ q * size <= total + size - 1
  OBVIOUS
<1>2. p = IF 1 >= q THEN 1 ELSE q
  BY <1>1, LargerOf DEF TotalPages
<1> HIDE DEF q, p
<1>3. p \in Nat \ {0} /\ p - q \in Nat
  BY <1>1, <1>2
<1>4. (q + 1) * size = q * size + size /\ q * size \in Int
  BY <1>1
<1>5. total <= q * size
  BY <1>1, <1>4
<1>6. (p - q) * size \in Nat /\ (p - q) * size = p * size - q * size
  BY <1>1, <1>3
<1>7. p * size \in Int
  BY <1>3
<1>8. total <= p * size
  BY <1>4, <1>5, <1>6, <1>7
<1>9. ASSUME total = 0 PROVE p = 1
  <2>1. CASE q >= 2
    <3>1. (q - 2) * size \in Nat /\ (q - 2) * size = q * size - 2 * size
      BY <1>1, <2>1
    <3> QED BY <1>1, <1>4, <1>9, <3>1
  <2> QED BY <1>1, <1>2, <2>1
<1>10. ASSUME total # 0 PROVE (p - 1) * size < total /\ p <= total
  <2>1. q >= 1
    <3>1. CASE q < 1
      <4>1. (0 - q) * size \in Nat /\ (0 - q) * size = 0 - q * size
        BY <1>1, <3>1
      <4> QED BY <1>4, <1>5, <1>10, <4>1
    <3> QED BY <1>1, <3>1
  <2>2. p = q /\ p - 1 \in Nat
    BY <1>1, <1>2, <2>1
  <2>3. (p - 1) * size = q * size - size /\ (p - 1) * size \in Int
    BY <1>1, <2>2
  <2>4. (p - 1) * size < total
    BY <1>1, <1>4, <2>3
  <2>5. (p - 1) * (size - 1) \in Nat /\ (p - 1) * (size - 1) = (p - 1) * size - (p - 1)
    BY <2>2
  <2> QED BY <1>3, <2>3, <2>4, <2>5
<1> QED BY <1>3, <1>8, <1>9, <1>10 DEF p

(* The places of what a filter keeps are 1, 2, ... in its order: they differ,  *)
(* and as many places as there are kept ones leave none out.                   *)
LEMMA PlacesOfTheKept ==
  ASSUME NEW n \in Nat, NEW kept \in SUBSET (1 .. n)
  PROVE  /\ Cardinality(kept) \in 0 .. n
         /\ \A i \in kept : Place(kept, i) \in 1 .. Cardinality(kept)
         /\ \A i, j \in kept : i < j => Place(kept, i) < Place(kept, j)
         /\ \A p \in 1 .. Cardinality(kept) : \E i \in kept : Place(kept, i) = p
<1> DEFINE upTo(i) == {k \in kept : k <= i}
           size == Cardinality(kept)
           place == [i \in kept |-> Place(kept, i)]
<1>1. IsFiniteSet(1 .. n) /\ Cardinality(1 .. n) = n
  BY FS_Interval
<1>2. IsFiniteSet(kept) /\ size \in Nat /\ size <= n
  BY <1>1, FS_Subset, FS_CardinalityType
<1>3. \A i \in kept : IsFiniteSet(upTo(i)) /\ Cardinality(upTo(i)) \in Nat
  BY <1>2, FS_Subset, FS_CardinalityType
<1>4. ASSUME NEW i \in kept PROVE Place(kept, i) \in 1 .. size
  <2>1. upTo(i) \in SUBSET kept /\ i \in upTo(i)
    OBVIOUS
  <2>2. Cardinality(upTo(i)) <= size
    BY <1>2, <2>1, FS_Subset
  <2>3. Cardinality(upTo(i)) # 0
    BY <1>3, <2>1, FS_EmptySet
  <2> QED BY <1>2, <1>3, <2>2, <2>3 DEF Place
<1>5. ASSUME NEW i \in kept, NEW j \in kept, i < j
      PROVE  Place(kept, i) < Place(kept, j)
  <2>0. i \in Int /\ j \in Int /\ kept \subseteq Int
    OBVIOUS
  <2>1. upTo(i) \in SUBSET upTo(j)
    <3>1. \A k \in kept : k <= i => k <= j
      BY <1>5, <2>0
    <3> QED BY <3>1
  <2>4. j \in upTo(j) /\ j \notin upTo(i)
    BY <1>5, <2>0
  <2>2. /\ Cardinality(upTo(i)) <= Cardinality(upTo(j))
        /\ Cardinality(upTo(i)) # Cardinality(upTo(j))
    BY <1>3, <2>1, <2>4, FS_Subset
  <2> QED BY <1>3, <2>2 DEF Place
<1>6. ASSUME NEW p \in 1 .. size PROVE \E i \in kept : Place(kept, i) = p
  <2>1. IsFiniteSet(1 .. size) /\ Cardinality(1 .. size) = size
    BY <1>2, FS_Interval
  <2>2. place \in [kept -> 1 .. size]
    BY <1>4
  <2>3. \A i, j \in kept : place[i] = place[j] => i = j
    BY <1>4, <1>5
  <2>4. place \in Injection(kept, 1 .. size)
    BY <2>2, <2>3, Zenon DEF Injection, IsInjective
  <2>5. place \in Surjection(kept, 1 .. size)
    BY <2>1, <2>4, FS_Injection
  <2> QED BY <2>5 DEF Surjection
<1> QED BY <1>2, <1>4, <1>5, <1>6

(* Matching keeps what passes the filter, all of it and in its order           *)
(* (app.js:111).                                                               *)
LEMMA MatchesAreTheKept ==
  ASSUME NEW n \in Nat, NEW list \in [1 .. n -> Item], NEW filters
  PROVE  LET kept == Kept(list, filters)
             m    == Matching(list, filters)
         IN  /\ m \in Seq(Item) /\ Len(m) = Cardinality(kept) /\ Len(m) \in 0 .. n
             /\ DOMAIN m = 1 .. Len(m)
             /\ \A i \in kept : Place(kept, i) \in DOMAIN m /\ m[Place(kept, i)] = list[i]
             /\ \A p \in DOMAIN m : \E i \in kept : Place(kept, i) = p
<1> DEFINE kept == Kept(list, filters)
           m    == Matching(list, filters)
           at(p) == CHOOSE i \in kept : Place(kept, i) = p
<1>1. kept \in SUBSET (1 .. n)
  BY DEF Kept
<1>2. m = [p \in 1 .. Cardinality(kept) |-> list[at(p)]]
  BY DEF Matching
<1> HIDE DEF kept, m
<1>3. /\ Cardinality(kept) \in 0 .. n
      /\ \A i \in kept : Place(kept, i) \in 1 .. Cardinality(kept)
      /\ \A i, j \in kept : i < j => Place(kept, i) < Place(kept, j)
      /\ \A p \in 1 .. Cardinality(kept) : \E i \in kept : Place(kept, i) = p
  BY <1>1, PlacesOfTheKept
<1>4. \A p \in 1 .. Cardinality(kept) : at(p) \in kept /\ Place(kept, at(p)) = p
  BY <1>3
<1>5. ASSUME NEW i \in kept PROVE at(Place(kept, i)) = i
  <2>1. Place(kept, i) \in 1 .. Cardinality(kept)
    BY <1>3
  <2>2. at(Place(kept, i)) \in kept /\ Place(kept, at(Place(kept, i))) = Place(kept, i)
    BY <1>4, <2>1
  <2>3. \A j \in kept : Place(kept, j) = Place(kept, i) => j = i
    BY <1>1, <1>3
  <2> QED BY <2>2, <2>3
<1> HIDE DEF at
<1>6. \A p \in 1 .. Cardinality(kept) : list[at(p)] \in Item
  BY <1>1, <1>4
<1>7. /\ DOMAIN m = 1 .. Cardinality(kept)
      /\ \A p \in 1 .. Cardinality(kept) : m[p] = list[at(p)]
  BY <1>2
<1>8. m \in Seq(Item) /\ Len(m) = Cardinality(kept)
  BY <1>2, <1>3, <1>6
<1>9. \A i \in kept : Place(kept, i) \in DOMAIN m /\ m[Place(kept, i)] = list[i]
  BY <1>3, <1>5, <1>7
<1> QED BY <1>3, <1>7, <1>8, <1>9 DEF kept, m

(* The matches of a list are items of it, in the order of their ids.           *)
LEMMA MatchesInOrder ==
  ASSUME NEW list \in Lists, NEW filters
  PROVE  LET m == Matching(list, filters)
         IN  /\ m \in Seq(Item) /\ Len(m) \in 0 .. Len(list) /\ Len(list) \in Nat
             /\ DOMAIN m = 1 .. Len(m)
             /\ \A p, q \in DOMAIN m : p < q => m[p].id < m[q].id
<1> DEFINE kept == Kept(list, filters)
           m    == Matching(list, filters)
<1>1. PICK n \in 0 .. Cardinality(Ids) : list \in [1 .. n -> Item] /\ InOrderOfId(list)
  BY DEF Lists
<1>2. n \in Nat /\ Len(list) = n
  BY <1>1
<1>3. /\ m \in Seq(Item) /\ Len(m) \in 0 .. n /\ DOMAIN m = 1 .. Len(m)
      /\ \A i \in kept : Place(kept, i) \in DOMAIN m /\ m[Place(kept, i)] = list[i]
      /\ \A p \in DOMAIN m : \E i \in kept : Place(kept, i) = p
  BY <1>1, <1>2, MatchesAreTheKept
<1>4. kept \in SUBSET (1 .. n)
  BY <1>1 DEF Kept
<1>5. \A i, j \in kept : i < j => Place(kept, i) < Place(kept, j)
  BY <1>2, <1>4, PlacesOfTheKept
<1> HIDE DEF kept, m
<1>6. ASSUME NEW p \in DOMAIN m, NEW q \in DOMAIN m, p < q PROVE m[p].id < m[q].id
  <2>1. PICK i \in kept : Place(kept, i) = p
    BY <1>3
  <2>2. PICK j \in kept : Place(kept, j) = q
    BY <1>3
  <2>3. m[p] = list[i] /\ m[q] = list[j]
    BY <1>3, <2>1, <2>2
  <2>4. i \in 1 .. n /\ j \in 1 .. n /\ p \in Int /\ q \in Int
    BY <1>3, <1>4
  <2>5. i < j
    BY <1>5, <1>6, <2>1, <2>2, <2>4
  <2>6. i \in DOMAIN list /\ j \in DOMAIN list
    BY <1>1, <2>4
  <2> QED BY <1>1, <2>3, <2>5, <2>6 DEF InOrderOfId
<1> QED BY <1>2, <1>3, <1>6 DEF m

(* What is on the page is what renderCollectionPage would draw again: no       *)
(* handler changes the list, the filters or the size and leaves it at that.    *)
TableInv ==
  LET matching == Matching(allCollections, activeFilters)
  IN  /\ allCollections \in Lists /\ activeFilters \subseteq Filters
      /\ pageSize \in PageSizes
      /\ currentPage \in 1 .. TotalPages(Len(matching), pageSize)
      /\ rendered = View(matching, pageSize, currentPage)

LEMMA TableInitially == TableInit => TableInv
<1> SUFFICES ASSUME TableInit PROVE TableInv
  OBVIOUS
<1> DEFINE matching == Matching(allCollections, activeFilters)
<1>1. PICK n \in PageSizes : \A m \in PageSizes : ~(<<m, n>> \in OpToRel(<, Nat))
  BY TableAssumption, NatLessThanWellFounded, WFMin, Zenon
<1>2. \A a, b \in Nat : a < b => <<a, b>> \in OpToRel(<, Nat)
  BY DEF OpToRel
<1>3. \A m \in PageSizes : n <= m
  <2>1. \A m \in PageSizes : m \in Nat
    BY TableAssumption
  <2>2. \A m \in PageSizes : ~(m < n)
    BY <1>1, <1>2, <2>1, Zenon
  <2> QED BY <2>1, <2>2, SMT
<1>4. Min(PageSizes) \in PageSizes
  BY <1>3 DEF Min
<1>5. pageSize \in PageSizes /\ pageSize \in Nat \ {0}
  BY <1>4, TableAssumption DEF TableInit
<1>6. allCollections \in Lists /\ Len(allCollections) = 0
  <2>1. Cardinality(Ids) \in Nat
    BY TableAssumption, FS_CardinalityType
  <2>2. allCollections \in [1 .. 0 -> Item] /\ InOrderOfId(allCollections)
    BY DEF TableInit, InOrderOfId
  <2>3. 0 \in 0 .. Cardinality(Ids)
    BY <2>1
  <2>4. Len(allCollections) = 0
    BY DEF TableInit
  <2> QED BY <2>2, <2>3, <2>4 DEF Lists
<1>7. matching \in Seq(Item) /\ Len(matching) = 0
  BY <1>6, MatchesInOrder
<1> HIDE DEF matching
<1>8. TotalPages(0, pageSize) = 1
  BY <1>5, PagesCoverTheList
<1>9. matching = <<>>
  BY <1>7
<1>10. rendered = View(<<>>, pageSize, 1)
  <2>1. VisiblePages(1, 1) = {1}
    <3>1. Max({1, 1 - Neighbours}) = 1
      BY TableAssumption, LargerOf
    <3>2. Min({1, 1 + 2 * Neighbours}) = 1
      BY TableAssumption, SmallerOf
    <3>3. Max({1, 1 - 2 * Neighbours}) = 1
      BY TableAssumption, LargerOf
    <3>4. VisiblePages(1, 1) = 1 .. 1
      BY <3>1, <3>2, <3>3, Zenon DEF VisiblePages
    <3> QED BY <3>4
  <2>2. (1 - 1) * pageSize = 0
    BY <1>5
  <2>3. SubSeq(<<>>, 0 + 1, Min({0 + pageSize, 0})) = <<>>
    <3>1. Min({0 + pageSize, 0}) = 0
      BY <1>5, SmallerOf
    <3> QED BY <3>1
  <2>4. rendered = NothingRendered
    BY DEF TableInit
  <2>5. Len(<<>>) = 0
    OBVIOUS
  <2> QED BY <1>8, <2>1, <2>2, <2>3, <2>4, <2>5 DEF View, NothingRendered
<1> QED BY <1>5, <1>6, <1>7, <1>8, <1>9, <1>10 DEF TableInit, TableInv, matching

(* renderCollectionPage clamps the page that is wanted to those there are.     *)
LEMMA RenderClamps ==
  ASSUME NEW list \in Lists, NEW filters, NEW size \in Nat \ {0}, NEW wanted \in Int,
         Render(list, filters, size, wanted)
  PROVE  LET matching == Matching(list, filters)
             pages    == TotalPages(Len(matching), size)
         IN  /\ currentPage' \in 1 .. pages
             /\ rendered' = View(matching, size, currentPage')
             /\ wanted \in 1 .. pages => currentPage' = wanted
             /\ wanted > pages => currentPage' = pages
<1> DEFINE matching == Matching(list, filters)
           total    == Len(matching)
           pages    == TotalPages(total, size)
<1>1. total \in Nat
  BY MatchesInOrder
<1>2. pages \in Nat \ {0}
  BY <1>1, PagesCoverTheList
<1>3. currentPage' = Clamped(wanted, pages) /\ rendered' = View(matching, size, currentPage')
  BY DEF Render
<1> HIDE DEF matching, total, pages
<1>4. Clamped(wanted, pages) =
        IF wanted < 1 THEN 1 ELSE IF wanted <= pages THEN wanted ELSE pages
  <2>1. Min({wanted, pages}) = IF wanted <= pages THEN wanted ELSE pages
    BY <1>2, SmallerOf
  <2>2. Min({wanted, pages}) \in Int
    BY <1>2, <2>1
  <2>3. Clamped(wanted, pages) =
          IF 1 >= Min({wanted, pages}) THEN 1 ELSE Min({wanted, pages})
    BY <2>2, LargerOf DEF Clamped
  <2> QED BY <1>2, <2>1, <2>3
<1>5. /\ currentPage' \in 1 .. pages
      /\ wanted \in 1 .. pages => currentPage' = wanted
      /\ wanted > pages => currentPage' = pages
  BY <1>2, <1>3, <1>4
<1> QED BY <1>3, <1>5 DEF matching, total, pages

LEMMA GoToKeepsTable ==
  ASSUME TableInv, NEW page \in Int, GoTo(page)
  PROVE  TableInv' /\ allCollections' = allCollections
<1>1. pageSize \in Nat \ {0} /\ allCollections \in Lists
  BY TableAssumption DEF TableInv
<1>2. /\ Render(allCollections, activeFilters, pageSize, page)
      /\ UNCHANGED <<allCollections, activeFilters, pageSize>>
  BY DEF GoTo
<1> QED BY <1>1, <1>2, RenderClamps DEF TableInv

(* A refresh shows the page that was shown, or the last one there is.          *)
LEMMA ShowListKeepsTable ==
  ASSUME TableInv, NEW list \in Lists, ShowList(list)
  PROVE  /\ TableInv'
         /\ \/ currentPage' = currentPage
            \/ /\ currentPage' < currentPage
               /\ rendered'.atLast
               /\ Len(Matching(allCollections', activeFilters))
                    <= (currentPage - 1) * pageSize
<1> DEFINE matching == Matching(list, activeFilters)
           total    == Len(matching)
           pages    == TotalPages(total, pageSize)
<1>1. /\ allCollections' = list /\ activeFilters' = activeFilters /\ pageSize' = pageSize
      /\ Render(list, activeFilters, pageSize, currentPage)
  BY DEF ShowList, SamePage
<1>2. pageSize \in Nat \ {0} /\ pageSize \in PageSizes /\ total \in Nat
  BY TableAssumption, MatchesInOrder DEF TableInv
<1>3. currentPage \in Nat \ {0}
  <2>1. Len(Matching(allCollections, activeFilters)) \in Nat
    BY MatchesInOrder DEF TableInv
  <2>2. TotalPages(Len(Matching(allCollections, activeFilters)), pageSize) \in Nat
    BY <1>2, <2>1, PagesCoverTheList
  <2> QED BY <2>2 DEF TableInv
<1>4. /\ currentPage' \in 1 .. pages
      /\ rendered' = View(matching, pageSize, currentPage')
      /\ currentPage \in 1 .. pages => currentPage' = currentPage
      /\ currentPage > pages => currentPage' = pages
  BY <1>1, <1>2, <1>3, RenderClamps
<1>5. TableInv'
  BY <1>1, <1>2, <1>4 DEF TableInv
<1>6. pages \in Nat \ {0} /\ total <= pages * pageSize
  BY <1>2, PagesCoverTheList
<1>7. rendered'.atLast = (currentPage' = pages)
  BY <1>4 DEF View
<1>8. Len(Matching(allCollections', activeFilters)) = total
  BY <1>1
<1> HIDE DEF matching, total, pages
<1>9. CASE currentPage <= pages
  BY <1>3, <1>4, <1>5, <1>6, <1>9
<1>10. CASE currentPage > pages
  <2>1. (currentPage - 1 - pages) * pageSize \in Nat
    BY <1>2, <1>3, <1>6, <1>10
  <2>2. (currentPage - 1 - pages) * pageSize
          = (currentPage - 1) * pageSize - pages * pageSize
    BY <1>2, <1>3, <1>6
  <2>3. pages * pageSize \in Int /\ (currentPage - 1) * pageSize \in Int
    BY <1>2, <1>3, <1>6
  <2>4. total <= (currentPage - 1) * pageSize
    BY <1>2, <1>6, <2>1, <2>2, <2>3
  <2>5. currentPage' = pages /\ currentPage' < currentPage
    BY <1>3, <1>4, <1>6, <1>10
  <2>6. rendered'.atLast
    BY <1>7, <2>5, Zenon
  <2> QED BY <1>5, <1>8, <2>4, <2>5, <2>6
<1> QED BY <1>3, <1>6, <1>9, <1>10

LEMMA TableStep ==
  ASSUME TableInv, [TableNext]_tableVars
  PROVE  /\ TableInv'
         /\ allCollections' # allCollections =>
              \/ currentPage' = currentPage
              \/ /\ currentPage' < currentPage
                 /\ rendered'.atLast
                 /\ Len(Matching(allCollections', activeFilters))
                      <= (currentPage - 1) * pageSize
<1>1. /\ pageSize \in Nat \ {0} /\ allCollections \in Lists
      /\ Len(allCollections) \in Nat /\ activeFilters \subseteq Filters
  BY TableAssumption, MatchesInOrder DEF TableInv
<1>2. ASSUME NEW state \in Filters, ToggleFilter(state)
      PROVE  TableInv' /\ allCollections' = allCollections
  <2>1. /\ activeFilters' \subseteq Filters
        /\ Render(allCollections, activeFilters', pageSize, 1)
        /\ allCollections' = allCollections /\ pageSize' = pageSize
    BY <1>1, <1>2 DEF ToggleFilter, SymDiff
  <2> QED BY <1>1, <2>1, RenderClamps DEF TableInv
<1>3. ASSUME NEW size \in PageSizes, ChangePageSize(size)
      PROVE  TableInv' /\ allCollections' = allCollections
  <2>1. size \in Nat \ {0}
    BY TableAssumption
  <2> QED BY <1>1, <1>3, <2>1, RenderClamps DEF ChangePageSize, TableInv
<1>4. ASSUME NEW page \in rendered.buttons, ClickPage(page)
      PROVE  TableInv' /\ allCollections' = allCollections
  <2>1. rendered.buttons \subseteq Int
    BY DEF TableInv, View, VisiblePages
  <2> QED BY <1>4, <2>1, GoToKeepsTable DEF ClickPage
<1>5. CASE ClickFirst \/ ClickPrevious \/ ClickNext
  <2>1. currentPage \in Int
    BY DEF TableInv
  <2> QED BY <1>5, <2>1, GoToKeepsTable DEF ClickFirst, ClickPrevious, ClickNext
<1>6. CASE ClickLast
  <2>1. TotalPages(Len(allCollections), pageSize) \in Int
    BY <1>1, PagesCoverTheList
  <2> QED BY <1>6, <2>1, GoToKeepsTable DEF ClickLast
<1>7. CASE \E list \in Lists : ShowList(list)
  BY <1>7, ShowListKeepsTable
<1>8. CASE UNCHANGED tableVars
  BY <1>8 DEF tableVars, TableInv
<1> QED BY <1>2, <1>3, <1>4, <1>5, <1>6, <1>7, <1>8 DEF TableNext

LEMMA TableInvIsInvariant == TableSpec => []TableInv
BY TableInitially, TableStep, PTL DEF TableSpec

(* A refresh leaves the page that is shown where it is, unless what matches    *)
(* ends before that page; then it shows the last one (app.js:114, 199-200).    *)
THEOREM PageStaysAtARefresh == TableSpec => RefreshKeepsThePage
<1>1. TableInv /\ [TableNext]_tableVars =>
        [allCollections' # allCollections =>
           \/ currentPage' = currentPage
           \/ /\ currentPage' < currentPage
              /\ rendered'.atLast
              /\ Len(Matching(allCollections', activeFilters))
                   <= (currentPage - 1) * pageSize]_tableVars
  BY TableStep
<1> QED BY <1>1, TableInvIsInvariant, PTL DEF TableSpec, RefreshKeepsThePage

(* The current page is one of its buttons, and they lead to pages there are    *)
(* (app.js:138-140).                                                           *)
LEMMA ButtonsLeadToPages ==
  ASSUME NEW pages \in Nat \ {0}, NEW page \in 1 .. pages
  PROVE  page \in VisiblePages(page, pages) /\ VisiblePages(page, pages) \subseteq 1 .. pages
<1> DEFINE first == Max({1, page - Neighbours})
           last  == Min({pages, first + 2 * Neighbours})
           left  == Max({1, last - 2 * Neighbours})
<1>1. Neighbours \in Nat
  BY TableAssumption
<1>2. first = IF 1 >= page - Neighbours THEN 1 ELSE page - Neighbours
  BY <1>1, LargerOf
<1>3. first + 2 * Neighbours \in Nat \ {0} /\ first \in Nat \ {0}
  <2> HIDE DEF first
  <2> QED BY <1>1, <1>2
<1>4. last = IF pages <= first + 2 * Neighbours THEN pages ELSE first + 2 * Neighbours
  <2> HIDE DEF first
  <2> QED BY <1>3, SmallerOf
<1>5. last - 2 * Neighbours \in Int /\ last \in Nat \ {0}
  <2> HIDE DEF first, last
  <2> QED BY <1>1, <1>3, <1>4
<1>6. left = IF 1 >= last - 2 * Neighbours THEN 1 ELSE last - 2 * Neighbours
  <2> HIDE DEF first, last
  <2> QED BY <1>5, LargerOf
<1>7. VisiblePages(page, pages) = left .. last
  BY DEF VisiblePages
<1> HIDE DEF first, last, left
<1>8. 1 <= left /\ left <= page /\ page <= last /\ last <= pages
  BY <1>1, <1>2, <1>3, <1>4, <1>5, <1>6
<1> QED BY <1>5, <1>6, <1>7, <1>8

(* The page that is shown lies within the matches: it begins with one of them  *)
(* and ends at the last one only if there is no further page (app.js:115-116). *)
LEMMA PageWithinTheMatches ==
  ASSUME NEW total \in Nat \ {0}, NEW size \in Nat \ {0},
         NEW page \in 1 .. TotalPages(total, size)
  PROVE  LET start == (page - 1) * size
             end   == Min({start + size, total})
         IN  /\ start \in Nat /\ end \in Nat /\ start < end /\ end <= total
             /\ page = 1 <=> start = 0
             /\ page = TotalPages(total, size) <=> end = total
<1> DEFINE start == (page - 1) * size
           end   == Min({start + size, total})
           pages == TotalPages(total, size)
<1>1. pages \in Nat \ {0} /\ total <= pages * size /\ (pages - 1) * size < total
  BY PagesCoverTheList
<1> HIDE DEF pages
<1>2. page \in 1 .. pages
  BY DEF pages
<1>3. start \in Nat
  BY <1>1, <1>2
<1>4. end = IF start + size <= total THEN start + size ELSE total
  BY <1>3, SmallerOf
<1>5. page = 1 <=> start = 0
  <2>1. ASSUME page # 1 PROVE start # 0
    <3>1. (page - 2) * size \in Nat /\ (page - 2) * size = start - size
      BY <1>1, <1>2, <2>1
    <3> QED BY <1>3, <3>1
  <2> QED BY <2>1
<1>6. ASSUME page # pages PROVE start + size < total
  <2>1. (pages - 1 - page) * size \in Nat
    BY <1>1, <1>2, <1>6
  <2>2. /\ (pages - 1 - page) * size = (pages - 1) * size - page * size
        /\ start + size = page * size
        /\ (pages - 1) * size \in Int /\ page * size \in Int
    BY <1>1, <1>2
  <2> QED BY <1>1, <2>1, <2>2
<1>7. ASSUME page = pages PROVE start < total /\ start + size >= total
  <2>1. start + size = pages * size
    BY <1>1, <1>7
  <2>2. start = (pages - 1) * size
    BY <1>7
  <2> QED BY <1>1, <1>3, <2>1, <2>2
<1> HIDE DEF start, end
<1>8. start < end /\ end <= total /\ end \in Nat
  BY <1>3, <1>4, <1>6, <1>7
<1>9. page = pages <=> end = total
  BY <1>3, <1>4, <1>6, <1>7
<1> QED BY <1>3, <1>5, <1>8, <1>9 DEF start, end, pages

(* The rows are those matches, and tell by their ids which ones they are.      *)
LEMMA RowsOfThePage ==
  ASSUME TableInv, Matching(allCollections, activeFilters) # <<>>
  PROVE  LET m     == Matching(allCollections, activeFilters)
             start == (currentPage - 1) * pageSize
             end   == Min({start + pageSize, Len(m)})
         IN  /\ start \in Nat /\ end \in Nat /\ start < end /\ end <= Len(m)
             /\ Len(rendered.rows) = end - start
             /\ \A i \in 1 .. end - start : rendered.rows[i] = m[start + i]
             /\ DOMAIN rendered.rows = 1 .. end - start
             /\ rendered.rows \in Seq(Item)
             /\ rendered.atFirst <=> start = 0
             /\ rendered.atLast <=> end = Len(m)
             /\ ~rendered.hidden
<1> DEFINE m     == Matching(allCollections, activeFilters)
           start == (currentPage - 1) * pageSize
           end   == Min({start + pageSize, Len(m)})
<1>1. m \in Seq(Item) /\ DOMAIN m = 1 .. Len(m)
  BY MatchesInOrder DEF TableInv
<1>2. Len(m) \in Nat \ {0}
  <2> HIDE DEF m
  <2> QED BY <1>1 DEF m
<1>3. pageSize \in Nat \ {0} /\ currentPage \in 1 .. TotalPages(Len(m), pageSize)
  BY TableAssumption DEF TableInv
<1>4. /\ start \in Nat /\ end \in Nat /\ start < end /\ end <= Len(m)
      /\ currentPage = 1 <=> start = 0
      /\ currentPage = TotalPages(Len(m), pageSize) <=> end = Len(m)
  BY <1>2, <1>3, PageWithinTheMatches
<1>5. /\ rendered.rows = SubSeq(m, start + 1, end)
      /\ rendered.hidden = (Len(m) = 0)
      /\ rendered.atFirst = (currentPage = 1)
      /\ rendered.atLast = (currentPage = TotalPages(Len(m), pageSize))
  BY DEF TableInv, View
<1> HIDE DEF m, start, end
<1>6. /\ Len(rendered.rows) = end - start
      /\ DOMAIN rendered.rows = 1 .. end - start
      /\ \A i \in 1 .. end - start : rendered.rows[i] = m[start + i]
  <2>1. start + 1 \in Int /\ end - (start + 1) + 1 = end - start
    BY <1>4
  <2> QED BY <1>1, <1>4, <1>5, <2>1
<1>7. rendered.rows \in Seq(Item)
  <2>1. \A i \in 1 .. Len(m) : m[i] \in Item
    BY <1>1
  <2>2. \A i \in start + 1 .. end : i \in 1 .. Len(m)
    BY <1>2, <1>4
  <2>3. \A i \in start + 1 .. end : m[i] \in Item
    BY <2>1, <2>2
  <2>4. start + 1 \in Int /\ end \in Int
    BY <1>4
  <2> QED BY <1>5, <2>3, <2>4, SubSeqProperties
<1>8. ~rendered.hidden
  BY <1>2, <1>5
<1> QED BY <1>4, <1>5, <1>6, <1>7, <1>8 DEF m, start, end

LEMMA TableInvMeansAgreement == TableInv => RowsAndButtonsAgree
<1> SUFFICES ASSUME TableInv, Matching(allCollections, activeFilters) # <<>>
             PROVE  LET rows == rendered.rows
                        m    == Matching(allCollections, activeFilters)
                    IN  /\ rows # <<>> /\ Range(rows) \subseteq Range(m)
                        /\ ~rendered.hidden
                        /\ rendered.atFirst <=> Head(m) = Head(rows)
                        /\ rendered.atLast <=> Last(m) = Last(rows)
                        /\ currentPage \in rendered.buttons
  BY DEF RowsAndButtonsAgree, Matches
<1> DEFINE rows  == rendered.rows
           m     == Matching(allCollections, activeFilters)
           start == (currentPage - 1) * pageSize
           end   == Min({start + pageSize, Len(m)})
<1>1. /\ m \in Seq(Item) /\ DOMAIN m = 1 .. Len(m) /\ Len(m) \in Nat
      /\ \A p, q \in DOMAIN m : p < q => m[p].id < m[q].id
  BY MatchesInOrder DEF TableInv
<1>2. /\ start \in Nat /\ end \in Nat /\ start < end /\ end <= Len(m)
      /\ Len(rows) = end - start /\ DOMAIN rows = 1 .. end - start
      /\ \A i \in 1 .. end - start : rows[i] = m[start + i]
      /\ rows \in Seq(Item)
  BY RowsOfThePage
<1>9. /\ rendered.atFirst <=> start = 0
      /\ rendered.atLast <=> end = Len(m)
      /\ ~rendered.hidden
  BY RowsOfThePage
<1>3. currentPage \in rendered.buttons
  <2>1. pageSize \in Nat \ {0} /\ currentPage \in 1 .. TotalPages(Len(m), pageSize)
    BY TableAssumption DEF TableInv
  <2>2. TotalPages(Len(m), pageSize) \in Nat \ {0}
    BY <1>1, <2>1, PagesCoverTheList
  <2>3. rendered.buttons = VisiblePages(currentPage, TotalPages(Len(m), pageSize))
    BY DEF TableInv, View
  <2> QED BY <2>1, <2>2, <2>3, ButtonsLeadToPages
<1> HIDE DEF rows, m, start, end
<1>4. \A p, q \in 1 .. Len(m) : m[p] = m[q] => p = q
  <2> SUFFICES ASSUME NEW p \in 1 .. Len(m), NEW q \in 1 .. Len(m), m[p] = m[q], p # q
               PROVE  FALSE
    OBVIOUS
  <2>1. m[p] \in Item /\ m[p].id \in Int
    <3>1. m[p] \in Item
      BY <1>1
    <3>2. Ids \subseteq Int
      BY TableAssumption
    <3> QED BY <3>1, <3>2 DEF Item
  <2>2. m[p].id < m[q].id \/ m[q].id < m[p].id
    BY <1>1
  <2> QED BY <2>1, <2>2
<1>5. /\ Head(rows) = m[start + 1] /\ Last(rows) = m[end]
      /\ Head(m) = m[1] /\ Last(m) = m[Len(m)]
  <2>1. 1 \in 1 .. end - start /\ end - start \in 1 .. end - start
    BY <1>2
  <2>2. Head(rows) = rows[1] /\ Head(m) = m[1]
    OBVIOUS
  <2>3. start + (end - start) = end
    BY <1>2
  <2> QED BY <1>2, <2>1, <2>2, <2>3 DEF Last
<1>6. rows # <<>> /\ Range(rows) \subseteq Range(m)
  <2>1. \A i \in 1 .. end - start : start + i \in 1 .. Len(m)
    BY <1>1, <1>2
  <2>2. Range(rows) \subseteq Range(m)
    BY <1>1, <1>2, <2>1 DEF Range
  <2>3. Len(rows) # 0
    BY <1>2
  <2> QED BY <2>2, <2>3
<1>7. rendered.atFirst <=> Head(m) = Head(rows)
  <2>1. 1 \in 1 .. Len(m) /\ start + 1 \in 1 .. Len(m)
    BY <1>1, <1>2
  <2>2. m[1] = m[start + 1] <=> 1 = start + 1
    BY <1>4, <2>1
  <2>3. 1 = start + 1 <=> start = 0
    BY <1>2
  <2> QED BY <1>5, <1>9, <2>2, <2>3, Zenon
<1>8. rendered.atLast <=> Last(m) = Last(rows)
  <2>1. Len(m) \in 1 .. Len(m) /\ end \in 1 .. Len(m)
    BY <1>1, <1>2
  <2>2. m[Len(m)] = m[end] <=> end = Len(m)
    BY <1>4, <2>1
  <2> QED BY <1>5, <1>9, <2>2, Zenon
<1> QED BY <1>3, <1>6, <1>7, <1>8, <1>9 DEF rows, m

(* The current page and its buttons lie within the pages that the list can     *)
(* fill, and the rows are items of it (app.js:112-114, 138-140).               *)
THEOREM TableTypes == TableSpec => []TableTypeOK
<1> DEFINE m     == Matching(allCollections, activeFilters)
           pages == TotalPages(Len(m), pageSize)
           most  == Max({1, Len(allCollections)})
<1>1. ASSUME TableInv PROVE TableTypeOK
  <2>1. /\ pageSize \in Nat \ {0} /\ Len(allCollections) \in Nat
        /\ Len(m) \in 0 .. Len(allCollections)
    BY <1>1, TableAssumption, MatchesInOrder DEF TableInv
  <2>2. /\ pages \in Nat \ {0}
        /\ Len(m) = 0 => pages = 1
        /\ Len(m) # 0 => pages <= Len(m)
    BY <2>1, PagesCoverTheList
  <2>3. most = IF 1 >= Len(allCollections) THEN 1 ELSE Len(allCollections)
    BY <2>1, LargerOf
  <2>4. currentPage \in 1 .. pages /\ rendered.buttons = VisiblePages(currentPage, pages)
    BY <1>1 DEF TableInv, View
  <2>5. rendered.buttons \subseteq 1 .. pages
    BY <2>2, <2>4, ButtonsLeadToPages
  <2>6. Range(rendered.rows) \subseteq Item
    <3>1. CASE m # <<>>
      <4>1. rendered.rows \in Seq(Item)
        BY <1>1, <3>1, RowsOfThePage
      <4> QED BY <4>1 DEF Range
    <3>2. CASE m = <<>>
      <4>1. Len(m) = 0 /\ pages = 1 /\ (currentPage - 1) * pageSize = 0
        BY <2>1, <2>2, <2>4, <3>2
      <4>2. Min({0 + pageSize, 0}) = 0
        BY <2>1, SmallerOf
      <4>3. rendered.rows = SubSeq(m, 0 + 1, Min({0 + pageSize, 0}))
        BY <1>1, <4>1 DEF TableInv, View
      <4>4. rendered.rows = <<>>
        BY <4>2, <4>3, SubSeqEmpty
      <4> QED BY <4>4 DEF Range
    <3> QED BY <3>1, <3>2
  <2> HIDE DEF m, pages, most
  <2>7. pages <= most /\ most \in Nat
    BY <2>1, <2>2, <2>3
  <2>8. currentPage \in 1 .. most /\ rendered.buttons \subseteq 1 .. most
    BY <2>2, <2>4, <2>5, <2>7
  <2> QED BY <1>1, <2>6, <2>8 DEF TableTypeOK, TableInv, most
<1> QED BY <1>1, TableInvIsInvariant, PTL

(* However refreshes, filters, sizes and clicks follow each other, the page is *)
(* never empty while something matches, and the buttons say truly where its    *)
(* rows are among the matches (app.js:112-142).                                *)
THEOREM RowsAndButtonsAgreeAlways == TableSpec => []RowsAndButtonsAgree
BY TableInvMeansAgreement, TableInvIsInvariant, PTL

===============================================================================
