------------------------------ MODULE TrendPanels ------------------------------
(***************************************************************************)
(* The trend panels of the page (internal/dashboard/assets/app.js,         *)
(* 262-551): the catalogue of the metrics, fetched once; the category and  *)
(* the range the user chooses; a panel per metric of the category, each    *)
(* with a request of its own; the charts drawn into them; the dictionary.  *)
(* A handler runs to its end before the next; what an abort finds under    *)
(* way never reaches its .then.  Formats, legends and tooltips are left    *)
(* out: an answer has points to draw, has none, or is an error.            *)
(***************************************************************************)
EXTENDS Integers

CONSTANTS
  Metrics,        \* the ids of the catalogue
  CategoryOf,     \* the category of each
  FirstCategory,  \* activeCategory of a page just loaded
  Ranges,
  FirstRange,     \* activeRange of a page just loaded
  Keywords,       \* what can be typed into the search: the metrics it matches
  MaxLoads        \* bound: how often loadCategory runs

Dictionary == "dictionary"
Categories == {CategoryOf[m] : m \in Metrics} \cup {Dictionary}

ASSUME SelectionAssumption ==
  /\ FirstCategory \in Categories \ {Dictionary}
  /\ FirstRange \in Ranges
  /\ Metrics \in Keywords /\ Keywords \subseteq SUBSET Metrics
ASSUME MaxLoadsAssumption == MaxLoads \in Nat

VARIABLES
  catalog,        \* the request for the catalogue: "asked", "arrived", "failed"
  metricCatalog,
  activeCategory,
  activeRange,
  keyword,        \* metricUI.search, as the metrics it matches
  loads,          \* how often loadCategory has run; it names the panels
  requests,       \* external: the series requests whose answer is waited for
  grid,           \* metricUI.grid: its panels
  charts,         \* the map of the charts
  dictionaryBody  \* the metrics in the rows of the dictionary

vars == <<catalog, metricCatalog, activeCategory, activeRange, keyword, loads,
          requests, grid, charts, dictionaryBody>>

Request == [metric : Metrics, range : Ranges, load : 1 .. MaxLoads]
Panel   == [load : 1 .. MaxLoads, range : Ranges,
            shows : {"loading", "chart", "text", "failure"}]
Chart   == [load : 1 .. MaxLoads, alive : BOOLEAN]

Nothing == [m \in {} |-> m]

Put(f, m, x) == [k \in DOMAIN f \cup {m} |-> IF k = m THEN x ELSE f[k]]

(* Type invariant: panels, charts and requests are those of metrics that the *)
(* catalogue has (app.js:274-278, 493-497).                                  *)
TypeOK ==
  /\ catalog \in {"asked", "arrived", "failed"}
  /\ metricCatalog \in {{}, Metrics}
  /\ activeCategory \in Categories /\ activeRange \in Ranges
  /\ keyword \in Keywords
  /\ loads \in 0 .. MaxLoads
  /\ requests \subseteq Request
  /\ DOMAIN grid \subseteq metricCatalog /\ grid \in [DOMAIN grid -> Panel]
  /\ DOMAIN charts \subseteq metricCatalog /\ charts \in [DOMAIN charts -> Chart]
  /\ dictionaryBody \subseteq metricCatalog

Init ==
  /\ catalog = "asked" /\ metricCatalog = {}
  /\ activeCategory = FirstCategory /\ activeRange = FirstRange
  /\ keyword = Metrics
  /\ loads = 0 /\ requests = {} /\ grid = Nothing /\ charts = Nothing
  /\ dictionaryBody = {}

-------------------------------------------------------------------------------
Shown(category) == {m \in metricCatalog' : CategoryOf[m] = category}

(* Mutant: the requests of the panels that are left go on. *)
AbortNothing == requests

(* metricRequest?.abort(): what is left of the requests. *)
Abort == {}

(* Mutant: the range that was active before. *)
OldRange == activeRange

(* What the requests of a load ask for. *)
RangeAsked == activeRange'

(* Lines 485-505, with the selection and the catalogue as they now are.  The *)
(* dictionary hides the grid and leaves its panels in it.                    *)
LoadCategory ==
  /\ loads < MaxLoads
  /\ loads' = loads + 1
  /\ charts' = Nothing
  /\ IF activeCategory' = Dictionary
       THEN /\ requests' = Abort
            /\ dictionaryBody' = metricCatalog' \cap keyword
            /\ UNCHANGED grid
       ELSE /\ requests' = Abort \cup
                 [metric : Shown(activeCategory'), range : {RangeAsked}, load : {loads'}]
            /\ grid' = [m \in Shown(activeCategory') |->
                 [load |-> loads', range |-> RangeAsked, shows |-> "loading"]]
            /\ UNCHANGED dictionaryBody

(* Lines 520-529.  The catalogue lists every metric, supported or not, with *)
(* the configured range, which becomes the active one (service.go:106-134).  *)
CatalogArrives(range) ==
  /\ catalog = "asked"
  /\ catalog' = "arrived"
  /\ metricCatalog' = Metrics
  /\ activeRange' = range
  /\ UNCHANGED <<activeCategory, keyword>>
  /\ LoadCategory

(* Lines 530-533, with an error of the server (handler.go:74-83) or of the *)
(* network; it is not asked for again.                                     *)
CatalogFails ==
  /\ catalog = "asked"
  /\ catalog' = "failed"
  /\ UNCHANGED <<metricCatalog, activeCategory, activeRange, keyword, loads, requests,
                 grid, charts, dictionaryBody>>

(* Lines 536-541: also the category that is active. *)
ChooseCategory(category) ==
  /\ activeCategory' = category
  /\ UNCHANGED <<catalog, metricCatalog, activeRange, keyword>>
  /\ LoadCategory

(* Lines 542-547. *)
ChooseRange(range) ==
  /\ range # activeRange
  /\ activeRange' = range
  /\ UNCHANGED <<catalog, metricCatalog, activeCategory, keyword>>
  /\ LoadCategory

(* Line 548; the search is part of the dictionary. *)
Search(word) ==
  /\ activeCategory = Dictionary
  /\ keyword' = word
  /\ dictionaryBody' = metricCatalog \cap word
  /\ UNCHANGED <<catalog, metricCatalog, activeCategory, activeRange, loads, requests,
                 grid, charts>>

InGrid(r) == r.metric \in DOMAIN grid /\ grid[r.metric].load = r.load

(* What replaces, or is written into, the panel of a request; a panel that is *)
(* no longer in the grid is not seen.                                         *)
Fill(r, content) ==
  grid' = IF InGrid(r)
            THEN [grid EXCEPT ![r.metric] =
                    [load |-> r.load, range |-> r.range, shows |-> content]]
            ELSE grid

(* drawChart: without points, an old chart of this metric is destroyed and *)
(* stays in the map.                                                       *)
DrawChart(r, points) ==
  charts' = CASE points -> Put(charts, r.metric, [load |-> r.load, alive |-> TRUE])
              [] ~points /\ r.metric \in DOMAIN charts ->
                   [charts EXCEPT ![r.metric].alive = FALSE]
              [] OTHER -> charts

(* Lines 498-502. *)
SeriesArrives(r) ==
  /\ r \in requests
  /\ requests' = requests \ {r}
  /\ \E points \in BOOLEAN :
       Fill(r, IF points THEN "chart" ELSE "text") /\ DrawChart(r, points)
  /\ UNCHANGED <<catalog, metricCatalog, activeCategory, activeRange, keyword, loads,
                 dictionaryBody>>

(* Mutant: every error is taken for an abort. *)
Silence == "loading"

Failure == "failure"

(* Lines 499 and 503: an error of the server (handler.go:107-119), of the *)
(* network, or a body that is not JSON.                                    *)
SeriesFails(r) ==
  /\ r \in requests
  /\ requests' = requests \ {r}
  /\ Fill(r, Failure)
  /\ UNCHANGED <<catalog, metricCatalog, activeCategory, activeRange, keyword, loads,
                 charts, dictionaryBody>>

Settle(r) == SeriesArrives(r) \/ SeriesFails(r)

Next ==
  \/ \E range \in Ranges : CatalogArrives(range) \/ ChooseRange(range)
  \/ CatalogFails
  \/ \E category \in Categories : ChooseCategory(category)
  \/ \E word \in Keywords : Search(word)
  \/ \E r \in requests : Settle(r)

Spec == Init /\ [][Next]_vars

(* The server answers a series request, at its query timeout at the latest, *)
(* or the connection fails; nothing is assumed of the user.                 *)
FairSpec == Spec /\ \A m \in Metrics : WF_vars(\E r \in requests : r.metric = m /\ Settle(r))

-------------------------------------------------------------------------------
OnDisplay == IF activeCategory = Dictionary THEN {} ELSE DOMAIN grid

(* What is on display is what is selected: the panels are those of the active  *)
(* category and show, or wait for, the active range, and the dictionary has    *)
(* the rows that match, whichever order the catalogue, the clicks and the      *)
(* answers come in (app.js:485-505, 523-529, 536-548).                         *)
PanelsMatchTheSelection ==
  IF activeCategory = Dictionary
    THEN dictionaryBody = metricCatalog \cap keyword
    ELSE /\ DOMAIN grid = {m \in metricCatalog : CategoryOf[m] = activeCategory}
         /\ \A m \in DOMAIN grid : grid[m].range = activeRange

(* "Browser requests are cancelled when the user switches range before the     *)
(* previous response completes" (prometheus-metrics-dashboard-design.md): each *)
(* panel that shows a chart owns the chart of its metric, alive, and there are *)
(* no others.  An answer to a panel that was left would destroy the chart of   *)
(* the one that took its place (app.js:377-378, 486-488, 497).                 *)
ChartsAreThoseOfTheGrid ==
  charts = [m \in {k \in OnDisplay : grid[k].shows = "chart"} |->
              [load |-> grid[m].load, alive |-> TRUE]]

Waits(m) == m \in OnDisplay /\ grid[m].shows = "loading"

(* A panel does not say "loading" for ever: its request is answered, fails     *)
(* with a message, or the panel is left (app.js:498-503).                      *)
EveryPanelSettles == \A m \in Metrics : Waits(m) ~> ~Waits(m)

===============================================================================
