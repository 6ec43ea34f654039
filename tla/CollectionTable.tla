---------------------------- MODULE CollectionTable ----------------------------
(***************************************************************************)
(* The collection table of the page (internal/dashboard/assets/app.js,     *)
(* lines 110-151 and 226-251): the state filters, the page size, the page  *)
(* buttons, and the refreshes that replace the list under them.  Every     *)
(* event runs to its end, renderCollectionPage included, before the next;  *)
(* a disabled or hidden button cannot be clicked.                          *)
(***************************************************************************)
EXTENDS Integers, FiniteSets, SequencesExt, FiniteSetsExt

CONSTANTS
  Ids,           \* the collections, in the order of the status report
  ListedStates,  \* the load states they are in
  Filters,       \* the states that have a filter card
  PageSizes,     \* the options of the page size control
  Neighbours     \* page buttons on each side of the current page; 2 in the code

ASSUME TableAssumption ==
  /\ Ids \subseteq Nat /\ IsFiniteSet(Ids)
  /\ PageSizes \subseteq Nat \ {0} /\ PageSizes # {}
  /\ Neighbours \in Nat

VARIABLES
  allCollections,  \* the list of the latest status, as [id, state]
  activeFilters,
  pageSize,
  currentPage,
  rendered         \* what is on the page

tableVars == <<allCollections, activeFilters, pageSize, currentPage, rendered>>

Item == [id : Ids, state : ListedStates]

(* The lists of the reports: some of the collections, in order, in any states. *)
InOrderOfId(list) == \A i, j \in DOMAIN list : i < j => list[i].id < list[j].id

Lists ==
  UNION {{list \in [1 .. n -> Item] : InOrderOfId(list)} : n \in 0 .. Cardinality(Ids)}

(* Array.filter, of all of them without a filter: the j-th match is the one *)
(* with j matches up to it.                                                 *)
Kept(list, filters) ==
  {i \in DOMAIN list : filters = {} \/ list[i].state \in filters}

Place(kept, i) == Cardinality({k \in kept : k <= i})

Matching(list, filters) ==
  LET kept == Kept(list, filters)
  IN  [j \in 1 .. Cardinality(kept) |-> list[CHOOSE i \in kept : Place(kept, i) = j]]

(* Math.max(1, Math.ceil(total / size)) *)
TotalPages(total, size) == Max({1, (total + size - 1) \div size})

(* Mutant: the page is taken as it is. *)
Unclamped(page, pages) == Max({1, page})

Clamped(page, pages) == Max({1, Min({page, pages})})

(* Lines 138-140: a window of pages around the current one. *)
VisiblePages(page, pages) ==
  LET first == Max({1, page - Neighbours})
      last  == Min({pages, first + 2 * Neighbours})
  IN  Max({1, last - 2 * Neighbours}) .. last

(* What a page of the matches looks like.  With no match the page bar is hidden. *)
View(matching, size, page) ==
  LET total == Len(matching)
      pages == TotalPages(total, size)
      start == (page - 1) * size
  IN  [rows    |-> SubSeq(matching, start + 1, Min({start + size, total})),
       hidden  |-> total = 0,
       atFirst |-> page = 1,
       atLast  |-> page = pages,
       buttons |-> VisiblePages(page, pages)]

(* renderCollectionPage. *)
Render(list, filters, size, wanted) ==
  LET matching == Matching(list, filters)
  IN  /\ currentPage' = Clamped(wanted, TotalPages(Len(matching), size))
      /\ rendered' = View(matching, size, currentPage')

NothingRendered ==
  [rows |-> <<>>, hidden |-> TRUE, atFirst |-> TRUE, atLast |-> TRUE, buttons |-> {1}]

(* Type invariant: the current page and the buttons lie within the pages that *)
(* the list can fill (app.js:112-114, 138-140).                               *)
TableTypeOK ==
  /\ allCollections \in Lists
  /\ activeFilters \subseteq Filters
  /\ pageSize \in PageSizes
  /\ currentPage \in 1 .. Max({1, Len(allCollections)})
  /\ Range(rendered.rows) \subseteq Item
  /\ rendered.buttons \subseteq 1 .. Max({1, Len(allCollections)})

TableInit ==
  /\ allCollections = <<>>
  /\ activeFilters = {}
  /\ pageSize = Min(PageSizes)
  /\ currentPage = 1
  /\ rendered = NothingRendered

-------------------------------------------------------------------------------
(* Mutant: a refresh goes back to the first page. *)
FirstPage == 1

SamePage == currentPage

(* Lines 199-200, and 216-217 with an empty list. *)
ShowList(list) ==
  /\ allCollections' = list
  /\ Render(list, activeFilters, pageSize, SamePage)
  /\ UNCHANGED <<activeFilters, pageSize>>

(* Lines 227-234. *)
ToggleFilter(state) ==
  /\ activeFilters' = SymDiff(activeFilters, {state})
  /\ Render(allCollections, activeFilters', pageSize, 1)
  /\ UNCHANGED <<allCollections, pageSize>>

(* Lines 240-244. *)
ChangePageSize(size) ==
  /\ pageSize' = size
  /\ Render(allCollections, activeFilters, size, 1)
  /\ UNCHANGED <<allCollections, activeFilters>>

GoTo(page) ==
  /\ ~rendered.hidden
  /\ Render(allCollections, activeFilters, pageSize, page)
  /\ UNCHANGED <<allCollections, activeFilters, pageSize>>

ClickPage(page) == page \in rendered.buttons /\ GoTo(page)
ClickFirst      == ~rendered.atFirst /\ GoTo(1)
ClickPrevious   == ~rendered.atFirst /\ GoTo(currentPage - 1)
ClickNext       == ~rendered.atLast /\ GoTo(currentPage + 1)

(* Line 249: the last page is computed from all the collections. *)
ClickLast == ~rendered.atLast /\ GoTo(TotalPages(Len(allCollections), pageSize))

TableNext ==
  \/ \E list \in Lists : ShowList(list)
  \/ \E state \in Filters : ToggleFilter(state)
  \/ \E size \in PageSizes : ChangePageSize(size)
  \/ \E page \in rendered.buttons : ClickPage(page)
  \/ ClickFirst \/ ClickPrevious \/ ClickNext \/ ClickLast

TableSpec == TableInit /\ [][TableNext]_tableVars

-------------------------------------------------------------------------------
Matches == Range(Matching(allCollections, activeFilters))

(* As long as anything matches, rows are shown, the buttons tell truly whether *)
(* there are matches before and after them, and the current page is one of the *)
(* buttons: no sequence of refreshes, filters, sizes and clicks leads to an    *)
(* empty page or hides a match behind a disabled button (app.js:112-142).      *)
RowsAndButtonsAgree ==
  LET rows == rendered.rows
      m    == Matching(allCollections, activeFilters)
  IN  m # <<>> =>
        /\ rows # <<>> /\ Range(rows) \subseteq Matches /\ ~rendered.hidden
        /\ rendered.atFirst <=> Head(m) = Head(rows)
        /\ rendered.atLast <=> Last(m) = Last(rows)
        /\ currentPage \in rendered.buttons

(* "The page stays at a background refresh, and shrinks to the last valid one  *)
(* when there are fewer": the first row of the page does not jump, unless the  *)
(* list got too short (collection-pagination-design.md:25, app.js:114,         *)
(* 199-200).                                                                   *)
RefreshKeepsThePage ==
  [][allCollections' # allCollections =>
       \/ currentPage' = currentPage
       \/ /\ currentPage' < currentPage
          /\ rendered'.atLast
          /\ Len(Matching(allCollections', activeFilters))
               <= (currentPage - 1) * pageSize]_tableVars

===============================================================================
