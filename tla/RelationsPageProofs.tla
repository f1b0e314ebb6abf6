------------------------- MODULE RelationsPageProofs -------------------------
(***************************************************************************)
(* Proofs about RelationsPage, for every table, number of links and limits *)
(* of a page, and any number of requests, selections and others' changes.  *)
(***************************************************************************)
EXTENDS RelationsPage, TLAPS

-----------------------------------------------------------------------------
(* The rows below and their controls.                                      *)

\* What the controls change parts of.
IsParams(p) == DOMAIN p = {"offset", "limit", "sort", "filter"}

\* As long as no two requests met, there is one request under way or none.
OneSearch ==
    /\ IsParams(rowsParams) /\ \A p \in searches : IsParams(p)
    /\ ~overlapped => \A p, r \in searches : p = r

\* The parameters of what is shown, or about to be.
Latest == IF searches = {} THEN {rowsParams} ELSE searches

FilterShown == [text |-> q /\ ~sqlMode, sql |-> q /\ sqlMode]
FilterInv   == ~overlapped /\ ~typing => \A p \in Latest : p.filter = FilterShown
PagerInv    == ~overlapped /\ ~searched => \A p \in Latest : pager = [offset |-> p.offset, limit |-> p.limit]

ViewInv == OneSearch /\ FilterInv /\ PagerInv

\* A new request is the latest, unless it met another.
LEMMA RequestIsLatest ==
    ASSUME OneSearch, NEW p, IsParams(p), Requests(p), rowsParams' = rowsParams
    PROVE  OneSearch' /\ (~overlapped' => ~overlapped /\ Latest = {rowsParams} /\ Latest' = {p})
  BY DEF OneSearch, Requests, Latest, IsParams

\* Opening the page: the default parameters, and controls that say so.
LEMMA ViewInit == Init => ViewInv
<1> SUFFICES ASSUME Init PROVE ViewInv
  OBVIOUS
<1>1. OneSearch /\ Latest = {DefaultRowsParams}
  BY DEF Init, OneSearch, Latest, IsParams, DefaultRowsParams
<1>2. NoFilter = FilterShown
  BY DEF Init, FilterShown, NoFilter
<1>3. FilterInv
  BY <1>1, <1>2 DEF FilterInv, DefaultRowsParams
<1>4. PagerInv
  BY <1>1 DEF Init, PagerInv, DefaultRowsParams
<1> QED
  BY <1>1, <1>3, <1>4 DEF ViewInv

\* The same, for a page that is opened later.
LEMMA ViewOpen ==
    ASSUME NEW m, Open(m)
    PROVE  ViewInv'
<1>1. OneSearch' /\ Latest' = {DefaultRowsParams}
  BY DEF Open, OneSearch, Latest, IsParams, DefaultRowsParams
<1>2. NoFilter = FilterShown'
  BY DEF Open, FilterShown, NoFilter
<1>3. FilterInv'
  BY <1>1, <1>2 DEF FilterInv, DefaultRowsParams
<1>4. PagerInv'
  BY <1>1 DEF Open, PagerInv, DefaultRowsParams
<1> QED
  BY <1>1, <1>3, <1>4 DEF ViewInv

\* The search box: its text and mode, and the filter that is asked for.
LEMMA ViewSearch ==
    ASSUME ViewInv, NEW text \in BOOLEAN, NEW mode \in BOOLEAN, onSearch(text, mode), rowsParams' = rowsParams,
           [text |-> text /\ ~mode, sql |-> text /\ mode] = FilterShown'
    PROVE  ViewInv'
<1> DEFINE p == [rowsParams EXCEPT !.offset = 0,
                                   !.filter = [text |-> text /\ ~mode, sql |-> text /\ mode]]
<1>1. IsParams(p) /\ p.filter = FilterShown'
  BY DEF ViewInv, OneSearch, IsParams
<1>2. Requests(p) /\ searched' = TRUE
  BY DEF onSearch
<1> HIDE DEF p
<1>3. OneSearch' /\ (~overlapped' => Latest' = {p})
  BY <1>1, <1>2, RequestIsLatest DEF ViewInv
<1> QED
  BY <1>1, <1>2, <1>3 DEF ViewInv, FilterInv, PagerInv

\* The pager: its offset and limit, which are what is asked for.
LEMMA ViewPage ==
    ASSUME ViewInv, NEW offset, NEW limit, PagerSends(offset, limit)
    PROVE  ViewInv'
<1> DEFINE p == [rowsParams EXCEPT !.offset = offset, !.limit = limit]
<1>1. IsParams(p) /\ p.filter = rowsParams.filter /\ p.offset = offset /\ p.limit = limit
  BY DEF ViewInv, OneSearch, IsParams
<1>2. Requests(p) /\ pager' = [offset |-> offset, limit |-> limit] /\ UNCHANGED <<rowsParams, q, sqlMode, typing>>
  BY DEF PagerSends
<1> HIDE DEF p
<1>3. OneSearch' /\ (~overlapped' => ~overlapped /\ Latest = {rowsParams} /\ Latest' = {p})
  BY <1>1, <1>2, RequestIsLatest DEF ViewInv
<1>4. FilterShown' = FilterShown
  BY <1>2 DEF FilterShown
<1> QED
  BY <1>1, <1>2, <1>3, <1>4 DEF ViewInv, FilterInv, PagerInv

\* A column's header: the order, and neither the filter nor the page.
LEMMA ViewSort ==
    ASSUME ViewInv, onSortChange
    PROVE  ViewInv'
<1> DEFINE p == [rowsParams EXCEPT !.sort = IF @ = "desc" THEN "asc" ELSE "desc"]
<1>1. IsParams(p) /\ p.filter = rowsParams.filter /\ p.offset = rowsParams.offset /\ p.limit = rowsParams.limit
  BY DEF ViewInv, OneSearch, IsParams
<1>2. Requests(p) /\ UNCHANGED <<rowsParams, q, sqlMode, pager, typing, searched>>
  BY DEF onSortChange
<1> HIDE DEF p
<1>3. OneSearch' /\ (~overlapped' => ~overlapped /\ Latest = {rowsParams} /\ Latest' = {p})
  BY <1>1, <1>2, RequestIsLatest DEF ViewInv
<1>4. FilterShown' = FilterShown
  BY <1>2 DEF FilterShown
<1> QED
  BY <1>1, <1>2, <1>3, <1>4 DEF ViewInv, FilterInv, PagerInv

\* An answer: what was the latest request is what is shown.
LEMMA ViewAnswer ==
    ASSUME ViewInv, onRowsParamsChange
    PROVE  ViewInv'
<1>1. PICK p \in searches : /\ searches' = searches \ {p} /\ rowsParams' = p
                            /\ UNCHANGED <<q, sqlMode, pager, overlapped, typing, searched>>
  BY DEF onRowsParamsChange, viewAux
<1>2. OneSearch' /\ (~overlapped => Latest = {p} /\ Latest' = {p})
  BY <1>1 DEF ViewInv, OneSearch, Latest, IsParams
<1>3. FilterShown' = FilterShown
  BY <1>1 DEF FilterShown
<1> QED
  BY <1>1, <1>2, <1>3 DEF ViewInv, FilterInv, PagerInv

\* No step leaves the controls and the rows apart, but for what the property excepts.
LEMMA ViewStep ==
    ASSUME ViewInv, q \in BOOLEAN, sqlMode \in BOOLEAN, [Next]_vars
    PROVE  ViewInv'
<1>1. CASE UNCHANGED <<searches, rowsParams, pager, q, sqlMode, overlapped, typing, searched>>
  BY <1>1 DEF ViewInv, OneSearch, FilterInv, PagerInv, Latest, FilterShown, IsParams
<1>2. CASE typeText
  <2>1. UNCHANGED <<searches, rowsParams, pager, overlapped, searched>> /\ typing'
    BY <1>2 DEF typeText
  <2> QED
    BY <2>1 DEF ViewInv, OneSearch, FilterInv, PagerInv, Latest, IsParams
<1>3. CASE clearText
  BY <1>3, ViewSearch DEF clearText, FilterShown
<1>4. CASE toggleMode
  BY <1>4, ViewSearch DEF toggleMode, FilterShown
<1>5. CASE submitFilter
  BY <1>5, ViewSearch DEF submitFilter, FilterShown
<1>6. CASE previousPage \/ nextPage \/ enterLimit \/ enterOffset \/ refresh
  BY <1>6, ViewPage DEF previousPage, nextPage, enterLimit, enterOffset, refresh
<1>7. CASE onSortChange
  BY <1>7, ViewSort
<1>8. CASE onRowsParamsChange
  BY <1>8, ViewAnswer
<1>9. ASSUME NEW m, Open(m)
      PROVE  ViewInv'
  BY <1>9, ViewOpen
<1>10. CASE Links
  <2>1. CASE \E m \in Mains : Open(m)
    BY <2>1, <1>9
  <2>2. CASE ~\E m \in Mains : Open(m)
    BY <1>10, <2>2, <1>1 DEF Links, Jump, onRowSelect, onUpdate, ServeUpdate, UpdateAnswered, OtherUpdate,
                             controls, viewAux
  <2> QED BY <2>1, <2>2
<1>11. CASE UNCHANGED vars
  BY <1>11, <1>1 DEF vars, controls, viewAux
<1> QED
  BY <1>2, <1>3, <1>4, <1>5, <1>6, <1>7, <1>8, <1>10, <1>11 DEF Next, Controls

\* The search box has a text or none, and one of two modes.
LEMMA BoxType == Spec => [](q \in BOOLEAN /\ sqlMode \in BOOLEAN)
<1>1. Init => q \in BOOLEAN /\ sqlMode \in BOOLEAN
  BY DEF Init
<1>2. q \in BOOLEAN /\ sqlMode \in BOOLEAN /\ [Next]_vars => (q \in BOOLEAN /\ sqlMode \in BOOLEAN)'
  <2> SUFFICES ASSUME q \in BOOLEAN, sqlMode \in BOOLEAN, [Next]_vars
               PROVE  q' \in BOOLEAN /\ sqlMode' \in BOOLEAN
    OBVIOUS
  <2>1. CASE UNCHANGED <<q, sqlMode>>
    BY <2>1
  <2>2. CASE UNCHANGED vars
    BY <2>1, <2>2 DEF vars, controls
  <2>3. CASE Controls
    BY <2>3 DEF Controls, typeText, clearText, toggleMode, submitFilter, previousPage, nextPage, enterLimit,
                enterOffset, refresh, PagerSends, onSortChange, onRowsParamsChange
  <2>4. CASE Links
    BY <2>4 DEF Links, Open, Jump, onRowSelect, onUpdate, ServeUpdate, UpdateAnswered, OtherUpdate, controls
  <2> QED BY <2>2, <2>3, <2>4 DEF Next
<1> QED
  BY <1>1, <1>2, PTL DEF Spec

\* The controls and the rows, in every state.
LEMMA ViewHolds == Spec => []ViewInv
  BY BoxType, ViewInit, ViewStep, PTL DEF Spec

\* With one request at a time the rows are filtered as the search box says,
\* whatever was typed, entered, emptied, sorted and paged before (FiltersSearch,
\* onRowsParamsChange).
THEOREM FilterIsApplied == Spec => []FilterShownIsApplied
<1>1. ViewInv => FilterShownIsApplied
  BY DEF ViewInv, FilterInv, Latest, FilterShown, FilterShownIsApplied
<1> QED
  BY <1>1, ViewHolds, PTL

\* And, until the next search, they are the page that the pager shows
\* (Pagination).
THEOREM PagerIsApplied == Spec => []PagerShownIsApplied
<1>1. ViewInv => PagerShownIsApplied
  BY DEF ViewInv, PagerInv, Latest, PagerShownIsApplied
<1> QED
  BY <1>1, ViewHolds, PTL

-----------------------------------------------------------------------------
(* The selection and the links.                                            *)

Differ(S, T) == (S \ T) \union (T \ S)
Ours         == touched \union unseen
IsUpdate(u)  == DOMAIN u = {"n", "main", "addIds", "deleteIds", "wanted", "stage"}

\* The links that an update changes when it is served.
Touches(m, u) == LinkedBy(m, u.main, u.addIds \union u.deleteIds)

\* The selection differs from the links as loaded, and from those there are,
\* in what is the user's or was not told; and so is what updates may change.
SelectInv ==
    /\ \A u \in updates : IsUpdate(u)
    /\ sameIdName /\ ~jumped =>
          /\ Differ(selected, initRelated) \subseteq Ours
          /\ Differ(selected, Related(main)) \subseteq Ours
          /\ \A u \in updates : Touches(main, u) \subseteq Ours

\* The button sends what is selected and not linked, or linked and not selected.
LEMMA IdsDiffer == sameIdName => addIds \union deleteIds = Differ(selected, initRelated)
  BY DEF addIds, deleteIds, Ids, Differ

\* A pair of the main row is in an update of n's links to S, in one of the
\* directions, only when the row it leads to is one that the update changes.
LEMMA PairsOf ==
    ASSUME NEW m, NEW n, NEW S, NEW i, <<m, i>> \in LinkPairs(n, S)
    PROVE  i \in LinkedBy(m, n, S)
  BY DEF LinkPairs, OneWay, LinkedBy

\* The page starts with the links as loaded.
LEMMA SelectInit == Init => SelectInv
  BY DEF Init, SelectInv, OpenedSelection, Differ

\* Opening the page, where the updates under way count as not told.
LEMMA SelectOpen ==
    ASSUME SelectInv, NEW m, Open(m)
    PROVE  SelectInv'
<1>1. updates' = updates /\ links' = links /\ main' = m
  BY DEF Open, server
<1>2. Related(m)' = Related(m)
  BY <1>1 DEF Related
<1>3. selected' = Related(m) /\ initRelated' = Related(m)
  BY DEF Open, OpenedSelection
<1>4. \A u \in updates : Touches(m, u) \subseteq Ours'
  BY DEF Open, PendingFor, Touches, Ours
<1> QED
  BY <1>1, <1>2, <1>3, <1>4 DEF SelectInv, Differ, Related, Touches, LinkedBy

\* A row is selected or removed.
LEMMA SelectRow ==
    ASSUME SelectInv, NEW i, onRowSelect(i)
    PROVE  SelectInv'
<1>1. /\ UNCHANGED <<links, updates, sameIdName, initRelated, main, jumped>>
      /\ Ours \subseteq Ours' /\ i \in Ours'
      /\ Differ(selected, selected') \subseteq {i}
  BY DEF onRowSelect, server, Ours, Differ
<1>2. Related(main)' = Related(main)
  BY <1>1 DEF Related
<1> QED
  BY <1>1, <1>2 DEF SelectInv, Differ, Touches, LinkedBy

\* An update is sent.
LEMMA SelectUpdate ==
    ASSUME SelectInv, onUpdate
    PROVE  SelectInv'
<1> DEFINE u == Update("sent")
<1>1. /\ UNCHANGED <<links, sameIdName, initRelated, selected, main, jumped>>
      /\ updates' = updates \union {u} /\ Ours \subseteq Ours'
  BY DEF onUpdate, choices, Ours
<1>2. IsUpdate(u) /\ u.main = main /\ u.addIds = addIds /\ u.deleteIds = deleteIds
  BY DEF Update, IsUpdate
<1> HIDE DEF u
<1>3. Related(main)' = Related(main)
  BY <1>1 DEF Related
<1>4. sameIdName /\ ~jumped => Touches(main, u) \subseteq Ours
  BY <1>2, IdsDiffer DEF SelectInv, Touches, LinkedBy
<1> QED
  BY <1>1, <1>2, <1>3, <1>4 DEF SelectInv, Touches, LinkedBy

\* The server changes the links that the update says, or none.
LEMMA SelectServed ==
    ASSUME SelectInv, NEW u \in updates, ServeUpdate(u)
    PROVE  SelectInv'
<1>1. /\ UNCHANGED <<sameIdName, initRelated, selected, main, jumped>>
      /\ Ours \subseteq Ours'
  BY DEF ServeUpdate, choices, Ours
<1>2. PICK stage : updates' = (updates \ {u}) \union {[u EXCEPT !.stage = stage]}
  BY DEF ServeUpdate, Staged
<1> DEFINE v == [u EXCEPT !.stage = stage]
<1>3. IsUpdate(v) /\ v.main = u.main /\ v.addIds = u.addIds /\ v.deleteIds = u.deleteIds
  BY DEF SelectInv, IsUpdate
<1> HIDE DEF v
<1>4. links' = links \/ links' = LinksAfter(u)
  BY DEF ServeUpdate
<1>5. Differ(Related(main), Related(main)') \subseteq Touches(main, u)
  <2>1. ASSUME NEW i \in Differ(Related(main), Related(main)')
        PROVE  <<main, i>> \in LinkPairs(u.main, u.addIds \union u.deleteIds)
    BY <1>1, <1>4, <2>1 DEF Differ, Related, LinksAfter, LinkPairs, OneWay
  <2> QED
    BY <2>1, PairsOf DEF Touches
<1>6. Touches(main, v) = Touches(main, u)
  BY <1>3 DEF Touches
<1>7. \A w \in updates' : w \in updates \/ w = v
  BY <1>2 DEF v
<1>8. \A w \in updates' : IsUpdate(w)
  BY <1>3, <1>7 DEF SelectInv
<1>9. ASSUME sameIdName, ~jumped
      PROVE  /\ Differ(selected, initRelated) \subseteq Ours'
             /\ Differ(selected, Related(main)') \subseteq Ours'
             /\ \A w \in updates' : Touches(main, w) \subseteq Ours'
  <2>1. \A w \in updates' : Touches(main, w) \subseteq Ours'
    BY <1>1, <1>6, <1>7, <1>9 DEF SelectInv
  <2>2. Differ(selected, initRelated) \subseteq Ours'
    BY <1>1, <1>9 DEF SelectInv
  <2>3. Differ(selected, Related(main)) \subseteq Ours' /\ Touches(main, u) \subseteq Ours'
    BY <1>1, <1>9 DEF SelectInv
  <2>4. Differ(selected, Related(main)') \subseteq Ours'
    BY <1>5, <2>3 DEF Differ
  <2> QED
    BY <2>1, <2>2, <2>4
<1> QED
  BY <1>1, <1>8, <1>9 DEF SelectInv, Touches

\* An answer: the links are loaded again.
LEMMA SelectAnswered ==
    ASSUME SelectInv, NEW u \in updates, UpdateAnswered(u)
    PROVE  SelectInv'
<1>1. /\ UNCHANGED <<links, sameIdName, selected, main, touched, unseen, jumped>>
      /\ updates' \subseteq updates
      /\ initRelated' = Related(main) \/ initRelated' = initRelated
  BY DEF UpdateAnswered, linkAux
<1>2. Related(main)' = Related(main)
  BY <1>1 DEF Related
<1> QED
  BY <1>1, <1>2 DEF SelectInv, Touches, LinkedBy, Ours

\* Others change a link, of which the page is not told.
LEMMA SelectOther ==
    ASSUME SelectInv, NEW m, NEW i, OtherUpdate(m, i)
    PROVE  SelectInv'
<1>1. /\ UNCHANGED <<updates, sameIdName, initRelated, selected, main, jumped>>
      /\ Ours \subseteq Ours' /\ LinkedBy(main, m, {i}) \subseteq Ours'
  BY DEF OtherUpdate, choices, Ours
<1>2. Differ(Related(main), Related(main)') \subseteq LinkedBy(main, m, {i})
  <2>1. ASSUME NEW j \in Differ(Related(main), Related(main)')
        PROVE  <<main, j>> \in LinkPairs(m, {i})
    BY <1>1, <2>1 DEF OtherUpdate, Differ, Related, LinkPairs, OneWay
  <2> QED
    BY <2>1, PairsOf
<1> QED
  BY <1>1, <1>2 DEF SelectInv, Differ, Touches, LinkedBy

\* No step lets the selection and the links differ in anything else.
LEMMA SelectStep ==
    ASSUME SelectInv, [Next]_vars
    PROVE  SelectInv'
<1>1. CASE UNCHANGED <<server, choices, sameIdName, linkAux>>
  BY <1>1 DEF server, choices, linkAux, SelectInv, Differ, Ours, Touches, LinkedBy, Related
<1>2. CASE Controls
  BY <1>1, <1>2 DEF Controls, typeText, clearText, toggleMode, submitFilter, previousPage, nextPage, enterLimit,
                    enterOffset, refresh, PagerSends, onSortChange, onRowsParamsChange
<1>3. ASSUME NEW m, Jump(m)
      PROVE  SelectInv'
  BY <1>3 DEF Jump, server, SelectInv
<1>4. CASE Links
  BY <1>3, <1>4, SelectOpen, SelectRow, SelectUpdate, SelectServed, SelectAnswered, SelectOther DEF Links
<1>5. CASE UNCHANGED vars
  BY <1>1, <1>5 DEF vars
<1> QED
  BY <1>2, <1>4, <1>5 DEF Next

\* Whatever was selected, saved, lost on its way and changed by others before,
\* the Update button does what the user did on this page, or undoes what the
\* page was not told of (onRowSelect, onUpdate).
THEOREM ChangesAreOurs == Spec => []ChangesAreOwnOrUnseen
<1>1. SelectInv => ChangesAreOwnOrUnseen
  BY IdsDiffer DEF SelectInv, ChangesAreOwnOrUnseen, Ours
<1> QED
  BY <1>1, SelectInit, SelectStep, PTL DEF Spec
-----------------------------------------------------------------------------
(* Types.                                                                  *)

\* What an update carries: a column that rows do not have is Undefined.
UpdatesOK ==
    \A u \in updates : IsUpdate(u) /\ u.main \in Rows /\ u.addIds \subseteq Rows \union {Undefined}

\* A page of rows has rows of the table only.
LEMMA PageOfRows == ASSUME NEW p PROVE getTableView(p) \subseteq Rows
  BY DEF getTableView, Rows, ToSet

\* The parameters that the page opens with.
LEMMA DefaultType == DefaultRowsParams \in ParamsType /\ getTableView(DefaultRowsParams) \subseteq Rows
<1>1. NoFilter \in [text : BOOLEAN, sql : BOOLEAN]
  BY DEF NoFilter
<1> QED
  BY <1>1, PageOfRows, LimitsAssumption DEF DefaultRowsParams, ParamsType

\* An update that the join table accepts leaves pairs of rows in it.
LEMMA LinksOfRows ==
    ASSUME links \subseteq Rows \X Rows, NEW u, u.main \in Rows, u.addIds \subseteq Rows
    PROVE  LinksAfter(u) \subseteq Rows \X Rows
  BY DEF LinksAfter, LinkPairs, OneWay

\* The page as it is opened first.
LEMMA TypeInit == Init => TypeOK /\ UpdatesOK
<1> SUFFICES ASSUME Init PROVE TypeOK /\ UpdatesOK
  OBVIOUS
<1>1. rowsParams \in ParamsType /\ ~(rowsParams.filter.text /\ rowsParams.filter.sql) /\ rows \subseteq Rows
  BY DefaultType DEF Init, DefaultRowsParams, NoFilter
<1>2. pager.offset \in Nat /\ pager.limit \in 1..MaxLimit
  BY LimitsAssumption DEF Init
<1>3. searches \union {rowsParams} = {rowsParams} /\ searches \subseteq ParamsType
  BY DEF Init
<1>4. links \subseteq Rows \X Rows /\ initRelated \subseteq Rows /\ selected \subseteq Rows
  BY LinksAssumption DEF Init, Related, OpenedSelection
<1>5. sameIdName \in BOOLEAN /\ main \in Mains /\ q \in BOOLEAN /\ sqlMode \in BOOLEAN
  BY DEF Init
<1>6. updates = {} /\ events \in 0..MaxEvents
  BY BoundsAssumption DEF Init
<1> QED
  BY <1>1, <1>2, <1>3, <1>4, <1>5, <1>6 DEF TypeOK, UpdatesOK

\* The parameters that the controls send.
LEMMA RequestType ==
    ASSUME TypeOK, NEW p \in ParamsType, ~(p.filter.text /\ p.filter.sql), Requests(p),
           UNCHANGED <<server, sameIdName, choices, rows, rowsParams>>,
           q' \in BOOLEAN, sqlMode' \in BOOLEAN,
           pager'.offset \in Nat \union {NaN}, pager'.limit \in 1..MaxLimit \union {NaN}
    PROVE  TypeOK'
<1>1. UNCHANGED <<links, updates, sameIdName, initRelated, selected, main, rows, rowsParams>>
  BY DEF server, choices
<1>2. searches' = searches \union {p} /\ events' = events + 1 /\ events < MaxEvents
  BY DEF Requests, Counted
<1>3. events' \in 0..MaxEvents /\ \A n \in 0..events : n \in 0..events'
  BY <1>2, BoundsAssumption DEF TypeOK
<1> QED
  BY <1>1, <1>2, <1>3 DEF TypeOK

\* The search box.
LEMMA SearchType ==
    ASSUME TypeOK, NEW text \in BOOLEAN, NEW mode \in BOOLEAN, onSearch(text, mode),
           UNCHANGED <<server, sameIdName, choices, rows, rowsParams, pager>>,
           q' \in BOOLEAN, sqlMode' \in BOOLEAN
    PROVE  TypeOK'
<1> DEFINE f == [text |-> text /\ ~mode, sql |-> text /\ mode]
           p == [rowsParams EXCEPT !.offset = 0, !.filter = f]
<1>1. f \in [text : BOOLEAN, sql : BOOLEAN] /\ ~(f.text /\ f.sql)
  OBVIOUS
<1>2. Requests(p)
  BY DEF onSearch
<1> HIDE DEF f
<1>3. p \in ParamsType /\ p.filter = f
  BY <1>1 DEF TypeOK, ParamsType
<1> HIDE DEF p
<1> QED
  BY <1>1, <1>2, <1>3, RequestType DEF TypeOK

\* The pager, whatever it sends.
LEMMA PageType ==
    ASSUME TypeOK, NEW offset \in Nat \union {NaN}, NEW limit \in 1..MaxLimit \union {NaN}, PagerSends(offset, limit)
    PROVE  TypeOK'
<1> DEFINE p == [rowsParams EXCEPT !.offset = offset, !.limit = limit]
<1>1. p \in ParamsType /\ p.filter = rowsParams.filter
  BY DEF TypeOK, ParamsType
<1>2. Requests(p) /\ pager'.offset = offset /\ pager'.limit = limit
  BY DEF PagerSends
<1>3. UNCHANGED <<server, sameIdName, choices, rows, rowsParams, q, sqlMode>>
  BY DEF PagerSends
<1> HIDE DEF p
<1> QED
  BY <1>1, <1>2, <1>3, RequestType DEF TypeOK

\* Each control of the pager keeps its numbers in range, or they are none.
LEMMA PagerType ==
    ASSUME TypeOK, previousPage \/ nextPage \/ enterLimit \/ enterOffset \/ refresh
    PROVE  TypeOK'
<1>1. pager.offset \in Nat \union {NaN} /\ pager.limit \in 1..MaxLimit \union {NaN} /\ MaxLimit \in Nat \ {0}
  BY LimitsAssumption DEF TypeOK
<1>2. CASE previousPage
  <2> DEFINE back == Minus(pager.offset, pager.limit)
  <2>1. back = NaN \/ back \in Int
    BY <1>1 DEF Minus
  <2>2. PagerSends(IF back # NaN /\ back < 0 THEN 0 ELSE back, pager.limit)
    BY <1>2 DEF previousPage
  <2> HIDE DEF back
  <2>3. (IF back # NaN /\ back < 0 THEN 0 ELSE back) \in Nat \union {NaN}
    BY <2>1
  <2> QED BY <1>1, <2>2, <2>3, PageType
<1>3. CASE nextPage
  <2> DEFINE on == Plus(pager.offset, pager.limit)
  <2>1. on \in Nat \union {NaN}
    BY <1>1 DEF Plus
  <2>2. PagerSends(on, pager.limit)
    BY <1>3 DEF nextPage
  <2> HIDE DEF on
  <2> QED BY <1>1, <2>1, <2>2, PageType
<1>4. CASE enterLimit
  <2>1. PICK typed \in LimitInputs : PagerSends(pager.offset, KeptLimit(typed))
    BY <1>4 DEF enterLimit
  <2>2. KeptLimit(typed) \in 1..MaxLimit \union {NaN}
    BY <1>1, LimitsAssumption DEF KeptLimit
  <2> QED BY <1>1, <2>1, <2>2, PageType
<1>5. CASE enterOffset
  <2>1. PICK typed \in {-1, 1} : PagerSends(IF typed < 0 THEN 0 ELSE typed, pager.limit)
    BY <1>5 DEF enterOffset
  <2>2. (IF typed < 0 THEN 0 ELSE typed) \in Nat
    OBVIOUS
  <2> QED BY <1>1, <2>1, <2>2, PageType
<1>6. CASE refresh
  BY <1>1, <1>6, PageType DEF refresh
<1> QED
  BY <1>2, <1>3, <1>4, <1>5, <1>6

\* A column's header.
LEMMA SortType ==
    ASSUME TypeOK, onSortChange
    PROVE  TypeOK'
<1> DEFINE p == [rowsParams EXCEPT !.sort = IF @ = "desc" THEN "asc" ELSE "desc"]
<1>1. p \in ParamsType /\ p.filter = rowsParams.filter
  BY DEF TypeOK, ParamsType
<1>2. Requests(p) /\ UNCHANGED <<server, sameIdName, choices, rows, rowsParams, q, sqlMode, pager>>
  BY DEF onSortChange
<1> HIDE DEF p
<1> QED
  BY <1>1, <1>2, RequestType DEF TypeOK

\* The rows below and their controls.
LEMMA ControlsType ==
    ASSUME TypeOK, UpdatesOK, Controls
    PROVE  TypeOK' /\ UpdatesOK'
<1>1. updates' = updates
  BY DEF Controls, typeText, clearText, toggleMode, submitFilter, previousPage, nextPage, enterLimit, enterOffset,
         refresh, PagerSends, onSortChange, onRowsParamsChange, server
<1> SUFFICES TypeOK'
  BY <1>1 DEF UpdatesOK
<1>2. CASE typeText
  <2>1. q' \in BOOLEAN
    BY <1>2 DEF typeText
  <2>2. UNCHANGED <<links, updates, events, sameIdName, initRelated, selected, main, rows, rowsParams, searches,
                    sqlMode, pager>>
    BY <1>2 DEF typeText, server, choices
  <2> QED BY <2>1, <2>2 DEF TypeOK
<1>3. q \in BOOLEAN /\ sqlMode \in BOOLEAN
  BY DEF TypeOK
<1>4. CASE clearText
  <2>1. onSearch(FALSE, sqlMode) /\ q' \in BOOLEAN /\ sqlMode' \in BOOLEAN
    BY <1>3, <1>4 DEF clearText
  <2>2. UNCHANGED <<server, sameIdName, choices, rows, rowsParams, pager>>
    BY <1>4 DEF clearText
  <2> QED BY <1>3, <2>1, <2>2, SearchType
<1>5. CASE toggleMode
  <2>1. onSearch(FALSE, sqlMode) /\ q' \in BOOLEAN /\ sqlMode' \in BOOLEAN
    BY <1>3, <1>5 DEF toggleMode
  <2>2. UNCHANGED <<server, sameIdName, choices, rows, rowsParams, pager>>
    BY <1>5 DEF toggleMode
  <2> QED BY <1>3, <2>1, <2>2, SearchType
<1>6. CASE submitFilter
  <2>1. onSearch(q, sqlMode) /\ q' \in BOOLEAN /\ sqlMode' \in BOOLEAN
    BY <1>3, <1>6 DEF submitFilter
  <2>2. UNCHANGED <<server, sameIdName, choices, rows, rowsParams, pager>>
    BY <1>6 DEF submitFilter
  <2> QED BY <1>3, <2>1, <2>2, SearchType
<1>7. CASE onRowsParamsChange
  <2>1. PICK p \in searches : /\ searches' = searches \ {p} /\ rowsParams' = p
                              /\ rows' \in {getTableView(p), {}}
                              /\ UNCHANGED <<events, server, sameIdName, choices, q, sqlMode, pager>>
    BY <1>7 DEF onRowsParamsChange
  <2>2. UNCHANGED <<links, updates, events, sameIdName, initRelated, selected, main, q, sqlMode, pager>>
    BY <2>1 DEF server, choices
  <2>3. rows' \subseteq Rows /\ rowsParams' \in ParamsType /\ searches' \union {rowsParams'} \subseteq searches
    BY <2>1, PageOfRows DEF TypeOK
  <2> QED
    BY <2>2, <2>3 DEF TypeOK
<1> QED
  BY <1>2, <1>4, <1>5, <1>6, <1>7, PagerType, SortType DEF Controls

\* The selection, the updates and the links.
LEMMA LinksType ==
    ASSUME TypeOK, UpdatesOK, Links
    PROVE  TypeOK' /\ UpdatesOK'
<1>1. ASSUME NEW m \in Mains, Open(m)
      PROVE  TypeOK' /\ UpdatesOK'
  <2>1. rowsParams' \in ParamsType /\ ~(rowsParams'.filter.text /\ rowsParams'.filter.sql) /\ rows' \subseteq Rows
    BY <1>1, DefaultType DEF Open, DefaultRowsParams, NoFilter
  <2>2. pager'.offset \in Nat /\ pager'.limit \in 1..MaxLimit
    BY <1>1, LimitsAssumption DEF Open
  <2>3. initRelated' \subseteq Rows /\ selected' \subseteq Rows /\ main' = m
    BY <1>1 DEF Open, Related, OpenedSelection
  <2>4. UNCHANGED <<events, links, updates, sameIdName>> /\ searches' = {} /\ q' = FALSE /\ sqlMode' = FALSE
    BY <1>1 DEF Open, server
  <2> QED
    BY <2>1, <2>2, <2>3, <2>4 DEF TypeOK, UpdatesOK
<1>2. ASSUME NEW m \in Mains, Jump(m)
      PROVE  TypeOK' /\ UpdatesOK'
  BY <1>2 DEF Jump, server, controls, Related, TypeOK, UpdatesOK
<1>3. ASSUME NEW i \in Rows, onRowSelect(i)
      PROVE  TypeOK' /\ UpdatesOK'
  BY <1>3 DEF onRowSelect, server, controls, TypeOK, UpdatesOK
<1>4. CASE onUpdate
  <2> DEFINE u == Update("sent")
  <2>1. u.n = events /\ u.stage = "sent" /\ IsUpdate(u) /\ u.main = main
    BY DEF Update, IsUpdate
  <2>2. /\ updates' = updates \union {u} /\ events' = events + 1 /\ events < MaxEvents
        /\ UNCHANGED <<links, sameIdName, initRelated, selected, main, rows, rowsParams, searches, q, sqlMode, pager>>
    BY <1>4 DEF onUpdate, Counted, choices, controls
  <2>5. u.addIds \subseteq Rows \union {Undefined}
    BY DEF Update, addIds, Ids, TypeOK
  <2> HIDE DEF u
  <2>3. events' \in 0..MaxEvents /\ \A n \in 0..events : n \in 0..events'
    BY <2>2, BoundsAssumption DEF TypeOK
  <2>4. u.n \in 0..events
    BY <2>1 DEF TypeOK
  <2> QED
    BY <2>1, <2>2, <2>3, <2>4, <2>5, ItemsAssumption DEF TypeOK, UpdatesOK
<1>5. ASSUME NEW u \in updates, ServeUpdate(u)
      PROVE  TypeOK' /\ UpdatesOK'
  <2>1. PICK stage \in {"ok", "error"} : updates' = (updates \ {u}) \union {[u EXCEPT !.stage = stage]}
    BY <1>5 DEF ServeUpdate, Staged
  <2> DEFINE v == [u EXCEPT !.stage = stage]
  <2>2. IsUpdate(v) /\ v.n = u.n /\ v.stage = stage /\ v.main = u.main /\ v.addIds = u.addIds
    BY DEF UpdatesOK, IsUpdate
  <2>3. UNCHANGED <<events, sameIdName, initRelated, selected, main, rows, rowsParams, searches, q, sqlMode, pager>>
    BY <1>5 DEF ServeUpdate, choices, controls
  <2> HIDE DEF v
  <2>4. UpdatesOK' /\ \A w \in updates' : w.n \in 0..events /\ w.stage \in {"sent", "ok", "error"}
    BY <2>1, <2>2 DEF v, TypeOK, UpdatesOK
  <2>5. links' \subseteq Rows \X Rows
    BY <1>5, LinksOfRows DEF ServeUpdate, TypeOK, UpdatesOK
  <2> QED
    BY <2>3, <2>4, <2>5 DEF TypeOK
<1>6. ASSUME NEW u \in updates, UpdateAnswered(u)
      PROVE  TypeOK' /\ UpdatesOK'
  <2>1. UNCHANGED <<events, links, sameIdName, selected, main, rows, rowsParams, searches, q, sqlMode, pager>>
    BY <1>6 DEF UpdateAnswered, controls
  <2>2. updates' \subseteq updates /\ initRelated' \subseteq Rows
    BY <1>6 DEF UpdateAnswered, Related, TypeOK
  <2> QED
    BY <2>1, <2>2 DEF TypeOK, UpdatesOK
<1>7. ASSUME NEW m \in Mains, NEW i \in Rows, OtherUpdate(m, i)
      PROVE  TypeOK' /\ UpdatesOK'
  <2>1. /\ UNCHANGED <<updates, sameIdName, initRelated, selected, main, rows, rowsParams, searches, q, sqlMode, pager>>
        /\ events' = events + 1 /\ events < MaxEvents
    BY <1>7 DEF OtherUpdate, Counted, choices, controls
  <2>2. events' \in 0..MaxEvents /\ \A n \in 0..events : n \in 0..events'
    BY <2>1, BoundsAssumption DEF TypeOK
  <2>3. links' \subseteq Rows \X Rows
    BY <1>7, ItemsAssumption DEF OtherUpdate, LinkPairs, OneWay, TypeOK
  <2> QED
    BY <2>1, <2>2, <2>3 DEF TypeOK, UpdatesOK
<1> QED
  BY <1>1, <1>2, <1>3, <1>4, <1>5, <1>6, <1>7 DEF Links

\* For every table and every number a control is given: what is sent is a
\* page that the server takes, the selection and the links stay rows of the
\* table, and a filter is of one kind (RelationsPage, FiltersSearch, Pagination).
THEOREM TypeCorrect == Spec => []TypeOK
<1>1. TypeOK /\ UpdatesOK /\ [Next]_vars => (TypeOK /\ UpdatesOK)'
  <2>1. ASSUME TypeOK, UpdatesOK, UNCHANGED vars
        PROVE  TypeOK' /\ UpdatesOK'
    BY <2>1 DEF vars, server, choices, controls, TypeOK, UpdatesOK
  <2> QED
    BY <2>1, ControlsType, LinksType DEF Next
<1> QED
  BY <1>1, TypeInit, PTL DEF Spec

-----------------------------------------------------------------------------
(* What a save leaves.                                                     *)

\* A bidirectional link is there from both ends; an update has something to change.
BothEnds    == Bidirectional => \A m, i : <<m, i>> \in links => <<i, m>> \in links
SomeChange  == \A u \in updates : IsUpdate(u) /\ u.addIds \union u.deleteIds # {}

\* Nothing changed the row's links but what the page was told of.
Undisturbed == sameIdName /\ ~jumped /\ unseen = {}

Fresh        == initRelated = Related(main)
NoneOfOurs   == Fresh /\ \A u \in updates : Touches(main, u) = {}
Saving(u)    == /\ u.wanted \subseteq Rows
                /\ u.addIds = u.wanted \ Related(main) /\ u.deleteIds = Related(main) \ u.wanted
OneOfOurs(u) == /\ updates = {u} /\ u.main = main
                /\ u.stage # "ok" => Fresh
                /\ u.stage = "sent" => Saving(u)

\* Then the page knows the links, or has one update under way that was made
\* from them as they still are, or were until it was served.
SaveInv ==
    /\ BothEnds /\ SomeChange
    /\ Undisturbed => NoneOfOurs \/ \E u \in updates : OneOfOurs(u)

\* The page starts with the links that there are, and no update.
LEMMA SaveInit == Init => SaveInv
<1> SUFFICES ASSUME Init PROVE SaveInv
  OBVIOUS
<1>1. BothEnds
  BY LinksAssumption DEF Init, BothEnds
<1> QED
  BY <1>1 DEF Init, SaveInv, SomeChange, NoneOfOurs, Fresh

\* Opening the page with updates of its row under way counts them as not told.
LEMMA SaveOpen ==
    ASSUME SaveInv, NEW m, Open(m)
    PROVE  SaveInv'
<1>1. updates' = updates /\ links' = links /\ main' = m
  BY DEF Open, server
<1>2. Related(m)' = Related(m)
  BY <1>1 DEF Related
<1>3. Fresh'
  BY <1>1, <1>2 DEF Open, Fresh, Related
<1>4. \A u \in updates : Touches(m, u) \subseteq unseen'
  BY DEF Open, PendingFor, Touches
<1>5. Undisturbed' => \A u \in updates' : Touches(main, u)' = {}
  BY <1>1, <1>4 DEF Undisturbed, Touches, LinkedBy
<1> QED
  BY <1>1, <1>3, <1>5 DEF SaveInv, BothEnds, SomeChange, NoneOfOurs, Touches, LinkedBy

\* A selection that is not sent.
LEMMA SaveRow ==
    ASSUME SaveInv, UNCHANGED <<links, updates, sameIdName, initRelated, main, unseen, jumped>>
    PROVE  SaveInv'
<1>1. Related(main)' = Related(main)
  BY DEF Related
<1> QED
  BY <1>1 DEF SaveInv, BothEnds, SomeChange, Undisturbed, NoneOfOurs, OneOfOurs, Saving, Fresh, Touches, LinkedBy

\* The first update is made from the links that there are; a second one, with
\* the first under way, is not.
LEMMA SaveUpdate ==
    ASSUME SaveInv, selected \subseteq Rows, onUpdate
    PROVE  SaveInv'
<1>1. PICK u : u = Update("sent")
  OBVIOUS
<1>2. /\ UNCHANGED <<links, sameIdName, initRelated, selected, main, jumped>>
      /\ updates' = updates \union {u} /\ addIds \union deleteIds # {}
      /\ unseen' = IF updates = {} THEN unseen ELSE unseen \union addIds \union deleteIds
  BY <1>1 DEF onUpdate, choices
<1>3. IsUpdate(u) /\ u.main = main /\ u.addIds = addIds /\ u.deleteIds = deleteIds /\ u.wanted = selected
      /\ u.stage = "sent"
  BY <1>1 DEF Update, IsUpdate
<1>4. Related(main)' = Related(main)
  BY <1>2 DEF Related
<1>5. BothEnds' /\ SomeChange'
  BY <1>2, <1>3 DEF SaveInv, BothEnds, SomeChange
<1>6. ASSUME Undisturbed'
      PROVE  OneOfOurs(u)' /\ u \in updates'
  <2>1. updates = {} /\ Undisturbed
    BY <1>2, <1>6 DEF Undisturbed
  <2>2. Fresh
    BY <2>1 DEF SaveInv, NoneOfOurs
  <2>3. Saving(u)'
    BY <1>2, <1>3, <1>4, <2>1, <2>2 DEF Saving, Fresh, addIds, deleteIds, Ids, Undisturbed
  <2> QED
    BY <1>2, <1>3, <1>4, <2>1, <2>2, <2>3 DEF OneOfOurs, Fresh
<1> QED
  BY <1>5, <1>6 DEF SaveInv

\* An update leaves the links that it was made for, from both ends if it is bidirectional.
LEMMA SavedLinks ==
    ASSUME BothEnds, NEW u, u.main = main, main' = main, Saving(u), links' = LinksAfter(u)
    PROVE  /\ {i \in Rows : <<main, i>> \in links'} = u.wanted
           /\ Bidirectional => {i \in Rows : <<i, main>> \in links'} = u.wanted
<1>1. \A i \in Rows : <<main, i>> \in links' <=> i \in u.wanted
  BY DEF Saving, LinksAfter, LinkPairs, OneWay, Related
<1>2. Bidirectional => \A i : <<main, i>> \in links' <=> <<i, main>> \in links'
  BY DEF LinksAfter, LinkPairs, OneWay, BothEnds
<1> QED
  BY <1>1, <1>2 DEF Saving

\* The server: an update of others' rows leaves this row alone; the page's own
\* changes the links, which the page is told unless the answer is an error.
LEMMA SaveServed ==
    ASSUME SaveInv, NEW u \in updates, ServeUpdate(u)
    PROVE  SaveInv'
<1>1. UNCHANGED <<sameIdName, initRelated, main, jumped>> /\ unseen \subseteq unseen' /\ u.stage = "sent"
  BY DEF ServeUpdate, choices
<1>2. PICK stage \in {"ok", "error"} :
         /\ updates' = (updates \ {u}) \union {[u EXCEPT !.stage = stage]}
         /\ \/ links' = links /\ stage = "error"
            \/ links' = LinksAfter(u) /\ stage = "ok"
            \/ links' = LinksAfter(u) /\ unseen' = unseen \union Touches(main, u)
  BY DEF ServeUpdate, Staged, Touches
<1> DEFINE v == [u EXCEPT !.stage = stage]
<1>3. /\ IsUpdate(v) /\ v.main = u.main /\ v.addIds = u.addIds /\ v.deleteIds = u.deleteIds /\ v.stage = stage
      /\ updates' = (updates \ {u}) \union {v}
  BY <1>2 DEF SaveInv, SomeChange, IsUpdate
<1> HIDE DEF v
<1>4. BothEnds' /\ SomeChange'
  BY <1>2, <1>3 DEF SaveInv, BothEnds, SomeChange, LinksAfter, LinkPairs, OneWay
<1>5. Touches(main, v) = Touches(main, u)
  BY <1>3 DEF Touches
<1>6. Touches(main, u) = {} => Related(main)' = Related(main)
  <2>1. ASSUME NEW i, Touches(main, u) = {}
        PROVE  <<main, i>> \in links' <=> <<main, i>> \in links
    BY <1>2, <2>1, PairsOf DEF Touches, LinksAfter, LinkPairs, OneWay, LinkedBy
  <2> QED
    BY <1>1, <2>1 DEF Related
<1>7. ASSUME Undisturbed', NoneOfOurs
      PROVE  NoneOfOurs'
  BY <1>1, <1>3, <1>5, <1>6, <1>7 DEF NoneOfOurs, Fresh, Touches, LinkedBy, Related
<1>8. ASSUME Undisturbed', NEW w \in updates, OneOfOurs(w)
      PROVE  OneOfOurs(v)' /\ v \in updates'
  <2>1. w = u /\ updates' = {v} /\ v.main = main'
    BY <1>1, <1>3, <1>8 DEF OneOfOurs
  <2>2. Touches(main, u) # {}
    BY <1>8, <2>1 DEF SaveInv, SomeChange, OneOfOurs, Touches, LinkedBy
  <2>3. stage = "error" => links' = links
    BY <1>2, <1>8, <2>2 DEF Undisturbed
  <2> QED
    BY <1>1, <1>2, <1>3, <1>8, <2>1, <2>3 DEF OneOfOurs, Fresh, Related
<1>9. Undisturbed' => Undisturbed
  BY <1>1 DEF Undisturbed
<1> QED
  BY <1>4, <1>7, <1>8, <1>9 DEF SaveInv

\* An answer that arrives tells the page of the links that there are.
LEMMA SaveAnswered ==
    ASSUME SaveInv, NEW u \in updates, UpdateAnswered(u)
    PROVE  SaveInv'
<1>1. /\ UNCHANGED <<links, sameIdName, main, unseen, jumped>>
      /\ updates' = updates \ {u}
      /\ u.stage \in {"ok", "error"}
      /\ initRelated' = IF u.stage = "ok" THEN Related(main) ELSE initRelated
  BY DEF UpdateAnswered, linkAux
<1>2. Related(main)' = Related(main)
  BY <1>1 DEF Related
<1>3. NoneOfOurs => NoneOfOurs'
  BY <1>1, <1>2 DEF NoneOfOurs, Fresh, Touches, LinkedBy
<1>4. ASSUME NEW w \in updates, OneOfOurs(w)
      PROVE  NoneOfOurs'
  BY <1>1, <1>2, <1>4 DEF OneOfOurs, NoneOfOurs, Fresh
<1> QED
  BY <1>1, <1>3, <1>4 DEF SaveInv, BothEnds, SomeChange, Undisturbed

\* Others change a link: one of the row's, which the page is not told, or none.
LEMMA SaveOther ==
    ASSUME SaveInv, NEW m, NEW i, OtherUpdate(m, i)
    PROVE  SaveInv'
<1>1. /\ UNCHANGED <<updates, sameIdName, initRelated, main, jumped>>
      /\ unseen' = unseen \union LinkedBy(main, m, {i})
      /\ links' = IF <<m, i>> \in links THEN links \ LinkPairs(m, {i}) ELSE links \union LinkPairs(m, {i})
  BY DEF OtherUpdate, choices
<1>2. BothEnds' /\ SomeChange'
  BY <1>1 DEF SaveInv, BothEnds, SomeChange, LinkPairs, OneWay
<1>3. ASSUME Undisturbed'
      PROVE  Undisturbed /\ Related(main)' = Related(main)
  <2>1. Undisturbed /\ LinkedBy(main, m, {i}) = {}
    BY <1>1, <1>3 DEF Undisturbed
  <2>2. \A j : <<main, j>> \notin LinkPairs(m, {i})
    BY <2>1, PairsOf
  <2> QED
    BY <1>1, <2>1, <2>2 DEF Related
<1> QED
  BY <1>1, <1>2, <1>3 DEF SaveInv, NoneOfOurs, OneOfOurs, Saving, Fresh, Touches, LinkedBy

\* No step disturbs the page's own update without leaving a mark.
LEMMA SaveStep ==
    ASSUME SaveInv, TypeOK, [Next]_vars
    PROVE  SaveInv'
<1>1. CASE UNCHANGED <<server, choices, sameIdName, linkAux>>
  BY <1>1, SaveRow DEF server, choices, linkAux
<1>2. CASE Controls
  BY <1>1, <1>2 DEF Controls, typeText, clearText, toggleMode, submitFilter, previousPage, nextPage, enterLimit,
                    enterOffset, refresh, PagerSends, onSortChange, onRowsParamsChange
<1>3. ASSUME NEW m, Jump(m)
      PROVE  SaveInv'
  BY <1>3 DEF Jump, server, SaveInv, BothEnds, SomeChange, Undisturbed
<1>4. ASSUME NEW i, onRowSelect(i)
      PROVE  SaveInv'
  BY <1>4, SaveRow DEF onRowSelect, server
<1>5. CASE onUpdate
  BY <1>5, SaveUpdate DEF TypeOK
<1>6. CASE Links
  BY <1>3, <1>4, <1>5, <1>6, SaveOpen, SaveServed, SaveAnswered, SaveOther DEF Links
<1>7. CASE UNCHANGED vars
  BY <1>1, <1>7 DEF vars
<1> QED
  BY <1>2, <1>6, <1>7 DEF Next

\* An update that was sent and leaves this stage was served.
LEMMA OnlyServed ==
    ASSUME SaveInv, NEW u \in updates, u.stage = "sent", u \notin updates', links' # links, [Next]_vars
    PROVE  ServeUpdate(u)
<1>1. CASE UNCHANGED links
  BY <1>1
<1>2. CASE Controls
  BY <1>2 DEF Controls, typeText, clearText, toggleMode, submitFilter, previousPage, nextPage, enterLimit,
              enterOffset, refresh, PagerSends, onSortChange, onRowsParamsChange, server
<1>3. CASE Links
  <2>1. PICK w \in updates : ServeUpdate(w)
    BY <1>3 DEF Links, Open, Jump, onRowSelect, onUpdate, UpdateAnswered, OtherUpdate, server
  <2>2. u = w
    BY <2>1 DEF ServeUpdate, Staged
  <2> QED BY <2>1, <2>2
<1> QED
  BY <1>1, <1>2, <1>3 DEF Next, vars, server

\* However long the page was used before, with updates that were refused and
\* answers that came late: while the page knows of every change to its row, an
\* update leaves what is selected, from both ends of a bidirectional relation
\* (onUpdate, updateRelatedRows).
THEOREM SaveLeavesSelection == Spec => UpdateMakesSelection
<1> DEFINE Made ==
      \A u \in updates :
          u.stage = "sent" /\ u \notin updates' /\ links' # links /\ u.main = main
          /\ sameIdName /\ ~jumped /\ unseen = {} =>
             /\ {i \in Rows : <<main, i>> \in links'} = u.wanted
             /\ Bidirectional => {i \in Rows : <<i, main>> \in links'} = u.wanted
<1>1. SaveInv /\ [Next]_vars => Made
  <2> SUFFICES ASSUME SaveInv, [Next]_vars, NEW u \in updates, u.stage = "sent", u \notin updates', links' # links,
                      u.main = main, Undisturbed
               PROVE  /\ {i \in Rows : <<main, i>> \in links'} = u.wanted
                      /\ Bidirectional => {i \in Rows : <<i, main>> \in links'} = u.wanted
    BY DEF Undisturbed
  <2>1. ServeUpdate(u)
    BY OnlyServed
  <2>2. links' = LinksAfter(u) /\ main' = main
    BY <2>1 DEF ServeUpdate, choices
  <2>3. Touches(main, u) # {}
    BY DEF SaveInv, SomeChange, Touches, LinkedBy
  <2>4. Saving(u)
    BY <2>3 DEF SaveInv, NoneOfOurs, OneOfOurs
  <2> QED
    BY <2>2, <2>4, SavedLinks DEF SaveInv
<1>2. Spec => []SaveInv
  BY TypeCorrect, SaveInit, SaveStep, PTL DEF Spec
<1> QED
  BY <1>1, <1>2, PTL DEF Spec, UpdateMakesSelection
=============================================================================
