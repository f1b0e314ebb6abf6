---------------------------- MODULE RelationsPage ----------------------------
(***************************************************************************)
(* The page that edits the many-to-many relations of one row               *)
(* (routes/RelationsPage.tsx), with the search box and the pager it shares *)
(* with the table page (FiltersSearch, Pagination, ColumnSortable).  One   *)
(* administrator uses the page; others change the same links meanwhile.    *)
(* The page keeps three copies that are refreshed at different moments:    *)
(* the links as loaded, the links as selected, and the controls' values.   *)
(* The server's update is the one step RelationStore promises.             *)
(***************************************************************************)
EXTENDS Integers, Sequences, FiniteSets, SequencesExt

CONSTANTS
    Items,        \* the rows, as the sequence the table's default order gives
    Mains,        \* the rows whose relations are opened
    Found,        \* the rows that a search text matches
    Bidirectional, \* whether the relation's links are kept in both directions
    InitialLinks, \* the pairs linked at the start
    LimitInputs,  \* what is typed into the limit box: numbers, or NaN
    DefaultLimit, \* DefaultRowsParams.limit and DefaultPaginationLimit
    MaxLimit,     \* 500 in the code
    NaN,          \* Number() of what is not a number
    Undefined,    \* a column that the row does not have
    MaxOffset,    \* bound: the offset the pager may reach
    MaxEvents     \* bound: pages asked for, updates sent and others' changes

Rows == ToSet(Items)

ASSUME ItemsAssumption == Items \in Seq(Rows) /\ Mains \subseteq Rows /\ Found \subseteq Rows
ASSUME LinksAssumption ==
    /\ Bidirectional \in BOOLEAN /\ InitialLinks \subseteq Rows \X Rows
    /\ Bidirectional => \A m, i \in Rows : <<m, i>> \in InitialLinks => <<i, m>> \in InitialLinks
ASSUME LimitsAssumption == LimitInputs \subseteq Int \union {NaN} /\ MaxLimit \in Nat /\ DefaultLimit \in 1..MaxLimit
ASSUME BoundsAssumption == MaxOffset \in Nat /\ MaxEvents \in Nat

VARIABLES
    links,        \* the join table
    sameIdName,   \* whether the related table's id has the main table's name
    main,         \* mainTableRowId: the row the address is about
    initRelated,  \* initRelatedRows: the links the loader read last
    selected,     \* selectedRows
    rows,         \* the page of related rows below
    rowsParams,   \* the parameters it was asked with
    searches,     \* requests for other pages, not answered yet
    q, sqlMode,   \* the search box's own state
    pager,        \* the pager's own state
    updates,      \* the updates sent and not yet answered
    events,       \* counter of the bound
    touched,      \* auxiliary: rows the user selected or removed since opening
    unseen,       \* auxiliary: rows linked or unlinked without an answer here
    jumped,       \* auxiliary: the address changed under the open page
    overlapped,   \* auxiliary: a search was sent while another was under way
    typing,       \* auxiliary: text entered and not searched for
    searched      \* auxiliary: a search since the pager was last used

controls == <<rows, rowsParams, searches, q, sqlMode, pager>>
choices  == <<initRelated, selected, main>>
server   == <<links, updates>>
linkAux  == <<touched, unseen, jumped>>
viewAux  == <<overlapped, typing, searched>>
vars     == <<server, events, sameIdName, choices, controls, linkAux, viewAux>>

-----------------------------------------------------------------------------
(* What the server answers.                                                *)

\* One more of the events that a behaviour has a bounded number of.
Counted == events < MaxEvents /\ events' = events + 1

NoFilter == [text |-> FALSE, sql |-> FALSE]
DefaultRowsParams == [offset |-> 0, limit |-> DefaultLimit, sort |-> "none", filter |-> NoFilter]

\* paramsToURLSearchParams drops a zero and a NaN; the server then takes its
\* own default, as it does for a limit below 1.
ServedOffset(p) == IF p.offset = NaN THEN 0 ELSE p.offset
ServedLimit(p)  == IF p.limit = NaN THEN DefaultLimit ELSE p.limit

\* getTableView: the rows the filter leaves, in order, from the offset on.
getTableView(p) ==
    LET kept     == {n \in DOMAIN Items : p.filter = NoFilter \/ Items[n] \in Found}
        place(n) == Cardinality({k \in kept : IF p.sort = "desc" THEN k >= n ELSE k <= n})
    IN  {Items[n] : n \in {k \in kept : /\ place(k) > ServedOffset(p)
                                       /\ place(k) <= ServedOffset(p) + ServedLimit(p)}}

Related(m) == {i \in Rows : <<m, i>> \in links}

-----------------------------------------------------------------------------
(* The links: RelationsPage's selection and its difference to the loader's.*)

\* The ids are read by the name of the main table's id column.
Ids(S) == IF sameIdName THEN S ELSE IF S = {} THEN {} ELSE {Undefined}

addIds    == Ids(selected) \ Ids(initRelated)
deleteIds == Ids(initRelated) \ Ids(selected)

OpenedEmpty(m)     == {} \* mutant: the selection starts empty
OpenedSelection(m) == Related(m)

\* The rows whose link to m changes when the links of n to S do.
LinkedBy(m, n, S) == (IF m = n THEN S ELSE {}) \union (IF Bidirectional /\ m \in S THEN {n} ELSE {})

\* Updates of an earlier page may still be on their way to the server.
PendingFor(m) == UNION {LinkedBy(m, u.main, u.addIds \union u.deleteIds) : u \in updates}

\* The loader, and a new mount of the page with its controls.
Open(m) ==
    /\ main' = m
    /\ initRelated' = Related(m)
    /\ selected' = OpenedSelection(m)
    /\ rowsParams' = DefaultRowsParams /\ rows' = getTableView(DefaultRowsParams)
    /\ searches' = {}
    /\ q' = FALSE /\ sqlMode' = FALSE
    /\ pager' = [offset |-> 0, limit |-> DefaultLimit]
    /\ touched' = {} /\ unseen' = PendingFor(m) /\ jumped' = FALSE
    /\ overlapped' = FALSE /\ typing' = FALSE /\ searched' = FALSE
    /\ UNCHANGED <<events, server, sameIdName>>

\* The browser's history leads from one row's relations to another's: one
\* route, so the loader runs and the component keeps its state.
Jump(m) ==
    /\ m # main /\ main' = m
    /\ initRelated' = Related(m)
    /\ jumped' = TRUE
    /\ UNCHANGED <<events, server, sameIdName, selected, controls, touched, unseen, viewAux>>

\* The checkbox of a row on the page, or the cross of a selected one.
onRowSelect(i) ==
    /\ i \in rows \union selected
    /\ selected' = IF i \in selected THEN selected \ {i} ELSE selected \union {i}
    /\ touched' = touched \union {i}
    /\ UNCHANGED <<events, server, sameIdName, initRelated, main, controls, unseen, jumped, viewAux>>

Update(stage) ==
    [n |-> events, main |-> main, addIds |-> addIds, deleteIds |-> deleteIds,
     wanted |-> selected, stage |-> stage]

\* The button stays enabled while an update is under way.
onUpdate ==
    /\ addIds \union deleteIds # {}
    /\ Counted
    /\ updates' = updates \union {Update("sent")}
    /\ unseen' = IF updates = {} THEN unseen ELSE unseen \union addIds \union deleteIds
    /\ UNCHANGED <<links, sameIdName, choices, controls, touched, jumped, viewAux>>

OneWay(m, S)    == {m} \X S
LinkPairs(m, S) == OneWay(m, S) \union (IF Bidirectional THEN S \X {m} ELSE {})

LinksOneWay(u) == \* mutant: only this direction is deleted
    (links \ OneWay(u.main, u.deleteIds)) \union LinkPairs(u.main, u.addIds)

\* An id that is undefined deletes nothing.
LinksAfter(u) ==
    (links \ LinkPairs(u.main, u.deleteIds)) \union LinkPairs(u.main, u.addIds)

Staged(u, stage) == updates' = (updates \ {u}) \union {[u EXCEPT !.stage = stage]}

\* The update commits and its answer arrives or is lost; or it fails: an
\* undefined id is sent as null, which the join table refuses.
ServeUpdate(u) ==
    /\ u.stage = "sent"
    /\ \/ /\ Undefined \notin u.addIds
          /\ links' = LinksAfter(u)
          /\ \/ Staged(u, "ok") /\ unseen' = unseen
             \/ /\ Staged(u, "error")
                /\ unseen' = unseen \union LinkedBy(main, u.main, u.addIds \union u.deleteIds)
       \/ links' = links /\ Staged(u, "error") /\ unseen' = unseen
    /\ UNCHANGED <<events, sameIdName, choices, controls, touched, jumped, viewAux>>

\* Success runs the loader again: the selection is not loaded with it.
UpdateAnswered(u) ==
    /\ u.stage \in {"ok", "error"}
    /\ updates' = updates \ {u}
    /\ initRelated' = IF u.stage = "ok" THEN Related(main) ELSE initRelated
    /\ UNCHANGED <<events, links, sameIdName, selected, main, controls, linkAux, viewAux>>

\* Another administrator links or unlinks two rows, from either one's page.
OtherUpdate(m, i) ==
    /\ Counted
    /\ links' = IF <<m, i>> \in links THEN links \ LinkPairs(m, {i}) ELSE links \union LinkPairs(m, {i})
    /\ unseen' = unseen \union LinkedBy(main, m, {i})
    /\ UNCHANGED <<updates, sameIdName, choices, controls, touched, jumped, viewAux>>

-----------------------------------------------------------------------------
(* The rows below: each control sends the parameters of the last answer    *)
(* with its own part changed.                                              *)

Requests(p) ==
    /\ Counted
    /\ searches' = searches \union {p}
    /\ overlapped' = (overlapped \/ searches # {})

\* FiltersSearch: onSearch(text, mode) as RelationsPage passes it.
onSearch(text, mode) ==
    /\ Requests([rowsParams EXCEPT !.offset = 0,
                                   !.filter = [text |-> text /\ ~mode, sql |-> text /\ mode]])
    /\ typing' = FALSE /\ searched' = TRUE

\* Text is typed: nothing is sent until it is entered, or emptied again.
typeText ==
    /\ ~q /\ q' = TRUE /\ typing' = TRUE
    /\ UNCHANGED <<events, server, sameIdName, choices, linkAux, rows, rowsParams, searches, sqlMode,
                   pager, overlapped, searched>>

\* The Escape key of the SQL input empties it even when it is empty.
clearText ==
    /\ q \/ sqlMode
    /\ q' = FALSE /\ onSearch(FALSE, sqlMode)
    /\ UNCHANGED <<server, sameIdName, choices, linkAux, rows, rowsParams, sqlMode, pager>>

toggleModeSilently == \* mutant: the text is cleared without a search
    /\ sqlMode' = ~sqlMode /\ q' = FALSE
    /\ UNCHANGED <<events, server, sameIdName, choices, linkAux, rows, rowsParams, searches, pager, viewAux>>

\* onSearch is called with the mode before the switch.
toggleMode ==
    /\ sqlMode' = ~sqlMode /\ q' = FALSE /\ onSearch(FALSE, sqlMode)
    /\ UNCHANGED <<server, sameIdName, choices, linkAux, rows, rowsParams, pager>>

\* The Filter button and the Enter key of either input.
submitFilter ==
    /\ onSearch(q, sqlMode)
    /\ UNCHANGED <<server, sameIdName, choices, linkAux, rows, rowsParams, q, sqlMode, pager>>

Minus(a, b) == IF NaN \in {a, b} THEN NaN ELSE a - b
Plus(a, b)  == IF NaN \in {a, b} THEN NaN ELSE a + b

PagerKeeps(offset, limit) == \* mutant: the values are sent and not kept
    /\ Requests([rowsParams EXCEPT !.offset = offset, !.limit = limit])
    /\ searched' = FALSE
    /\ UNCHANGED <<server, sameIdName, choices, linkAux, rows, rowsParams, q, sqlMode, pager, typing>>

\* Pagination: its own values change and are sent together.
PagerSends(offset, limit) ==
    /\ pager' = [offset |-> offset, limit |-> limit]
    /\ Requests([rowsParams EXCEPT !.offset = offset, !.limit = limit])
    /\ searched' = FALSE
    /\ UNCHANGED <<server, sameIdName, choices, linkAux, rows, rowsParams, q, sqlMode, typing>>

previousPage ==
    /\ pager.offset # 0
    /\ LET back == Minus(pager.offset, pager.limit) IN
       PagerSends(IF back # NaN /\ back < 0 THEN 0 ELSE back, pager.limit)

nextPage ==
    /\ LET on == Plus(pager.offset, pager.limit) IN
       /\ IF on = NaN THEN TRUE ELSE on <= MaxOffset
       /\ PagerSends(on, pager.limit)

CappedLimit(typed) == \* mutant: the limit has no lower bound
    IF typed = NaN THEN NaN ELSE IF typed > MaxLimit THEN MaxLimit ELSE typed

\* A number is kept within 1..500; NaN passes both comparisons.
KeptLimit(typed) ==
    IF typed = NaN THEN NaN ELSE IF typed > MaxLimit THEN MaxLimit ELSE IF typed < 1 THEN 1 ELSE typed

enterLimit == \E typed \in LimitInputs : PagerSends(pager.offset, KeptLimit(typed))

enterOffset == \E typed \in {-1, 1} : PagerSends(IF typed < 0 THEN 0 ELSE typed, pager.limit)

refresh == PagerSends(pager.offset, pager.limit)

\* ColumnSortable: descending first, then the two in turn.
onSortChange ==
    /\ Requests([rowsParams EXCEPT !.sort = IF @ = "desc" THEN "asc" ELSE "desc"])
    /\ UNCHANGED <<server, sameIdName, choices, linkAux, rows, rowsParams, q, sqlMode, pager,
                   typing, searched>>

\* Answers arrive in any order; one that failed shows no rows.
onRowsParamsChange ==
    \E p \in searches :
        /\ searches' = searches \ {p}
        /\ rowsParams' = p
        /\ rows' \in {getTableView(p), {}}
        /\ UNCHANGED <<events, server, sameIdName, choices, linkAux, q, sqlMode, pager, viewAux>>

-----------------------------------------------------------------------------
Init ==
    /\ links = InitialLinks
    /\ sameIdName \in BOOLEAN
    /\ main \in Mains
    /\ initRelated = Related(main)
    /\ selected = OpenedSelection(main)
    /\ rowsParams = DefaultRowsParams /\ rows = getTableView(DefaultRowsParams)
    /\ searches = {}
    /\ q = FALSE /\ sqlMode = FALSE
    /\ pager = [offset |-> 0, limit |-> DefaultLimit]
    /\ updates = {} /\ events = 0
    /\ touched = {} /\ unseen = {} /\ jumped = FALSE
    /\ overlapped = FALSE /\ typing = FALSE /\ searched = FALSE

Controls ==
    \/ typeText \/ clearText \/ toggleMode \/ submitFilter
    \/ previousPage \/ nextPage \/ enterLimit \/ enterOffset \/ refresh
    \/ onSortChange \/ onRowsParamsChange

Links ==
    \/ \E m \in Mains : Open(m) \/ Jump(m)
    \/ \E i \in Rows : onRowSelect(i)
    \/ onUpdate
    \/ \E u \in updates : ServeUpdate(u) \/ UpdateAnswered(u)
    \/ \E m \in Mains, i \in Rows : OtherUpdate(m, i)

Next == Controls \/ Links

Spec == Init /\ [][Next]_vars

-----------------------------------------------------------------------------
(* Correctness.                                                            *)

ParamsType ==
    [offset : Nat \union {NaN}, limit : 1..MaxLimit \union {NaN}, sort : {"none", "asc", "desc"},
     filter : [text : BOOLEAN, sql : BOOLEAN]]

\* Every variable has its type; a filter is never of both kinds.
TypeOK ==
    /\ links \subseteq Rows \X Rows
    /\ sameIdName \in BOOLEAN /\ main \in Mains
    /\ initRelated \subseteq Rows /\ selected \subseteq Rows /\ rows \subseteq Rows
    /\ rowsParams \in ParamsType /\ searches \subseteq ParamsType
    /\ \A p \in searches \union {rowsParams} : ~(p.filter.text /\ p.filter.sql)
    /\ q \in BOOLEAN /\ sqlMode \in BOOLEAN
    /\ pager.offset \in Nat \union {NaN} /\ pager.limit \in 1..MaxLimit \union {NaN}
    /\ \A u \in updates : u.n \in 0..events /\ u.stage \in {"sent", "ok", "error"}
    /\ events \in 0..MaxEvents

\* What the Update button is about to do to a link is what the user did on
\* this page or undoes a change the page was not told of, such as another
\* administrator's (the selection is not loaded again after a save), unless
\* the page was left for another row's through the browser's history.
ChangesAreOwnOrUnseen ==
    sameIdName /\ ~jumped => addIds \union deleteIds \subseteq touched \union unseen

\* If nothing changed the row's links since the page was opened but updates
\* each answered before the next was sent, an update leaves the row linked to
\* exactly the rows that were selected, from both ends if the relation is
\* bidirectional, whatever was selected and removed before (onUpdate, updateRelatedRows).  An answer that is lost,
\* or a second click on the button, leaves initRelatedRows stale.
UpdateMakesSelection ==
    [][\A u \in updates :
          u.stage = "sent" /\ u \notin updates' /\ links' # links /\ u.main = main
          /\ sameIdName /\ ~jumped /\ unseen = {} =>
             /\ {i \in Rows : <<main, i>> \in links'} = u.wanted
             /\ Bidirectional => {i \in Rows : <<i, main>> \in links'} = u.wanted]_vars

\* With no request under way, the rows are filtered as the search box says,
\* unless its text was not entered or two requests were once under way
\* together and may have been answered out of order.
FilterShownIsApplied ==
    searches = {} /\ ~overlapped /\ ~typing =>
        rowsParams.filter = [text |-> q /\ ~sqlMode, sql |-> q /\ sqlMode]

\* And they are the page the pager shows, unless a search, which goes back to
\* the first page without telling the pager, came after its last use.
PagerShownIsApplied ==
    searches = {} /\ ~overlapped /\ ~searched =>
        pager = [offset |-> rowsParams.offset, limit |-> rowsParams.limit]
=============================================================================
