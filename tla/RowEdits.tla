------------------------------ MODULE RowEdits ------------------------------
(***************************************************************************)
(* From a row on the screen to the rows a statement changes: the table     *)
(* page and the row form of the client (TableViewManager, DataTable,       *)
(* RowPage, RowForm), the keys and filters they make of a row (dataRow.ts, *)
(* data.ts), and the UPDATE, DELETE and INSERT those filters reach.  Each  *)
(* session holds rows as they were when its page was loaded.               *)
(***************************************************************************)
EXTENDS Naturals, Sequences, FiniteSets, Functions

CONSTANTS
    Sessions,     \* browser tabs, each with its own page
    KeyOrder,     \* the primary key's columns, in the order of the table
    Fields,       \* the other columns
    Values,       \* what a column may hold; 0 stands for 0, false and ""
    InitialRows,  \* the rows of the table at the start
    ViewChoices,  \* the columns the table view may be set to show
    PageKeys,     \* the keys that an offset, a limit and filters may leave
    Inputs,       \* what users enter in a form: pairs of a column and a value
    MaxRequests,  \* bound: writes sent in a behaviour
    MaxMoves,     \* bound: pages opened in a behaviour
    None          \* no row, no request

KeyColumns == Range(KeyOrder)
Columns    == KeyColumns \union Fields
Rows       == [Columns -> Values]
Partial(C) == UNION {[D -> Values] : D \in SUBSET C}
Falsy      == 0

Key(r) == [c \in KeyColumns |-> r[c]]
DistinctKeys(R) == \A r, t \in R : Key(r) = Key(t) => r = t

ASSUME ColumnsAssumption ==
    /\ KeyOrder \in Seq(KeyColumns) /\ KeyColumns \intersect Fields = {}
    /\ ViewChoices \subseteq SUBSET Columns /\ Inputs \subseteq Columns \X Values
ASSUME ValuesAssumption == Values \subseteq Nat
ASSUME RowsAssumption == InitialRows \subseteq Rows /\ DistinctKeys(InitialRows)
ASSUME BoundAssumption == MaxRequests \in Nat /\ MaxMoves \in Nat
ASSUME NoneAssumption == None \notin Rows

VARIABLES
    rows,        \* the table in the database
    viewColumns, \* settings.tableViewSelectColumns
    page,        \* where each session is: "table", "insert" or "update"
    view,        \* the rows its table page was loaded with, whole
    selected,    \* selectedRowsKeys
    link,        \* the filter in the address of its row page
    shown,       \* the row its form was loaded with, or None
    updated,     \* updatedRow: the columns edited in the form
    request,     \* the write it has sent and not seen answered, or None
    sent, moves, \* counters of the bounds
    ticked,      \* auxiliary: the keys of the rows the user has ticked
    clicked      \* auxiliary: the key of the row the user opened, or None

session == <<page, view, selected, link, shown, updated>>
aux     == <<ticked, clicked>>
vars    == <<rows, viewColumns, session, request, sent, moves, aux>>

-----------------------------------------------------------------------------
(* lib/dataRow.ts and api/data.ts: keys and filters.                       *)

\* A key column whose value is falsy, or that was not selected, is left out.
pKeys(r) ==
    [c \in {k \in KeyColumns \intersect DOMAIN r : r[k] # Falsy} |-> r[c]]

\* The n-th of a set of positions.
Nth(S, n) == CHOOSE i \in S : Cardinality({j \in S : j <= i}) = n

\* The values that were kept, joined: their columns are no longer told apart.
uniqueKey(r) ==
    LET pk   == pKeys(r)
        kept == {i \in DOMAIN KeyOrder : KeyOrder[i] \in DOMAIN pk}
    IN  [n \in 1..Cardinality(kept) |-> pk[KeyOrder[Nth(kept, n)]]]

\* WHERE col=val AND ...; no condition at all when the filter is empty.
Matches(r, filter) == \A c \in DOMAIN filter : r[c] = filter[c]
Matching(filter)   == {r \in rows : Matches(r, filter)}

\* What the table view has of a row.
Visible(r) == [c \in viewColumns |-> r[c]]
viewKey(r) == uniqueKey(Visible(r))

\* The key cannot be written as a filter: it holds a falsy value, or the view
\* does not show all of it.
Loose(k)       == \E c \in KeyColumns : k[c] = Falsy
LooseInView(k) == Loose(k) \/ ~(KeyColumns \subseteq viewColumns)

\* The key React gives the form: a new key mounts a new form.
formKey(r) == IF r = None THEN None ELSE uniqueKey(r)

NoEdits == [c \in {} |-> Falsy]

-----------------------------------------------------------------------------
(* The table page.                                                         *)

\* A user leaves a page only when no answer is awaited there.
Idle(s) == request[s] = None
At(s, pages) == page[s] \in pages /\ Idle(s)
Moves == moves < MaxMoves /\ moves' = moves + 1

\* TablePage's loader, with some filters and offset.
ShowsPage(s) ==
    \E keys \in PageKeys : view' = [view EXCEPT ![s] = {r \in rows : Key(r) \in keys}]

OpenTable(s) ==
    /\ At(s, {"insert", "update"}) /\ Moves
    /\ page' = [page EXCEPT ![s] = "table"]
    /\ ShowsPage(s)
    /\ selected' = [selected EXCEPT ![s] = {}]
    /\ ticked' = [ticked EXCEPT ![s] = {}]
    /\ shown' = [shown EXCEPT ![s] = None]
    /\ updated' = [updated EXCEPT ![s] = NoEdits]
    /\ clicked' = [clicked EXCEPT ![s] = None]
    /\ link' = [link EXCEPT ![s] = NoEdits]
    /\ UNCHANGED <<rows, viewColumns, request, sent>>

\* Another page, filter or order: the same component, so the selection stays.
onRowsParamsChange(s) ==
    /\ At(s, {"table"}) /\ Moves
    /\ ShowsPage(s)
    /\ UNCHANGED <<rows, viewColumns, page, selected, link, shown, updated, request, sent, aux>>

Chooses(s, keys, userKeys) ==
    /\ selected' = [selected EXCEPT ![s] = keys]
    /\ ticked' = [ticked EXCEPT ![s] = userKeys]
    /\ UNCHANGED <<rows, viewColumns, page, view, link, shown, updated, request, sent, moves, clicked>>

\* The checkbox of a row adds its key or takes it away, whatever else has it.
onRowSelect(s) ==
    /\ At(s, {"table"})
    /\ \E r \in view[s] :
          IF viewKey(r) \in selected[s]
          THEN Chooses(s, selected[s] \ {viewKey(r)}, ticked[s] \ {Key(r)})
          ELSE Chooses(s, selected[s] \union {viewKey(r)}, ticked[s] \union {Key(r)})

\* The box in the header: all the keys of this page and no others, or none.
onAllRowsSelect(s) ==
    /\ At(s, {"table"})
    /\ \/ view[s] # {} /\ Chooses(s, {viewKey(r) : r \in view[s]}, {Key(r) : r \in view[s]})
       \/ Chooses(s, {}, {})

Sends(s, kind, filters, fields, keys) ==
    /\ sent < MaxRequests /\ sent' = sent + 1
    /\ request' = [request EXCEPT ![s] =
          [kind |-> kind, filters |-> filters, fields |-> fields, keys |-> keys,
           answer |-> "none", row |-> None]]

DeletedWithoutView(s) == \* mutant: the keys left from other pages are sent too
    {pKeys(Visible(r)) : r \in {t \in rows : viewKey(t) \in selected[s]}}

\* Of the selected keys, those of the rows on the page.
DeletedFilters(s) ==
    {pKeys(Visible(r)) : r \in {t \in view[s] : viewKey(t) \in selected[s]}}

\* The button is there when anything is selected, shown or not.
onDeleteSelected(s) ==
    /\ At(s, {"table"}) /\ selected[s] # {}
    /\ Sends(s, "delete", DeletedFilters(s), NoEdits,
             {Key(r) : r \in {t \in view[s] : Key(t) \in ticked[s] /\ viewKey(t) \in selected[s]}})
    /\ UNCHANGED <<rows, viewColumns, session, moves, aux>>

-----------------------------------------------------------------------------
(* The row page and its form.                                              *)

LoadsSome(filter) == \* mutant: a row that is not found gives another
    IF Matching(filter) = {} THEN {None} \union rows ELSE Matching(filter)

\* GetFormView: LIMIT 1 with no order, or no row.
Loads(filter) == IF Matching(filter) = {} THEN {None} ELSE Matching(filter)

ShowsEdits(s, r, before) == \* mutant: the form takes its edits for the row
    /\ shown' = [shown EXCEPT ![s] = IF r = None THEN None ELSE updated[s]]
    /\ updated' = [updated EXCEPT ![s] = NoEdits]

\* The form goes on with its edits unless the loaded row has another key.
ShowsRow(s, r, before) ==
    /\ shown' = [shown EXCEPT ![s] = r]
    /\ updated' = [updated EXCEPT ![s] = IF formKey(r) = before THEN @ ELSE NoEdits]

\* Clicking a row of the table: updateLink, then RowPage's loader.
openEditRow(s) ==
    /\ At(s, {"table"}) /\ Moves
    /\ page' = [page EXCEPT ![s] = "update"]
    /\ \E r \in view[s] :
          /\ link' = [link EXCEPT ![s] = pKeys(Visible(r))]
          /\ clicked' = [clicked EXCEPT ![s] = Key(r)]
          /\ \E t \in Loads(pKeys(Visible(r))) : shown' = [shown EXCEPT ![s] = t]
    /\ view' = [view EXCEPT ![s] = {}]
    /\ selected' = [selected EXCEPT ![s] = {}]
    /\ ticked' = [ticked EXCEPT ![s] = {}]
    /\ UNCHANGED <<rows, viewColumns, updated, request, sent>>

openInsertRow(s) ==
    /\ At(s, {"table"}) /\ Moves
    /\ page' = [page EXCEPT ![s] = "insert"]
    /\ view' = [view EXCEPT ![s] = {}]
    /\ selected' = [selected EXCEPT ![s] = {}]
    /\ ticked' = [ticked EXCEPT ![s] = {}]
    /\ UNCHANGED <<rows, viewColumns, link, shown, updated, request, sent, clicked>>

\* An input's onChange; the form takes edits while a save is under way too.
setUpdatedRow(s) ==
    /\ page[s] \in {"insert", "update"}
    /\ \E edit \in Inputs :
          updated' = [updated EXCEPT ![s] =
             [c \in DOMAIN @ \union {edit[1]} |-> IF c = edit[1] THEN edit[2] ELSE @[c]]]
    /\ UNCHANGED <<rows, viewColumns, page, view, selected, link, shown, request, sent, moves, aux>>

SavedWhole(s)  == \* mutant: the whole row as it was loaded is sent with the edits
    [c \in Columns |-> IF c \in DOMAIN updated[s] THEN updated[s][c]
                       ELSE IF shown[s] = None THEN Falsy ELSE shown[s][c]]

SavedFields(s) == updated[s]

\* saveChanges is enabled by canSave; an update without a row returns early.
saveChanges(s) ==
    /\ At(s, {"insert", "update"}) /\ updated[s] # NoEdits
    /\ \/ page[s] = "insert" /\ Sends(s, "insert", {}, SavedFields(s), {})
       \/ /\ page[s] = "update" /\ shown[s] # None
          /\ Sends(s, "update", {pKeys(shown[s])}, SavedFields(s), {Key(shown[s])})
    /\ UNCHANGED <<rows, viewColumns, session, moves, aux>>

-----------------------------------------------------------------------------
(* The server: core/data_service.go, one statement per request.            *)

Merge(r, fields) == [c \in Columns |-> IF c \in DOMAIN fields THEN fields[c] ELSE r[c]]

Answered(s, how, row) == request' = [request EXCEPT ![s].answer = how, ![s].row = row]

\* The answer of a statement that ran may be lost; the client shows an error.
AnsweredOrLost(s, row) == Answered(s, "ok", row) \/ Answered(s, "error", None)

UpdateRowsOfTable(s) == \* mutant: the filter is not applied
    LET q == request[s]
        changed == {Merge(r, q.fields) : r \in rows}
    IN
    /\ q.kind = "update"
    /\ IF Cardinality(changed) = Cardinality(rows) /\ DistinctKeys(changed)
       THEN rows' = changed /\ AnsweredOrLost(s, None)
       ELSE rows' = rows /\ Answered(s, "error", None)

\* The keys of the result must be distinct, or the statement fails.
UpdateRows(s) ==
    LET q == request[s]
        matched == UNION {Matching(f) : f \in q.filters}
        changed == (rows \ matched) \union {Merge(r, q.fields) : r \in matched}
    IN
    /\ q.kind = "update"
    /\ IF Cardinality(changed) = Cardinality(rows) /\ DistinctKeys(changed)
       THEN rows' = changed /\ AnsweredOrLost(s, None)
       ELSE rows' = rows /\ Answered(s, "error", None)

\* No filter at all is refused; an empty one among others is a syntax error.
DeleteRows(s) ==
    LET q == request[s] IN
    /\ q.kind = "delete"
    /\ IF q.filters # {} /\ NoEdits \notin q.filters
       THEN /\ rows' = rows \ UNION {Matching(f) : f \in q.filters}
            /\ AnsweredOrLost(s, None)
       ELSE rows' = rows /\ Answered(s, "error", None)

\* A column that is not given takes its default: of a key, one not in use.
InsertRow(s) ==
    LET q == request[s] IN
    /\ q.kind = "insert"
    /\ \/ \E r \in Rows :
             /\ Merge(r, q.fields) = r /\ DistinctKeys(rows \union {r}) /\ r \notin rows
             /\ \A c \in Fields \ DOMAIN q.fields : r[c] = Falsy
             /\ rows' = rows \union {r}
             /\ AnsweredOrLost(s, r)
       \/ rows' = rows /\ Answered(s, "error", None)

\* The statement runs, or the request fails before it does.
Serve(s) ==
    /\ ~Idle(s) /\ request[s].answer = "none"
    /\ \/ UpdateRows(s) \/ DeleteRows(s) \/ InsertRow(s)
       \/ rows' = rows /\ Answered(s, "error", None)
    /\ UNCHANGED <<viewColumns, session, sent, moves, aux>>

-----------------------------------------------------------------------------
(* The client receives an answer.                                          *)

Receives(s, kind, how) ==
    /\ ~Idle(s) /\ request[s].kind = kind /\ request[s].answer = how
    /\ request' = [request EXCEPT ![s] = None]

\* An alert, and everything stays as it was.
ShowError(s) ==
    /\ \E kind \in {"update", "delete", "insert"} : Receives(s, kind, "error")
    /\ UNCHANGED <<rows, viewColumns, session, sent, moves, aux>>

\* The selection is emptied, the keys that were not on the page included.
DeleteDone(s) ==
    /\ Receives(s, "delete", "ok")
    /\ selected' = [selected EXCEPT ![s] = {}]
    /\ ticked' = [ticked EXCEPT ![s] = {}]
    /\ ShowsPage(s)
    /\ UNCHANGED <<rows, viewColumns, page, link, shown, updated, sent, moves, clicked>>

\* onRowUpdate of an update: the loader runs again on the same address.
UpdateDone(s) ==
    /\ Receives(s, "update", "ok")
    /\ \E r \in Loads(link[s]) : ShowsRow(s, r, formKey(shown[s]))
    /\ UNCHANGED <<rows, viewColumns, page, view, selected, link, sent, moves, aux>>

\* onRowUpdate of an insert: to the update page of the row that was answered.
InsertDone(s) ==
    /\ Receives(s, "insert", "ok")
    /\ page' = [page EXCEPT ![s] = "update"]
    /\ link' = [link EXCEPT ![s] = pKeys(request[s].row)]
    /\ clicked' = [clicked EXCEPT ![s] = Key(request[s].row)]
    /\ \E r \in Loads(pKeys(request[s].row)) : ShowsRow(s, r, None)
    /\ UNCHANGED <<rows, viewColumns, view, selected, sent, moves, ticked>>

-----------------------------------------------------------------------------
Init ==
    /\ rows = InitialRows
    /\ viewColumns \in ViewChoices
    /\ page = [s \in Sessions |-> "table"]
    /\ view = [s \in Sessions |-> InitialRows]
    /\ selected = [s \in Sessions |-> {}]
    /\ link = [s \in Sessions |-> NoEdits]
    /\ shown = [s \in Sessions |-> None]
    /\ updated = [s \in Sessions |-> NoEdits]
    /\ request = [s \in Sessions |-> None]
    /\ sent = 0 /\ moves = 0
    /\ ticked = [s \in Sessions |-> {}]
    /\ clicked = [s \in Sessions |-> None]

Next ==
    \E s \in Sessions :
        \/ OpenTable(s) \/ onRowsParamsChange(s)
        \/ onRowSelect(s) \/ onAllRowsSelect(s) \/ onDeleteSelected(s)
        \/ openEditRow(s) \/ openInsertRow(s) \/ setUpdatedRow(s) \/ saveChanges(s)
        \/ Serve(s)
        \/ ShowError(s) \/ DeleteDone(s) \/ UpdateDone(s) \/ InsertDone(s)

Spec == Init /\ [][Next]_vars

-----------------------------------------------------------------------------
(* Correctness.                                                            *)

RequestType ==
    [kind : {"update", "delete", "insert"}, filters : SUBSET Partial(KeyColumns),
     fields : Partial(Columns), keys : SUBSET [KeyColumns -> Values],
     answer : {"none", "ok", "error"}, row : Rows \union {None}]

\* Every variable has its type, and the table never holds a key twice.
TypeOK ==
    /\ rows \subseteq Rows /\ DistinctKeys(rows)
    /\ viewColumns \in ViewChoices
    /\ page \in [Sessions -> {"table", "insert", "update"}]
    /\ view \in [Sessions -> SUBSET Rows]
    /\ DOMAIN selected = Sessions /\ DOMAIN request = Sessions
    /\ \A s \in Sessions : \A k \in selected[s] : \E r \in Rows : k = viewKey(r)
    /\ link \in [Sessions -> Partial(KeyColumns)]
    /\ shown \in [Sessions -> Rows \union {None}]
    /\ updated \in [Sessions -> Partial(Columns)]
    /\ \A s \in Sessions : request[s] = None \/ request[s] \in RequestType
    /\ sent \in 0..MaxRequests /\ moves \in 0..MaxMoves
    /\ ticked \in [Sessions -> SUBSET [KeyColumns -> Values]]
    /\ clicked \in [Sessions -> [KeyColumns -> Values] \union {None}]

\* In this step the server takes up a write of s and it changes the table.
Writes(s, kind) ==
    /\ ~Idle(s) /\ request[s].kind = kind /\ request[s].answer = "none"
    /\ request'[s] # request[s] /\ rows' # rows

KeysOf(R) == {Key(r) : r \in R}

\* A delete takes exactly the rows the user ticked and had on the page,
\* whatever other sessions did since the page was loaded (onDeleteSelected);
\* it may take others only when a key that was ticked cannot be written as a
\* filter.
DeletesWhatWasTicked ==
    [][\A s \in Sessions : Writes(s, "delete") =>
          /\ KeysOf(rows') \intersect request[s].keys = {}
          /\ rows' \subseteq rows
          /\ \/ KeysOf(rows \ rows') \subseteq request[s].keys
             \/ \E k \in ticked[s] : LooseInView(k)]_vars

\* A save changes no row but the one the form was loaded with, unless that
\* row's key has a falsy value (RowForm.update, DataService.UpdateRows).
EditsOnlyTheShownRow ==
    [][\A s \in Sessions : Writes(s, "update") =>
          \/ KeysOf(rows \ rows') \subseteq request[s].keys /\ Cardinality(rows') = Cardinality(rows)
          \/ \E k \in request[s].keys : Loose(k)]_vars

\* A save leaves the columns the user did not edit in this form as they are
\* in the table, whatever the form shows of them: two sessions that edit
\* different columns of one row both keep their changes.
UneditedColumnsKept ==
    [][\A s \in Sessions : Writes(s, "update") =>
          \A r \in rows' \ rows : \E old \in rows \ rows' :
              \A c \in Columns \ DOMAIN updated[s] : r[c] = old[c]]_vars

\* The form that opens for a row is that row's form, also after it was saved
\* and loaded again, unless the key was falsy or not shown in full.
FormShowsClickedRow ==
    \A s \in Sessions :
        page[s] = "update" /\ shown[s] # None /\ ~LooseInView(clicked[s]) =>
            Key(shown[s]) = clicked[s]
=============================================================================
