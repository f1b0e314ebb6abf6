--------------------------- MODULE RowEditsProofs ---------------------------
(***************************************************************************)
(* Proofs about RowEdits, for every table, key, page, view, input and      *)
(* number of sessions.                                                     *)
(***************************************************************************)
EXTENDS RowEdits, FiniteSetTheorems, TLAPS

Keys == [KeyColumns -> Values]

-----------------------------------------------------------------------------
(* Keys and filters.                                                       *)

\* The key of a row has a value in each key column.
LEMMA KeyType ==
    ASSUME NEW r \in Rows
    PROVE  Key(r) \in Keys
  BY DEF Rows, Columns, Key, Keys

\* What the view has of a row is a row of the columns it shows.
LEMMA VisibleType ==
    ASSUME TypeOK, NEW r \in Rows
    PROVE  viewColumns \subseteq Columns /\ Visible(r) \in [viewColumns -> Values]
<1>1. viewColumns \subseteq Columns
  BY ColumnsAssumption DEF TypeOK
<1> QED
  BY <1>1 DEF Rows, Visible

\* A filter names key columns only (dataRow.ts:37-51).
LEMMA PKeysType ==
    ASSUME NEW D \in SUBSET Columns, NEW r \in [D -> Values]
    PROVE  pKeys(r) \in Partial(KeyColumns)
<1>1. PICK E : E = {k \in KeyColumns \intersect DOMAIN r : r[k] # Falsy}
  OBVIOUS
<1>2. E \in SUBSET KeyColumns /\ \A c \in E : r[c] \in Values
  BY <1>1
<1>3. pKeys(r) = [c \in E |-> r[c]]
  BY <1>1 DEF pKeys
<1>4. pKeys(r) \in [E -> Values]
  BY <1>2, <1>3
<1> QED
  BY <1>2, <1>4 DEF Partial

\* The filter of a whole row, and of what the view has of it.
LEMMA FilterType ==
    ASSUME TypeOK, NEW r \in Rows
    PROVE  pKeys(r) \in Partial(KeyColumns) /\ pKeys(Visible(r)) \in Partial(KeyColumns)
<1>1. pKeys(r) \in Partial(KeyColumns)
  BY PKeysType DEF Rows
<1>2. pKeys(Visible(r)) \in Partial(KeyColumns)
  BY VisibleType, PKeysType
<1> QED
  BY <1>1, <1>2

\* An update gives a row.
LEMMA MergeType ==
    ASSUME NEW r \in Rows, NEW f \in Partial(Columns)
    PROVE  Merge(r, f) \in Rows
<1>1. PICK D \in SUBSET Columns : f \in [D -> Values]
  BY DEF Partial
<1> QED
  BY <1>1 DEF Merge, Rows

\* An update that is made twice changes nothing the second time.
LEMMA MergeTwice ==
    ASSUME NEW r, NEW f
    PROVE  Merge(Merge(r, f), f) = Merge(r, f)
  BY DEF Merge

\* The filter of a row holds for every row with that key.
LEMMA FilterReachesKey ==
    ASSUME NEW r, NEW t, Key(r) = Key(t)
    PROVE  Matches(r, pKeys(t)) /\ Matches(r, pKeys(Visible(t)))
<1>1. \A c \in KeyColumns : r[c] = t[c]
  BY DEF Key
<1>2. Matches(r, pKeys(t))
  BY <1>1 DEF Matches, pKeys
<1>3. Matches(r, pKeys(Visible(t)))
  BY <1>1 DEF Matches, pKeys, Visible
<1> QED
  BY <1>2, <1>3

\* Without falsy values the filter of a row is its key; that of what the view
\* has of it is, too, when the view shows all of the key.
LEMMA FilterIsKey ==
    ASSUME NEW r \in Rows, ~Loose(Key(r))
    PROVE  /\ pKeys(r) = Key(r)
           /\ KeyColumns \subseteq viewColumns => pKeys(Visible(r)) = Key(r)
<1>1. \A c \in KeyColumns : r[c] # Falsy
  BY DEF Loose, Key
<1>2. DOMAIN r = Columns
  BY DEF Rows
<1>3. {k \in KeyColumns \intersect DOMAIN r : r[k] # Falsy} = KeyColumns
  BY <1>1, <1>2 DEF Columns
<1>4. pKeys(r) = Key(r)
  BY <1>3 DEF pKeys, Key
<1>5. ASSUME KeyColumns \subseteq viewColumns
      PROVE  pKeys(Visible(r)) = Key(r)
  <2>1. \A c \in KeyColumns : Visible(r)[c] = r[c]
    BY <1>5 DEF Visible
  <2>2. {k \in KeyColumns \intersect DOMAIN Visible(r) : Visible(r)[k] # Falsy} = KeyColumns
    BY <1>1, <1>5, <2>1 DEF Visible
  <2>3. pKeys(Visible(r)) = [c \in KeyColumns |-> Visible(r)[c]]
    BY <2>2 DEF pKeys
  <2> QED
    BY <2>1, <2>3 DEF Key
<1> QED
  BY <1>4, <1>5

\* A filter that is a key reaches the rows with that key and no other.
LEMMA KeyReachesRow ==
    ASSUME NEW k \in Keys, NEW r, Matches(r, k)
    PROVE  Key(r) = k
  BY DEF Keys, Matches, Key

\* Rows with one key are one to the view.
LEMMA SameKey ==
    ASSUME NEW r, NEW t, Key(r) = Key(t)
    PROVE  viewKey(r) = viewKey(t) /\ pKeys(Visible(r)) = pKeys(Visible(t))
<1>1. \A c \in KeyColumns : r[c] = t[c]
  BY DEF Key
<1>2. DOMAIN Visible(r) = viewColumns /\ DOMAIN Visible(t) = viewColumns
  BY DEF Visible
<1>3. \A c \in KeyColumns \intersect viewColumns : Visible(r)[c] = Visible(t)[c]
  BY <1>1 DEF Visible
<1>4. pKeys(Visible(r)) = pKeys(Visible(t))
  BY <1>2, <1>3 DEF pKeys
<1> QED
  BY <1>4 DEF viewKey, uniqueKey

\* The positions up to n are the first n.
LEMMA NthPosition ==
    ASSUME NEW N \in Nat, NEW n \in 1..N
    PROVE  Nth(1..N, n) = n
<1>1. \A i \in 1..N : Cardinality({j \in 1..N : j <= i}) = i
  <2> SUFFICES ASSUME NEW i \in 1..N PROVE Cardinality({j \in 1..N : j <= i}) = i
    OBVIOUS
  <2>1. {j \in 1..N : j <= i} = 1..i
    OBVIOUS
  <2>2. Cardinality(1..i) = i
    BY FS_Interval
  <2> QED
    BY <2>1, <2>2
<1> QED
  BY <1>1 DEF Nth

\* A key that is shown in full and has no falsy value is told from all others
\* by its joined values, those that lost a value included (dataRow.ts:87-91).
LEMMA JoinedKeyTells ==
    ASSUME NEW r \in Rows, NEW t \in Rows, ~LooseInView(Key(r)), viewKey(r) = viewKey(t)
    PROVE  Key(t) = Key(r)
<1>1. KeyColumns \subseteq viewColumns /\ ~Loose(Key(r))
  BY DEF LooseInView
<1>2. PICK N \in Nat : DOMAIN KeyOrder = 1..N
  BY ColumnsAssumption
<1>3. KeyColumns = {KeyOrder[i] : i \in 1..N}
  BY <1>2 DEF KeyColumns, Range
<1>4. PICK p : p = pKeys(Visible(r))
  OBVIOUS
<1>5. PICK q : q = pKeys(Visible(t))
  OBVIOUS
<1>6. p = Key(r) /\ DOMAIN p = KeyColumns
  BY <1>1, <1>4, FilterIsKey DEF Key
<1>7. PICK kept : kept = {i \in 1..N : KeyOrder[i] \in DOMAIN q}
  OBVIOUS
<1>8. {i \in 1..N : KeyOrder[i] \in DOMAIN p} = 1..N
  BY <1>3, <1>6
<1>9. viewKey(r) = [n \in 1..Cardinality(1..N) |-> p[KeyOrder[Nth(1..N, n)]]]
  BY <1>2, <1>4, <1>8 DEF viewKey, uniqueKey
<1>10. viewKey(t) = [n \in 1..Cardinality(kept) |-> q[KeyOrder[Nth(kept, n)]]]
  BY <1>2, <1>5, <1>7 DEF viewKey, uniqueKey
<1>11. IsFiniteSet(1..N) /\ Cardinality(1..N) = N
  BY FS_Interval
<1>12. Cardinality(kept) \in Nat
  BY <1>7, <1>11, FS_Subset, FS_CardinalityType
<1>13. 1..N = 1..Cardinality(kept)
  BY <1>9, <1>10, <1>11
<1>14. Cardinality(kept) = N
  <2>1. PICK m \in Nat : m = Cardinality(kept)
    BY <1>12
  <2>2. \A i \in Int : i \in 1..N <=> i \in 1..m
    BY <1>13, <2>1
  <2>3. m <= N
    <3>1. m # 0 => m \in 1..N
      BY <2>1, <2>2
    <3> QED
      BY <3>1
  <2>4. N <= m
    <3>1. N # 0 => N \in 1..m
      BY <2>2
    <3> QED
      BY <3>1
  <2>5. m = N
    BY <1>2, <2>1, <2>3, <2>4
  <2> QED
    BY <2>1, <2>5
<1>15. kept = 1..N
  BY <1>7, <1>11, <1>14, FS_Subset
<1>16. \A n \in 1..N : p[KeyOrder[n]] = q[KeyOrder[n]]
  <2> SUFFICES ASSUME NEW n \in 1..N PROVE p[KeyOrder[n]] = q[KeyOrder[n]]
    OBVIOUS
  <2>1. Nth(1..N, n) = n
    BY NthPosition
  <2>2. viewKey(r)[n] = p[KeyOrder[n]]
    BY <1>9, <1>11, <2>1
  <2>3. viewKey(t)[n] = q[KeyOrder[n]]
    BY <1>10, <1>11, <1>15, <2>1
  <2> QED
    BY <2>2, <2>3
<1>17. \A c \in KeyColumns : c \in DOMAIN q /\ q[c] = p[c]
  BY <1>3, <1>7, <1>15, <1>16
<1>18. \A c \in KeyColumns : q[c] = t[c]
  BY <1>5, <1>17 DEF pKeys, Visible
<1> QED
  BY <1>6, <1>17, <1>18 DEF Key
-----------------------------------------------------------------------------
(* Types.                                                                  *)

\* The type invariant, in parts that a step changes together.
TableOK ==
    /\ rows \subseteq Rows /\ DistinctKeys(rows)
    /\ viewColumns \in ViewChoices
PagesOK ==
    /\ page \in [Sessions -> {"table", "insert", "update"}]
    /\ view \in [Sessions -> SUBSET Rows]
    /\ link \in [Sessions -> Partial(KeyColumns)]
    /\ shown \in [Sessions -> Rows \union {None}]
    /\ updated \in [Sessions -> Partial(Columns)]
    /\ ticked \in [Sessions -> SUBSET Keys]
    /\ clicked \in [Sessions -> Keys \union {None}]
SelectedOK ==
    /\ DOMAIN selected = Sessions
    /\ \A s \in Sessions : \A k \in selected[s] : \E r \in Rows : k = viewKey(r)
RequestsOK ==
    /\ DOMAIN request = Sessions
    /\ \A s \in Sessions : request[s] = None \/ request[s] \in RequestType
    /\ sent \in 0..MaxRequests /\ moves \in 0..MaxMoves

\* Together they are the type invariant.
LEMMA TypeParts == TypeOK <=> TableOK /\ PagesOK /\ SelectedOK /\ RequestsOK
  BY DEF TypeOK, TableOK, PagesOK, SelectedOK, RequestsOK, Keys

\* One step of a session.
Step(s) ==
    \/ OpenTable(s) \/ onRowsParamsChange(s)
    \/ onRowSelect(s) \/ onAllRowsSelect(s) \/ onDeleteSelected(s)
    \/ openEditRow(s) \/ openInsertRow(s) \/ setUpdatedRow(s) \/ saveChanges(s)
    \/ Serve(s)
    \/ ShowError(s) \/ DeleteDone(s) \/ UpdateDone(s) \/ InsertDone(s)

\* What a session sends has the type of a request.
LEMMA SentType ==
    ASSUME TypeOK, NEW s \in Sessions, NEW kind \in {"update", "delete", "insert"},
           NEW filters \in SUBSET Partial(KeyColumns), NEW fields \in Partial(Columns),
           NEW keys \in SUBSET Keys, Sends(s, kind, filters, fields, keys)
    PROVE  /\ request'[s].kind = kind /\ request'[s].filters = filters
           /\ request'[s].fields = fields /\ request'[s].keys = keys
           /\ request'[s].answer = "none" /\ request'[s] \in RequestType
           /\ DOMAIN request' = Sessions
           /\ \A t \in Sessions \ {s} : request'[t] = request[t]
           /\ sent' \in 0..MaxRequests
<1>1. PICK q : q = [kind |-> kind, filters |-> filters, fields |-> fields, keys |-> keys,
                    answer |-> "none", row |-> None]
  OBVIOUS
<1>2. q \in RequestType
  BY <1>1 DEF RequestType, Keys
<1>3. request' = [request EXCEPT ![s] = q] /\ DOMAIN request = Sessions
  BY <1>1 DEF Sends, TypeOK
<1>4. sent' \in 0..MaxRequests
  BY BoundAssumption DEF Sends, TypeOK
<1> QED
  BY <1>1, <1>2, <1>3, <1>4

\* An answer changes the answer of a request and the row it carries.
LEMMA AnswerType ==
    ASSUME TypeOK, NEW s \in Sessions, ~Idle(s), NEW how \in {"none", "ok", "error"},
           NEW row \in Rows \union {None}, Answered(s, how, row)
    PROVE  /\ request'[s].kind = request[s].kind /\ request'[s].filters = request[s].filters
           /\ request'[s].fields = request[s].fields /\ request'[s].keys = request[s].keys
           /\ request'[s].answer = how /\ request'[s].row = row /\ request'[s] \in RequestType
           /\ DOMAIN request' = Sessions
           /\ \A t \in Sessions \ {s} : request'[t] = request[t]
<1>1. request[s] \in RequestType /\ DOMAIN request = Sessions
  BY DEF TypeOK, Idle
<1>2. PICK q : q = [request[s] EXCEPT !.answer = how, !.row = row]
  OBVIOUS
<1>3. request' = [request EXCEPT ![s] = q]
  BY <1>1, <1>2 DEF Answered
<1>4. q \in RequestType
  BY <1>1, <1>2 DEF RequestType
<1>5. /\ q.kind = request[s].kind /\ q.filters = request[s].filters
      /\ q.fields = request[s].fields /\ q.keys = request[s].keys
      /\ q.answer = how /\ q.row = row
  BY <1>1, <1>2 DEF RequestType
<1> QED
  BY <1>1, <1>3, <1>4, <1>5

\* The rows after a statement are rows, and no two of them have one key.
LEMMA ServeFrom ==
    ASSUME TypeOK, NEW s \in Sessions, Serve(s)
    PROVE  /\ rows' \subseteq Rows /\ DistinctKeys(rows')
           /\ \E how \in {"ok", "error"}, row \in Rows \union {None} :
                 Answered(s, how, row) /\ (request[s].kind = "insert" /\ how = "ok" => row \in Rows)
<1>1. request[s] \in RequestType
  BY DEF Serve, Idle, TypeOK
<1>2. CASE UpdateRows(s)
  <2>1. PICK matched : matched = UNION {Matching(f) : f \in request[s].filters}
    OBVIOUS
  <2>2. PICK changed : changed = (rows \ matched) \union {Merge(r, request[s].fields) : r \in matched}
    OBVIOUS
  <2>3. matched \subseteq rows
    BY <2>1 DEF Matching
  <2>4. changed \subseteq Rows
    BY <1>1, <2>2, <2>3, MergeType DEF TypeOK, RequestType
  <2>5. \/ DistinctKeys(changed) /\ rows' = changed /\ AnsweredOrLost(s, None)
        \/ rows' = rows /\ Answered(s, "error", None)
    BY <1>2, <2>1, <2>2 DEF UpdateRows
  <2>6. request[s].kind # "insert"
    BY <1>2 DEF UpdateRows
  <2> QED
    BY <2>4, <2>5, <2>6 DEF TypeOK, AnsweredOrLost
<1>3. CASE DeleteRows(s)
  <2>1. request[s].kind # "insert"
    BY <1>3 DEF DeleteRows
  <2> QED
    BY <1>3, <2>1 DEF DeleteRows, TypeOK, DistinctKeys, AnsweredOrLost
<1>4. CASE InsertRow(s)
  <2>1. CASE rows' = rows /\ Answered(s, "error", None)
    BY <2>1 DEF TypeOK
  <2>2. ASSUME NEW r \in Rows, DistinctKeys(rows \union {r}), rows' = rows \union {r}, AnsweredOrLost(s, r)
        PROVE  /\ rows' \subseteq Rows /\ DistinctKeys(rows')
               /\ \E how \in {"ok", "error"}, row \in Rows \union {None} :
                     Answered(s, how, row) /\ (request[s].kind = "insert" /\ how = "ok" => row \in Rows)
    BY <2>2 DEF TypeOK, AnsweredOrLost
  <2> QED
    BY <1>4, <2>1, <2>2 DEF InsertRow
<1>5. CASE rows' = rows /\ Answered(s, "error", None)
  BY <1>5 DEF TypeOK
<1> QED
  BY <1>2, <1>3, <1>4, <1>5 DEF Serve
\* What a session's write says: the row the server answers an insert with, the
\* keys and filters of a delete, which the page and the selection still give,
\* and those of a save, which the row of the form still gives.
TickedKeys(s) == {Key(r) : r \in {t \in view[s] : Key(t) \in ticked[s] /\ viewKey(t) \in selected[s]}}
Sending(s) ==
    request[s] # None =>
        /\ request[s].kind = "insert" /\ request[s].answer = "ok" => request[s].row \in Rows
        /\ request[s].kind = "delete" =>
              request[s].filters = DeletedFilters(s) /\ request[s].keys = TickedKeys(s)
        /\ request[s].kind = "update" =>
              /\ shown[s] \in Rows
              /\ request[s].filters = {pKeys(shown[s])} /\ request[s].keys = {Key(shown[s])}
              /\ DOMAIN request[s].fields \subseteq DOMAIN updated[s]

\* A key is selected because a row that has it was ticked.
Selecting(s) ==
    \A k \in selected[s] : \E r \in Rows : Key(r) \in ticked[s] /\ k = viewKey(r)

\* The address of a form names the row that was opened, and the form shows it.
Linked(s) ==
    page[s] = "update" =>
        /\ clicked[s] \in Keys
        /\ ~LooseInView(clicked[s]) =>
              link[s] = clicked[s] /\ (shown[s] # None => Key(shown[s]) = clicked[s])

Local(s) == Sending(s) /\ Selecting(s) /\ Linked(s)

\* The inductive invariant: each session's state fits together.
IInv == TypeOK /\ \A s \in Sessions : Local(s)

\* A row that is loaded is a row of the table that the filter reaches.
LEMMA LoadsRow ==
    ASSUME TypeOK, NEW f, NEW r \in Loads(f)
    PROVE  r \in Rows \union {None} /\ (r # None => r \in Rows /\ Matches(r, f))
  BY DEF TypeOK, Loads, Matching

\* A step keeps the rows and the view rows of a table with a key.
LEMMA TableKept == ASSUME TypeOK, NEW s \in Sessions, Step(s) PROVE TableOK'
<1>1. CASE Serve(s)
  BY <1>1, ServeFrom DEF Serve, TypeOK, TableOK, DistinctKeys
<1>2. ASSUME UNCHANGED <<rows, viewColumns>> PROVE TableOK'
  BY <1>2 DEF TypeOK, TableOK, DistinctKeys
<1>3. CASE \/ OpenTable(s) \/ onRowsParamsChange(s) \/ onDeleteSelected(s) \/ openEditRow(s)
           \/ openInsertRow(s) \/ setUpdatedRow(s) \/ saveChanges(s)
  BY <1>2, <1>3 DEF OpenTable, onRowsParamsChange, onDeleteSelected, openEditRow, openInsertRow,
                    setUpdatedRow, saveChanges
<1>4. CASE onRowSelect(s) \/ onAllRowsSelect(s)
  BY <1>2, <1>4 DEF onRowSelect, onAllRowsSelect, Chooses
<1>5. CASE ShowError(s) \/ DeleteDone(s) \/ UpdateDone(s) \/ InsertDone(s)
  BY <1>2, <1>5 DEF ShowError, DeleteDone, UpdateDone, InsertDone
<1> QED
  BY <1>1, <1>3, <1>4, <1>5 DEF Step

\* A step keeps the types of the requests and of the counters.
LEMMA RequestsKept == ASSUME TypeOK, NEW s \in Sessions, Step(s) PROVE RequestsOK'
<1> USE BoundAssumption
<1>1. CASE Serve(s)
  <2>1. ~Idle(s) /\ UNCHANGED <<sent, moves>>
    BY <1>1 DEF Serve
  <2>2. PICK how \in {"ok", "error"}, row \in Rows \union {None} : Answered(s, how, row)
    BY <1>1, ServeFrom
  <2> QED
    BY <2>1, <2>2, AnswerType DEF RequestsOK, TypeOK
<1>2. CASE onDeleteSelected(s)
  <2>1. PICK filters \in SUBSET Partial(KeyColumns), keys \in SUBSET Keys :
           Sends(s, "delete", filters, NoEdits, keys)
    <3>1. view[s] \subseteq Rows
      BY DEF TypeOK
    <3>2. DeletedFilters(s) \in SUBSET Partial(KeyColumns)
      BY <3>1, FilterType DEF DeletedFilters
    <3>3. TickedKeys(s) \in SUBSET Keys
      BY <3>1, KeyType DEF TickedKeys
    <3> QED
      BY <1>2, <3>2, <3>3 DEF onDeleteSelected, TickedKeys
  <2>2. NoEdits \in Partial(Columns)
    BY DEF NoEdits, Partial
  <2>3. UNCHANGED moves
    BY <1>2 DEF onDeleteSelected
  <2> QED
    BY <2>1, <2>2, <2>3, SentType DEF RequestsOK, TypeOK
<1>3. CASE saveChanges(s)
  <2>1. SavedFields(s) \in Partial(Columns)
    BY DEF SavedFields, TypeOK
  <2>2. PICK kind \in {"update", "insert"}, filters \in SUBSET Partial(KeyColumns), keys \in SUBSET Keys :
           Sends(s, kind, filters, SavedFields(s), keys)
    <3>1. shown[s] # None => shown[s] \in Rows
      BY DEF TypeOK
    <3>2. shown[s] # None => {pKeys(shown[s])} \in SUBSET Partial(KeyColumns) /\ {Key(shown[s])} \in SUBSET Keys
      BY <3>1, FilterType, KeyType
    <3> QED
      BY <1>3, <3>2 DEF saveChanges
  <2>3. UNCHANGED moves
    BY <1>3 DEF saveChanges
  <2> QED
    BY <2>1, <2>2, <2>3, SentType DEF RequestsOK, TypeOK
<1>4. CASE OpenTable(s) \/ onRowsParamsChange(s) \/ openEditRow(s) \/ openInsertRow(s)
  BY <1>4 DEF OpenTable, onRowsParamsChange, openEditRow, openInsertRow, Moves, TypeOK, RequestsOK
<1>5. CASE onRowSelect(s) \/ onAllRowsSelect(s) \/ setUpdatedRow(s)
  <2>1. UNCHANGED <<request, sent, moves>>
    BY <1>5 DEF onRowSelect, onAllRowsSelect, setUpdatedRow, Chooses
  <2> QED
    BY <2>1 DEF TypeOK, RequestsOK
<1>6. CASE ShowError(s) \/ DeleteDone(s) \/ UpdateDone(s) \/ InsertDone(s)
  <2>1. request' = [request EXCEPT ![s] = None] /\ UNCHANGED <<sent, moves>>
    BY <1>6 DEF ShowError, DeleteDone, UpdateDone, InsertDone, Receives
  <2> QED
    BY <2>1 DEF TypeOK, RequestsOK
<1> QED
  BY <1>1, <1>2, <1>3, <1>4, <1>5, <1>6 DEF Step

\* A step keeps the selected keys keys of rows the view shows.
LEMMA SelectedKept == ASSUME TypeOK, NEW s \in Sessions, Step(s) PROVE SelectedOK'
<1>1. UNCHANGED viewColumns
  BY DEF Step, OpenTable, onRowsParamsChange, onRowSelect, onAllRowsSelect, onDeleteSelected, openEditRow,
         openInsertRow, setUpdatedRow, saveChanges, Serve, ShowError, DeleteDone, UpdateDone, InsertDone, Chooses
<1>2. \A r \in Rows : viewKey(r)' = viewKey(r)
  BY <1>1 DEF viewKey, Visible, uniqueKey, pKeys
<1>3. SUFFICES ASSUME TRUE
      PROVE  /\ DOMAIN selected' = Sessions
             /\ \A t \in Sessions : \A k \in selected'[t] : \E r \in Rows : k = viewKey(r)
  BY <1>2 DEF SelectedOK
<1>4. view[s] \subseteq Rows
  BY DEF TypeOK
<1>5. CASE onRowSelect(s)
  <2>1. PICK r, keys : /\ r \in view[s]
                        /\ keys \in {selected[s] \ {viewKey(r)}, selected[s] \union {viewKey(r)}}
                        /\ selected' = [selected EXCEPT ![s] = keys]
    BY <1>5 DEF onRowSelect, Chooses
  <2> QED
    BY <1>4, <2>1 DEF TypeOK
<1>6. CASE onAllRowsSelect(s)
  <2>1. PICK keys : keys \in {{viewKey(r) : r \in view[s]}, {}} /\ selected' = [selected EXCEPT ![s] = keys]
    BY <1>6 DEF onAllRowsSelect, Chooses
  <2> QED
    BY <1>4, <2>1 DEF TypeOK
<1>7. CASE selected' = [selected EXCEPT ![s] = {}]
  BY <1>7 DEF TypeOK
<1>8. CASE UNCHANGED selected
  BY <1>8 DEF TypeOK
<1> QED
  BY <1>5, <1>6, <1>7, <1>8
  DEF Step, OpenTable, onRowsParamsChange, onDeleteSelected, openEditRow, openInsertRow,
      setUpdatedRow, saveChanges, Serve, session, ShowError, DeleteDone, UpdateDone, InsertDone
\* A page shows rows of the table.
LEMMA ShowsType ==
    ASSUME TypeOK, NEW s \in Sessions, ShowsPage(s)
    PROVE  view' \in [Sessions -> SUBSET Rows] /\ \A t \in Sessions \ {s} : view'[t] = view[t]
  BY DEF TypeOK, ShowsPage

\* A form that is given a row keeps its type, its edits or none.
LEMMA FormType ==
    ASSUME TypeOK, NEW s \in Sessions, NEW r \in Rows \union {None}, NEW before, ShowsRow(s, r, before)
    PROVE  /\ shown' \in [Sessions -> Rows \union {None}] /\ shown'[s] = r
           /\ updated' \in [Sessions -> Partial(Columns)]
           /\ \A t \in Sessions \ {s} : shown'[t] = shown[t] /\ updated'[t] = updated[t]
<1>1. NoEdits \in Partial(Columns)
  BY DEF NoEdits, Partial
<1> QED
  BY <1>1 DEF TypeOK, ShowsRow

\* A step keeps the types of what the sessions show.
LEMMA PagesKept == ASSUME IInv, NEW s \in Sessions, Step(s) PROVE PagesOK'
<1>0. TypeOK /\ PagesOK
  BY TypeParts DEF IInv
<1>1. NoEdits \in Partial(KeyColumns) /\ NoEdits \in Partial(Columns)
  BY DEF NoEdits, Partial
<1>2. view[s] \subseteq Rows
  BY <1>0 DEF PagesOK
<1>3. CASE OpenTable(s)
  <2>1. view' \in [Sessions -> SUBSET Rows]
    BY <1>0, <1>3, ShowsType DEF OpenTable
  <2> QED
    BY <1>0, <1>1, <1>3, <2>1 DEF OpenTable, PagesOK
<1>4. CASE onRowsParamsChange(s)
  <2>1. view' \in [Sessions -> SUBSET Rows]
    BY <1>0, <1>4, ShowsType DEF onRowsParamsChange
  <2> QED
    BY <1>0, <1>4, <2>1 DEF onRowsParamsChange, PagesOK, aux
<1>5. CASE onRowSelect(s) \/ onAllRowsSelect(s)
  <2>1. PICK keys, userKeys : Chooses(s, keys, userKeys) /\ userKeys \in SUBSET Keys
    <3>1. \A r \in view[s] : Key(r) \in Keys
      BY <1>2, KeyType
    <3>2. ticked[s] \in SUBSET Keys
      BY <1>0 DEF PagesOK
    <3>3. CASE onRowSelect(s)
      <4>1. PICK r \in view[s] :
               \/ Chooses(s, selected[s] \ {viewKey(r)}, ticked[s] \ {Key(r)})
               \/ Chooses(s, selected[s] \union {viewKey(r)}, ticked[s] \union {Key(r)})
        BY <3>3 DEF onRowSelect
      <4>2. ticked[s] \ {Key(r)} \in SUBSET Keys /\ ticked[s] \union {Key(r)} \in SUBSET Keys
        BY <3>1, <3>2
      <4> QED
        BY <4>1, <4>2
    <3>4. CASE onAllRowsSelect(s)
      <4>1. {Key(r) : r \in view[s]} \in SUBSET Keys
        BY <3>1
      <4>2. \/ Chooses(s, {viewKey(r) : r \in view[s]}, {Key(r) : r \in view[s]})
            \/ Chooses(s, {}, {})
        BY <3>4 DEF onAllRowsSelect
      <4> QED
        BY <4>1, <4>2
    <3> QED
      BY <1>5, <3>3, <3>4
  <2> QED
    BY <1>0, <2>1 DEF Chooses, PagesOK
<1>6. CASE onDeleteSelected(s) \/ saveChanges(s) \/ Serve(s) \/ ShowError(s)
  <2>1. UNCHANGED <<page, view, link, shown, updated, ticked, clicked>>
    BY <1>6 DEF onDeleteSelected, saveChanges, Serve, ShowError, session, aux
  <2> QED
    BY <1>0, <2>1 DEF PagesOK
<1>7. CASE openEditRow(s)
  <2>1. PICK r \in view[s] :
           /\ link' = [link EXCEPT ![s] = pKeys(Visible(r))]
           /\ clicked' = [clicked EXCEPT ![s] = Key(r)]
           /\ \E t \in Loads(pKeys(Visible(r))) : shown' = [shown EXCEPT ![s] = t]
    BY <1>7 DEF openEditRow
  <2>2. pKeys(Visible(r)) \in Partial(KeyColumns) /\ Key(r) \in Keys
    BY <1>0, <1>2, FilterType, KeyType
  <2>3. shown' \in [Sessions -> Rows \union {None}]
    BY <1>0, <2>1, LoadsRow DEF PagesOK
  <2> QED
    BY <1>0, <1>7, <2>1, <2>2, <2>3 DEF openEditRow, PagesOK
<1>8. CASE openInsertRow(s)
  BY <1>0, <1>8 DEF openInsertRow, PagesOK
<1>9. CASE setUpdatedRow(s)
  <2>1. PICK edit \in Inputs :
           updated' = [updated EXCEPT ![s] =
              [c \in DOMAIN updated[s] \union {edit[1]} |->
                 IF c = edit[1] THEN edit[2] ELSE updated[s][c]]]
    BY <1>9 DEF setUpdatedRow
  <2>2. edit[1] \in Columns /\ edit[2] \in Values
    BY ColumnsAssumption
  <2>3. PICK D \in SUBSET Columns : updated[s] \in [D -> Values]
    BY <1>0 DEF PagesOK, Partial
  <2>4. PICK u : u = [c \in DOMAIN updated[s] \union {edit[1]} |->
                         IF c = edit[1] THEN edit[2] ELSE updated[s][c]]
    OBVIOUS
  <2>5. u \in [D \union {edit[1]} -> Values]
    BY <2>2, <2>3, <2>4
  <2>6. u \in Partial(Columns)
    BY <2>2, <2>5 DEF Partial
  <2> QED
    BY <1>0, <1>9, <2>1, <2>4, <2>6 DEF setUpdatedRow, PagesOK, aux
<1>10. CASE DeleteDone(s)
  <2>1. view' \in [Sessions -> SUBSET Rows]
    BY <1>0, <1>10, ShowsType DEF DeleteDone
  <2> QED
    BY <1>0, <1>10, <2>1 DEF DeleteDone, PagesOK
<1>11. CASE UpdateDone(s)
  <2>1. PICK r \in Loads(link[s]) : ShowsRow(s, r, formKey(shown[s]))
    BY <1>11 DEF UpdateDone
  <2>2. shown' \in [Sessions -> Rows \union {None}] /\ updated' \in [Sessions -> Partial(Columns)]
    BY <1>0, <2>1, LoadsRow, FormType
  <2> QED
    BY <1>0, <1>11, <2>2 DEF UpdateDone, PagesOK, aux
<1>12. CASE InsertDone(s)
  <2>1. request[s].row \in Rows
    BY <1>12 DEF InsertDone, Receives, Idle, IInv, Local, Sending
  <2>2. PICK r \in Loads(pKeys(request[s].row)) : ShowsRow(s, r, None)
    BY <1>12 DEF InsertDone
  <2>3. shown' \in [Sessions -> Rows \union {None}] /\ updated' \in [Sessions -> Partial(Columns)]
    BY <1>0, <2>2, LoadsRow, FormType
  <2>4. pKeys(request[s].row) \in Partial(KeyColumns) /\ Key(request[s].row) \in Keys
    BY <1>0, <2>1, FilterType, KeyType
  <2> QED
    BY <1>0, <1>12, <2>3, <2>4 DEF InsertDone, PagesOK
<1> QED
  BY <1>3, <1>4, <1>5, <1>6, <1>7, <1>8, <1>9, <1>10, <1>11, <1>12 DEF Step

\* All that a session's part of the invariant reads of it.
State(s) == <<page[s], view[s], selected[s], link[s], shown[s], updated[s], request[s],
              ticked[s], clicked[s]>>

\* Every step leaves the view's columns as they are, and the other sessions.
LEMMA OthersUntouched ==
    ASSUME TypeOK, NEW s \in Sessions, Step(s)
    PROVE  viewColumns' = viewColumns /\ \A t \in Sessions \ {s} : State(t)' = State(t)
<1> USE DEF State
<1>0. DOMAIN selected = Sessions /\ DOMAIN request = Sessions
  BY DEF TypeOK
<1>1. CASE OpenTable(s) \/ onRowsParamsChange(s)
  BY <1>0, <1>1, ShowsType DEF TypeOK, OpenTable, onRowsParamsChange, aux
<1>2. CASE onRowSelect(s) \/ onAllRowsSelect(s)
  BY <1>0, <1>2 DEF TypeOK, onRowSelect, onAllRowsSelect, Chooses
<1>3. CASE onDeleteSelected(s) \/ saveChanges(s)
  <2>1. \A t \in Sessions \ {s} : request'[t] = request[t]
    BY <1>0, <1>3 DEF onDeleteSelected, saveChanges, Sends
  <2> QED
    BY <1>3, <2>1 DEF onDeleteSelected, saveChanges, session, aux
<1>4. CASE openEditRow(s)
  <2>1. \A t \in Sessions \ {s} : link'[t] = link[t] /\ clicked'[t] = clicked[t] /\ shown'[t] = shown[t]
    BY <1>4 DEF TypeOK, openEditRow
  <2> QED
    BY <1>0, <1>4, <2>1 DEF TypeOK, openEditRow
<1>11. CASE openInsertRow(s)
  BY <1>0, <1>11 DEF TypeOK, openInsertRow
<1>5. CASE setUpdatedRow(s)
  BY <1>0, <1>5 DEF TypeOK, setUpdatedRow, aux
<1>6. CASE Serve(s)
  <2>1. \A t \in Sessions \ {s} : request'[t] = request[t]
    BY <1>6, ServeFrom, AnswerType DEF Serve
  <2> QED
    BY <1>6, <2>1 DEF Serve, session, aux
<1>7. CASE ShowError(s)
  BY <1>0, <1>7 DEF ShowError, Receives, session, aux
<1>8. CASE DeleteDone(s)
  BY <1>0, <1>8, ShowsType DEF TypeOK, DeleteDone, Receives
<1>9. CASE UpdateDone(s)
  BY <1>0, <1>9 DEF TypeOK, UpdateDone, ShowsRow, Receives, aux
<1>10. CASE InsertDone(s)
  BY <1>0, <1>10 DEF TypeOK, InsertDone, ShowsRow, Receives
<1> QED
  BY <1>1, <1>2, <1>3, <1>4, <1>5, <1>6, <1>7, <1>8, <1>9, <1>10, <1>11 DEF Step

\* What the invariant says of a session depends on its state and the view.
LEMMA LocalKept ==
    ASSUME NEW s \in Sessions, Local(s), UNCHANGED viewColumns, UNCHANGED State(s)
    PROVE  Local(s)'
<1> USE DEF State
<1>1. \A r : viewKey(r)' = viewKey(r) /\ pKeys(Visible(r))' = pKeys(Visible(r))
  BY DEF viewKey, uniqueKey, Visible, pKeys
<1>2. \A k : LooseInView(k)' <=> LooseInView(k)
  BY DEF LooseInView, Loose
<1>3. DeletedFilters(s)' = DeletedFilters(s)
  BY <1>1 DEF DeletedFilters
<1>4. TickedKeys(s)' = TickedKeys(s)
  BY <1>1 DEF TickedKeys
<1>5. Sending(s)'
  BY <1>3, <1>4 DEF Local, Sending
<1>6. Selecting(s)'
  BY <1>1 DEF Local, Selecting
<1>7. Linked(s)'
  BY <1>2 DEF Local, Linked
<1> QED
  BY <1>5, <1>6, <1>7 DEF Local
\* The view's keys and filters are those of before.
LEMMA ViewKept ==
    ASSUME TypeOK, NEW s \in Sessions, Step(s)
    PROVE  /\ \A r : viewKey(r)' = viewKey(r) /\ pKeys(Visible(r))' = pKeys(Visible(r))
           /\ \A k : LooseInView(k)' <=> LooseInView(k)
           /\ UNCHANGED <<view[s], selected[s]>> => DeletedFilters(s)' = DeletedFilters(s)
           /\ UNCHANGED <<view[s], selected[s], ticked[s]>> => TickedKeys(s)' = TickedKeys(s)
<1>0. viewColumns' = viewColumns
  BY OthersUntouched
<1>1. \A r : viewKey(r)' = viewKey(r) /\ pKeys(Visible(r))' = pKeys(Visible(r))
  BY <1>0 DEF viewKey, uniqueKey, Visible, pKeys
<1>2. \A k : LooseInView(k)' <=> LooseInView(k)
  BY <1>0 DEF LooseInView, Loose
<1>3. UNCHANGED <<view[s], selected[s]>> => DeletedFilters(s)' = DeletedFilters(s)
  BY <1>1 DEF DeletedFilters
<1>4. UNCHANGED <<view[s], selected[s], ticked[s]>> => TickedKeys(s)' = TickedKeys(s)
  BY <1>1 DEF TickedKeys
<1> QED
  BY <1>1, <1>2, <1>3, <1>4

\* A pending write keeps what it says: nothing it was made of changes before
\* it is answered, but for edits that are added to the form.
LEMMA SendingKept == ASSUME IInv, NEW s \in Sessions, Step(s) PROVE Sending(s)'
<1>0. TypeOK /\ Sending(s)
  BY DEF IInv, Local
<1>1. ASSUME UNCHANGED <<request, view, selected, ticked, shown, updated>> PROVE Sending(s)'
  BY <1>0, <1>1, ViewKept DEF Sending
<1>2. ASSUME request'[s] = None PROVE Sending(s)'
  BY <1>2 DEF Sending
<1>3. CASE \/ OpenTable(s) \/ onRowsParamsChange(s) \/ openEditRow(s) \/ openInsertRow(s)
  BY <1>2, <1>3 DEF OpenTable, onRowsParamsChange, openEditRow, openInsertRow, At, Idle
<1>4. CASE onRowSelect(s) \/ onAllRowsSelect(s)
  BY <1>2, <1>4 DEF onRowSelect, onAllRowsSelect, Chooses, At, Idle
<1>5. CASE onDeleteSelected(s)
  <2>1. view[s] \subseteq Rows
    BY <1>0 DEF TypeOK
  <2>2. DeletedFilters(s) \in SUBSET Partial(KeyColumns) /\ TickedKeys(s) \in SUBSET Keys
    BY <1>0, <2>1, FilterType, KeyType DEF DeletedFilters, TickedKeys
  <2>3. NoEdits \in Partial(Columns)
    BY DEF NoEdits, Partial
  <2>4. Sends(s, "delete", DeletedFilters(s), NoEdits, TickedKeys(s))
    BY <1>5 DEF onDeleteSelected, TickedKeys
  <2>5. /\ request'[s].kind = "delete" /\ request'[s].filters = DeletedFilters(s)
        /\ request'[s].keys = TickedKeys(s)
    BY <1>0, <2>2, <2>3, <2>4, SentType
  <2>6. UNCHANGED <<view[s], selected[s], ticked[s]>>
    BY <1>5 DEF onDeleteSelected, session, aux
  <2> QED
    BY <1>0, <2>5, <2>6, ViewKept DEF Sending
<1>6. CASE setUpdatedRow(s)
  <2>1. DOMAIN updated[s] \subseteq DOMAIN updated'[s]
    BY <1>0, <1>6 DEF setUpdatedRow, TypeOK
  <2>2. UNCHANGED <<request, view, selected, ticked, shown>>
    BY <1>6 DEF setUpdatedRow, aux
  <2> QED
    BY <1>0, <2>1, <2>2, ViewKept DEF Sending
<1>7. CASE saveChanges(s)
  <2>1. SavedFields(s) \in Partial(Columns)
    BY <1>0 DEF SavedFields, TypeOK
  <2>2. UNCHANGED <<shown, updated>>
    BY <1>7 DEF saveChanges, session
  <2>3. CASE Sends(s, "insert", {}, SavedFields(s), {})
    <3>1. {} \in SUBSET Partial(KeyColumns) /\ {} \in SUBSET Keys
      OBVIOUS
    <3>2. request'[s].kind = "insert" /\ request'[s].answer = "none"
      BY <1>0, <2>1, <2>3, <3>1, SentType
    <3> QED
      BY <3>2 DEF Sending
  <2>4. CASE shown[s] # None /\ Sends(s, "update", {pKeys(shown[s])}, SavedFields(s), {Key(shown[s])})
    <3>1. shown[s] \in Rows
      BY <1>0, <2>4 DEF TypeOK
    <3>2. {pKeys(shown[s])} \in SUBSET Partial(KeyColumns) /\ {Key(shown[s])} \in SUBSET Keys
      BY <1>0, <3>1, FilterType, KeyType
    <3>3. /\ request'[s].kind = "update" /\ request'[s].filters = {pKeys(shown[s])}
          /\ request'[s].fields = updated[s] /\ request'[s].keys = {Key(shown[s])}
      BY <1>0, <2>1, <2>4, <3>2, SentType DEF SavedFields
    <3> QED
      BY <2>2, <3>1, <3>3 DEF Sending
  <2> QED
    BY <1>7, <2>3, <2>4 DEF saveChanges
<1>8. CASE Serve(s)
  <2>1. UNCHANGED <<view, selected, ticked, shown, updated>> /\ ~Idle(s)
    BY <1>8 DEF Serve, session, aux
  <2>2. PICK how \in {"ok", "error"}, row \in Rows \union {None} :
           Answered(s, how, row) /\ (request[s].kind = "insert" /\ how = "ok" => row \in Rows)
    BY <1>0, <1>8, ServeFrom
  <2>3. /\ request'[s].kind = request[s].kind /\ request'[s].filters = request[s].filters
        /\ request'[s].fields = request[s].fields /\ request'[s].keys = request[s].keys
        /\ request'[s].answer = how /\ request'[s].row = row
    BY <1>0, <2>1, <2>2, AnswerType
  <2> QED
    BY <1>0, <2>1, <2>2, <2>3, ViewKept DEF Sending, Idle
<1>9. CASE ShowError(s) \/ DeleteDone(s) \/ UpdateDone(s) \/ InsertDone(s)
  <2>1. request' = [request EXCEPT ![s] = None]
    BY <1>9 DEF ShowError, DeleteDone, UpdateDone, InsertDone, Receives
  <2> QED
    BY <1>0, <1>2, <2>1 DEF TypeOK
<1> QED
  BY <1>3, <1>4, <1>5, <1>6, <1>7, <1>8, <1>9 DEF Step

\* A key stays selected as long as a row that has it stays ticked: taking one
\* row's tick away takes its key away, for the other rows that share it too.
LEMMA SelectingKept == ASSUME IInv, NEW s \in Sessions, Step(s) PROVE Selecting(s)'
<1>0. TypeOK /\ Selecting(s) /\ view[s] \subseteq Rows
  BY DEF IInv, Local, TypeOK
<1>1. SUFFICES \A k \in selected'[s] : \E r \in Rows : Key(r) \in ticked'[s] /\ k = viewKey(r)
  BY <1>0, ViewKept DEF Selecting
<1>2. CASE UNCHANGED <<selected[s], ticked[s]>>
  BY <1>0, <1>2 DEF Selecting
<1>3. CASE selected'[s] = {}
  BY <1>3
<1>4. CASE onRowSelect(s)
  <2>1. PICK r \in view[s] :
           IF viewKey(r) \in selected[s]
           THEN Chooses(s, selected[s] \ {viewKey(r)}, ticked[s] \ {Key(r)})
           ELSE Chooses(s, selected[s] \union {viewKey(r)}, ticked[s] \union {Key(r)})
    BY <1>4 DEF onRowSelect
  <2>2. \A keys, userKeys : Chooses(s, keys, userKeys) => selected'[s] = keys /\ ticked'[s] = userKeys
    BY <1>0 DEF Chooses, TypeOK
  <2>3. CASE viewKey(r) \in selected[s]
    <3>1. selected'[s] = selected[s] \ {viewKey(r)} /\ ticked'[s] = ticked[s] \ {Key(r)}
      BY <2>1, <2>2, <2>3
    <3> SUFFICES ASSUME NEW k \in selected[s], k # viewKey(r)
                 PROVE  \E t \in Rows : Key(t) \in ticked[s] \ {Key(r)} /\ k = viewKey(t)
      BY <3>1
    <3>2. PICK t \in Rows : Key(t) \in ticked[s] /\ k = viewKey(t)
      BY <1>0 DEF Selecting
    <3>3. Key(t) # Key(r)
      BY <3>2, SameKey
    <3> QED
      BY <3>2, <3>3
  <2>4. CASE viewKey(r) \notin selected[s]
    <3>1. selected'[s] = selected[s] \union {viewKey(r)} /\ ticked'[s] = ticked[s] \union {Key(r)}
      BY <2>1, <2>2, <2>4
    <3> QED
      BY <1>0, <3>1 DEF Selecting
  <2> QED
    BY <2>3, <2>4
<1>5. CASE onAllRowsSelect(s)
  <2>1. \/ Chooses(s, {viewKey(r) : r \in view[s]}, {Key(r) : r \in view[s]})
        \/ Chooses(s, {}, {})
    BY <1>5 DEF onAllRowsSelect
  <2>2. \A keys, userKeys : Chooses(s, keys, userKeys) => selected'[s] = keys /\ ticked'[s] = userKeys
    BY <1>0 DEF Chooses, TypeOK
  <2>3. CASE Chooses(s, {viewKey(r) : r \in view[s]}, {Key(r) : r \in view[s]})
    <3>1. selected'[s] = {viewKey(r) : r \in view[s]} /\ ticked'[s] = {Key(r) : r \in view[s]}
      BY <2>2, <2>3
    <3> QED
      BY <1>0, <3>1
  <2>4. CASE Chooses(s, {}, {})
    BY <1>3, <2>2, <2>4
  <2> QED
    BY <2>1, <2>3, <2>4
<1>6. CASE OpenTable(s) \/ openEditRow(s) \/ openInsertRow(s) \/ DeleteDone(s)
  BY <1>0, <1>3, <1>6 DEF OpenTable, openEditRow, openInsertRow, DeleteDone, TypeOK
<1>7. CASE \/ onRowsParamsChange(s) \/ onDeleteSelected(s) \/ setUpdatedRow(s) \/ saveChanges(s)
           \/ Serve(s) \/ ShowError(s) \/ UpdateDone(s) \/ InsertDone(s)
  BY <1>2, <1>7 DEF onRowsParamsChange, onDeleteSelected, setUpdatedRow, saveChanges, Serve, ShowError,
                    UpdateDone, InsertDone, session, aux
<1> QED
  BY <1>4, <1>5, <1>6, <1>7 DEF Step

\* The address of a form and the row it shows stay those of the opened row.
LEMMA LinkedKept == ASSUME IInv, NEW s \in Sessions, Step(s) PROVE Linked(s)'
<1>0. TypeOK /\ Linked(s) /\ view[s] \subseteq Rows
  BY DEF IInv, Local, TypeOK
<1>1. SUFFICES ASSUME page'[s] = "update"
               PROVE  /\ clicked'[s] \in Keys
                      /\ ~LooseInView(clicked'[s]) =>
                            link'[s] = clicked'[s] /\ (shown'[s] # None => Key(shown'[s]) = clicked'[s])
  <2>1. (~LooseInView(clicked[s]))' => ~LooseInView(clicked'[s])
    BY <1>0, OthersUntouched DEF LooseInView, Loose
  <2> QED
    BY <2>1 DEF Linked, Key
\* It is so when the form shows a row that the address reaches, the address
\* being the filter of the row that was opened.
<1>2. ASSUME NEW k \in Keys, clicked'[s] = k,
             ~LooseInView(k) => link'[s] = k /\ (shown'[s] # None => Matches(shown'[s], k))
      PROVE  /\ clicked'[s] \in Keys
             /\ ~LooseInView(clicked'[s]) =>
                   link'[s] = clicked'[s] /\ (shown'[s] # None => Key(shown'[s]) = clicked'[s])
  BY <1>2, KeyReachesRow
<1>3. CASE UNCHANGED <<page[s], link[s], shown[s], clicked[s]>>
  BY <1>0, <1>1, <1>3 DEF Linked
<1>4. CASE OpenTable(s) \/ openInsertRow(s)
  BY <1>0, <1>1, <1>4 DEF OpenTable, openInsertRow, TypeOK
<1>5. CASE \/ onRowsParamsChange(s) \/ onDeleteSelected(s) \/ setUpdatedRow(s) \/ saveChanges(s)
           \/ Serve(s) \/ ShowError(s) \/ DeleteDone(s)
  BY <1>3, <1>5 DEF onRowsParamsChange, onDeleteSelected, setUpdatedRow, saveChanges, Serve, ShowError,
                    DeleteDone, session, aux
<1>6. CASE onRowSelect(s) \/ onAllRowsSelect(s)
  BY <1>3, <1>6 DEF onRowSelect, onAllRowsSelect, Chooses
<1>7. CASE openEditRow(s)
  <2>1. PICK r \in view[s] :
           /\ link'[s] = pKeys(Visible(r)) /\ clicked'[s] = Key(r)
           /\ shown'[s] \in Loads(pKeys(Visible(r)))
    BY <1>0, <1>7 DEF openEditRow, TypeOK
  <2>2. r \in Rows /\ Key(r) \in Keys
    BY <1>0, KeyType
  <2>3. ASSUME ~LooseInView(Key(r))
        PROVE  link'[s] = Key(r) /\ (shown'[s] # None => Matches(shown'[s], Key(r)))
    <3>1. pKeys(Visible(r)) = Key(r)
      BY <2>2, <2>3, FilterIsKey DEF LooseInView
    <3> QED
      BY <1>0, <2>1, <3>1, LoadsRow
  <2> QED
    BY <1>2, <2>1, <2>2, <2>3
<1>8. CASE UpdateDone(s)
  <2>1. PICK r \in Loads(link[s]) : ShowsRow(s, r, formKey(shown[s]))
    BY <1>8 DEF UpdateDone
  <2>2. shown'[s] = r
    BY <1>0, <2>1, LoadsRow, FormType
  <2>3. UNCHANGED <<page, link, clicked>>
    BY <1>8 DEF UpdateDone, aux
  <2>4. /\ clicked[s] \in Keys
        /\ ~LooseInView(clicked[s]) => link[s] = clicked[s]
    BY <1>0, <1>1, <2>3 DEF Linked
  <2>5. r # None => Matches(r, link[s])
    BY <1>0, <2>1, LoadsRow
  <2> QED
    BY <1>2, <2>2, <2>3, <2>4, <2>5
<1>9. CASE InsertDone(s)
  <2>1. PICK q \in Rows : q = request[s].row
    BY <1>9 DEF InsertDone, Receives, Idle, IInv, Local, Sending
  <2>2. PICK r \in Loads(pKeys(q)) : ShowsRow(s, r, None)
    BY <1>9, <2>1 DEF InsertDone
  <2>3. shown'[s] = r /\ link'[s] = pKeys(q) /\ clicked'[s] = Key(q)
    BY <1>0, <1>9, <2>1, <2>2, LoadsRow, FormType DEF InsertDone, TypeOK
  <2>4. ASSUME ~LooseInView(Key(q))
        PROVE  link'[s] = Key(q) /\ (shown'[s] # None => Matches(shown'[s], Key(q)))
    <3>1. pKeys(q) = Key(q)
      BY <2>4, FilterIsKey DEF LooseInView
    <3> QED
      BY <1>0, <2>2, <2>3, <3>1, LoadsRow
  <2> QED
    BY <1>2, <2>3, <2>4, KeyType
<1> QED
  BY <1>4, <1>5, <1>6, <1>7, <1>8, <1>9 DEF Step

\* Every step keeps the invariant.
LEMMA Inductive == IInv /\ [Next]_vars => IInv'
<1> SUFFICES ASSUME IInv, [Next]_vars PROVE IInv'
  OBVIOUS
<1>1. ASSUME NEW s \in Sessions, Step(s) PROVE IInv'
  <2>0. TypeOK
    BY DEF IInv
  <2>1. TableOK' /\ PagesOK' /\ SelectedOK' /\ RequestsOK'
    BY <1>1, <2>0, TableKept, PagesKept, SelectedKept, RequestsKept
  <2>2. TypeOK'
    BY <2>1 DEF TypeOK, TableOK, PagesOK, SelectedOK, RequestsOK, Keys
  <2>3. ASSUME NEW t \in Sessions PROVE Local(t)'
    <3>1. CASE t = s
      BY <1>1, <3>1, SendingKept, SelectingKept, LinkedKept DEF Local
    <3>2. CASE t # s
      <4>1. viewColumns' = viewColumns /\ State(t)' = State(t)
        BY <1>1, <2>0, <3>2, OthersUntouched
      <4>2. Local(t)
        BY DEF IInv
      <4> QED
        BY <4>1, <4>2, LocalKept
    <3> QED
      BY <3>1, <3>2
  <2> QED
    BY <2>2, <2>3 DEF IInv
<1>2. CASE UNCHANGED vars
  <2>1. UNCHANGED viewColumns /\ \A t \in Sessions : UNCHANGED State(t)
    BY <1>2 DEF vars, session, aux, State
  <2>2. \A r : viewKey(r)' = viewKey(r)
    BY <2>1 DEF viewKey, uniqueKey, Visible, pKeys
  <2>3. TableOK' /\ PagesOK' /\ RequestsOK'
    BY <1>2 DEF IInv, vars, session, aux, TypeOK, TableOK, DistinctKeys, PagesOK, RequestsOK, Keys
  <2>4. SelectedOK'
    BY <1>2, <2>2 DEF IInv, vars, session, TypeOK, SelectedOK
  <2>5. TypeOK'
    BY <2>3, <2>4 DEF TypeOK, TableOK, PagesOK, SelectedOK, RequestsOK, Keys
  <2>6. \A t \in Sessions : Local(t)'
    BY <2>1, LocalKept DEF IInv
  <2> QED
    BY <2>5, <2>6 DEF IInv
<1> QED
  BY <1>1, <1>2 DEF Next, Step

\* At the start every session is at the table with nothing selected.
LEMMA Starts == Init => IInv
<1> SUFFICES ASSUME Init PROVE IInv
  OBVIOUS
<1>1. NoEdits \in Partial(KeyColumns) /\ NoEdits \in Partial(Columns)
  BY DEF NoEdits, Partial
<1>2. TypeOK
  BY <1>1, RowsAssumption, BoundAssumption DEF Init, TypeOK
<1>3. ASSUME NEW s \in Sessions PROVE Local(s)
  BY DEF Init, Local, Sending, Selecting, Linked
<1> QED
  BY <1>2, <1>3 DEF IInv

-----------------------------------------------------------------------------
(* Theorems.                                                               *)

\* Every variable keeps its type, the selected keys are keys of rows as the
\* view shows them, and the table never holds a key twice.
THEOREM TypeCorrect == Spec => []TypeOK
<1>1. IInv => TypeOK
  BY DEF IInv
<1> QED
  BY <1>1, Starts, Inductive, PTL DEF Spec

\* The form that opens for a row, and opens again after a save, is that row's,
\* unless its key has a falsy value or is not shown in full (dataRow.ts:37-91).
THEOREM FormIsTheRows == Spec => []FormShowsClickedRow
<1>1. IInv => FormShowsClickedRow
  BY DEF IInv, Local, Linked, FormShowsClickedRow
<1> QED
  BY <1>1, Starts, Inductive, PTL DEF Spec
-----------------------------------------------------------------------------
(* What a write does to the table.                                         *)

\* A write of a session is one step of the server for it.
LEMMA WriteIsServed ==
    ASSUME TypeOK, NEW s \in Sessions, [Next]_vars, NEW kind, Writes(s, kind)
    PROVE  Serve(s)
<1>1. rows' # rows /\ request'[s] # request[s]
  BY DEF Writes
<1>2. PICK t \in Sessions : Step(t)
  BY <1>1 DEF Next, Step, vars
<1>3. t = s
  BY <1>1, <1>2, OthersUntouched DEF State
<1>4. ASSUME ~Serve(t) PROVE UNCHANGED rows
  BY <1>2, <1>4 DEF Step, OpenTable, onRowsParamsChange, onRowSelect, onAllRowsSelect, Chooses, onDeleteSelected,
         openEditRow, openInsertRow, setUpdatedRow, saveChanges, ShowError, DeleteDone, UpdateDone, InsertDone
<1> QED
  BY <1>1, <1>3, <1>4

\* A delete that changes the table takes what its filters reach.
LEMMA DeleteTakes ==
    ASSUME TypeOK, NEW s \in Sessions, [Next]_vars, Writes(s, "delete")
    PROVE  rows' = rows \ UNION {Matching(f) : f \in request[s].filters}
<1>1. Serve(s) /\ rows' # rows /\ request[s].kind = "delete"
  BY WriteIsServed DEF Writes
<1> QED
  BY <1>1 DEF Serve, UpdateRows, DeleteRows, InsertRow

\* A save that changes the table gives the rows its filters reach its fields.
LEMMA SaveMerges ==
    ASSUME TypeOK, NEW s \in Sessions, [Next]_vars, Writes(s, "update"),
           NEW matched, matched = UNION {Matching(f) : f \in request[s].filters}
    PROVE  /\ rows' = (rows \ matched) \union {Merge(r, request[s].fields) : r \in matched}
           /\ Cardinality(rows') = Cardinality(rows)
<1>1. Serve(s) /\ rows' # rows /\ request[s].kind = "update"
  BY WriteIsServed DEF Writes
<1>2. UpdateRows(s)
  BY <1>1 DEF Serve, DeleteRows, InsertRow
<1> QED
  BY <1>1, <1>2 DEF UpdateRows

\* A delete takes the rows that were ticked on the page, all of them, and no
\* others unless a ticked key cannot be written as a filter
\* (DataTable.tsx onDeleteSelected, data.ts deleteRows).
LEMMA DeleteIsExact ==
    ASSUME IInv, NEW s \in Sessions, [Next]_vars, Writes(s, "delete")
    PROVE  /\ KeysOf(rows') \intersect request[s].keys = {}
           /\ rows' \subseteq rows
           /\ \/ KeysOf(rows \ rows') \subseteq request[s].keys
              \/ \E k \in ticked[s] : LooseInView(k)
<1>0. TypeOK /\ Selecting(s) /\ view[s] \subseteq Rows
  BY DEF IInv, Local, TypeOK
<1>1. request[s].filters = DeletedFilters(s) /\ request[s].keys = TickedKeys(s)
  BY DEF IInv, Local, Sending, Writes, Idle
<1>2. rows' = rows \ UNION {Matching(f) : f \in request[s].filters}
  BY <1>0, DeleteTakes
<1>3. ASSUME NEW r \in rows, Key(r) \in request[s].keys PROVE r \notin rows'
  <2>1. PICK t \in view[s] : viewKey(t) \in selected[s] /\ Key(r) = Key(t)
    BY <1>1, <1>3 DEF TickedKeys
  <2>2. pKeys(Visible(t)) \in request[s].filters
    BY <1>1, <2>1 DEF DeletedFilters
  <2>3. r \in Matching(pKeys(Visible(t)))
    BY <2>1, FilterReachesKey DEF Matching
  <2> QED
    BY <1>2, <2>2, <2>3
<1>4. ASSUME NEW r \in rows \ rows', \A k \in ticked[s] : ~LooseInView(k)
      PROVE  Key(r) \in request[s].keys
  <2>1. PICK t \in view[s] : viewKey(t) \in selected[s] /\ r \in Matching(pKeys(Visible(t)))
    BY <1>1, <1>2 DEF DeletedFilters
  <2>2. PICK w \in Rows : Key(w) \in ticked[s] /\ viewKey(t) = viewKey(w)
    BY <1>0, <2>1 DEF Selecting
  <2>3. ~LooseInView(Key(w))
    BY <1>4, <2>2
  <2>4. t \in Rows /\ Key(t) = Key(w)
    BY <1>0, <2>2, <2>3, JoinedKeyTells
  <2>5. pKeys(Visible(t)) = Key(t)
    BY <2>3, <2>4, FilterIsKey DEF LooseInView
  <2>6. Key(r) = Key(t)
    BY <2>1, <2>4, <2>5, KeyType, KeyReachesRow DEF Matching
  <2>7. Key(t) \in TickedKeys(s)
    BY <2>1, <2>2, <2>4 DEF TickedKeys
  <2> QED
    BY <1>1, <2>6, <2>7
<1>5. rows' \subseteq rows
  BY <1>2
<1>6. KeysOf(rows') \intersect request[s].keys = {}
  BY <1>3, <1>5 DEF KeysOf
<1>7. \/ KeysOf(rows \ rows') \subseteq request[s].keys
      \/ \E k \in ticked[s] : LooseInView(k)
  BY <1>4 DEF KeysOf
<1> QED
  BY <1>5, <1>6, <1>7

\* A save changes the row of the form and no other, unless that row's key has
\* a falsy value.
LEMMA SaveIsExact ==
    ASSUME IInv, NEW s \in Sessions, [Next]_vars, Writes(s, "update")
    PROVE  \/ KeysOf(rows \ rows') \subseteq request[s].keys /\ Cardinality(rows') = Cardinality(rows)
           \/ \E k \in request[s].keys : Loose(k)
<1>0. TypeOK
  BY DEF IInv
<1>1. PICK q \in Rows : q = shown[s] /\ request[s].filters = {pKeys(q)} /\ request[s].keys = {Key(q)}
  BY DEF IInv, Local, Sending, Writes, Idle
<1>2. PICK matched : matched = UNION {Matching(f) : f \in request[s].filters}
  OBVIOUS
<1>3. /\ rows' = (rows \ matched) \union {Merge(r, request[s].fields) : r \in matched}
      /\ Cardinality(rows') = Cardinality(rows)
  BY <1>0, <1>2, SaveMerges
<1>4. ASSUME ~Loose(Key(q)), NEW r \in rows \ rows' PROVE Key(r) \in request[s].keys
  <2>1. r \in Matching(pKeys(q))
    BY <1>1, <1>2, <1>3, <1>4
  <2>2. Key(r) = Key(q)
    BY <1>4, <2>1, FilterIsKey, KeyType, KeyReachesRow DEF Matching
  <2> QED
    BY <1>1, <2>2
<1> QED
  BY <1>1, <1>3, <1>4 DEF KeysOf

\* A row that a save made has a row it replaced, and of that one every column
\* that was not edited in the form.
LEMMA SaveKeepsColumns ==
    ASSUME IInv, NEW s \in Sessions, [Next]_vars, Writes(s, "update"), NEW r \in rows' \ rows
    PROVE  \E old \in rows \ rows' : \A c \in Columns \ DOMAIN updated[s] : r[c] = old[c]
<1>0. TypeOK
  BY DEF IInv
<1>1. PICK f : f = request[s].fields
  OBVIOUS
<1>2. DOMAIN f \subseteq DOMAIN updated[s]
  BY <1>1 DEF IInv, Local, Sending, Writes, Idle
<1>3. PICK matched : matched = UNION {Matching(g) : g \in request[s].filters}
  OBVIOUS
<1>4. rows' = (rows \ matched) \union {Merge(t, f) : t \in matched}
  <2>1. rows' = (rows \ matched) \union {Merge(t, request[s].fields) : t \in matched}
    BY <1>0, <1>3, SaveMerges
  <2> QED
    BY <1>1, <2>1
<1>5. PICK old \in matched : r = Merge(old, f)
  BY <1>4
<1>6. old \in rows
  BY <1>3 DEF Matching
<1>7. old \notin rows'
  <2>1. ASSUME old \in rows' PROVE FALSE
    <3>1. PICK t \in matched : old = Merge(t, f)
      BY <1>4, <2>1
    <3>2. r = old
      BY <1>5, <3>1, MergeTwice
    <3> QED
      BY <1>6, <3>2
  <2> QED
    BY <2>1
<1>8. \A c \in Columns \ DOMAIN updated[s] : r[c] = old[c]
  BY <1>2, <1>5 DEF Merge
<1> QED
  BY <1>6, <1>7, <1>8

\* A delete takes exactly the rows the user ticked and had on the page.
THEOREM DeletesAreExact == Spec => DeletesWhatWasTicked
<1>1. IInv /\ [Next]_vars =>
         [\A s \in Sessions : Writes(s, "delete") =>
             /\ KeysOf(rows') \intersect request[s].keys = {}
             /\ rows' \subseteq rows
             /\ \/ KeysOf(rows \ rows') \subseteq request[s].keys
                \/ \E k \in ticked[s] : LooseInView(k)]_vars
  BY DeleteIsExact
<1> QED
  BY <1>1, Starts, Inductive, PTL DEF Spec, DeletesWhatWasTicked

\* A save changes no row but the one the form was loaded with
\* (RowForm.tsx saveChanges, data_service.go UpdateRows).
THEOREM SavesAreExact == Spec => EditsOnlyTheShownRow
<1>1. IInv /\ [Next]_vars =>
         [\A s \in Sessions : Writes(s, "update") =>
             \/ KeysOf(rows \ rows') \subseteq request[s].keys /\ Cardinality(rows') = Cardinality(rows)
             \/ \E k \in request[s].keys : Loose(k)]_vars
  BY SaveIsExact
<1> QED
  BY <1>1, Starts, Inductive, PTL DEF Spec, EditsOnlyTheShownRow

\* A save leaves the columns that were not edited in its form as the table has
\* them, whatever the form shows of them.
THEOREM SavesKeepColumns == Spec => UneditedColumnsKept
<1>1. IInv /\ [Next]_vars =>
         [\A s \in Sessions : Writes(s, "update") =>
             \A r \in rows' \ rows : \E old \in rows \ rows' :
                 \A c \in Columns \ DOMAIN updated[s] : r[c] = old[c]]_vars
  <2> SUFFICES ASSUME IInv, [Next]_vars, NEW s \in Sessions, Writes(s, "update"), NEW r \in rows' \ rows
               PROVE  \E old \in rows \ rows' : \A c \in Columns \ DOMAIN updated[s] : r[c] = old[c]
    OBVIOUS
  <2> QED
    BY SaveKeepsColumns
<1> QED
  BY <1>1, Starts, Inductive, PTL DEF Spec, UneditedColumnsKept
=============================================================================
