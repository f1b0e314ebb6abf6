---------------------------- MODULE SettingsForm ----------------------------
(***************************************************************************)
(* The form of a table's settings (TableSettingsPage, TableSettingsForm    *)
(* and the parts it renders) in the browsers of several administrators,    *)
(* and what a save makes of the stored settings.  A form keeps a copy of   *)
(* all the settings, sends all of it, and the server merges it by key; the *)
(* race between the row and the server's cache of it is SchemaService's.   *)
(* A key that is missing in JSON is one the settings' function lacks.      *)
(***************************************************************************)
EXTENDS Naturals, Sequences, FiniteSets, SequencesExt

CONSTANTS
    Admins,
    Columns,      \* the table's columns, in order
    AutoType,     \* MainPgTypesOidMap: the input type of each column's OID
    ArrayColumns, \* the columns whose OID maps to isArray
    TextColumns,  \* the columns of a text type, in order
    Patterns,     \* what is entered as viewLinkPattern
    JoinTables,   \* the tables whose foreign keys make a relation usable
    OtherTables,  \* the other tables that the lists offer
    Types,        \* the input types tried, "select" among them
    OptionLists,  \* the lists of options tried, not empty
    MaxEdits,     \* bound: changes made in forms
    MaxSaves,     \* bound: saves sent
    Undefined,    \* a payload that is missing in JSON
    Null          \* a payload that is null in JSON, or no form

ColumnNames == ToSet(Columns)
Tables      == JoinTables \union OtherTables
ListKeys    == {"tableViewSelectColumns", "tableViewTextFiltersCols"}
Keys        == ListKeys \union {"viewLinkPattern", "relations", "overriddenInputs"}

Payloads    == [options : OptionLists \union {<<>>}, multi : BOOLEAN]

ASSUME ColumnsAssumption ==
    /\ Columns \in Seq(ColumnNames) /\ TextColumns \in Seq(ColumnNames)
    /\ IsInjective(Columns) /\ IsInjective(TextColumns)
    /\ AutoType \in [ColumnNames -> Types] /\ ArrayColumns \subseteq ColumnNames
    /\ "select" \in Types /\ \A c \in ColumnNames : AutoType[c] # "select"
ASSUME PayloadsAssumption ==
    Undefined # Null /\ \A p \in Payloads : p \notin {Undefined, Null}
ASSUME BoundsAssumption == MaxEdits \in Nat /\ MaxSaves \in Nat

VARIABLES
    config,   \* the row of pgpanel.settings
    cache,    \* the server's decoded copy, which it answers with
    form,     \* setttings: each administrator's copy, or Null
    adding,   \* RelationsSelect: the joinTable chosen for a new relation, or ""
    saves,    \* saves sent and not yet served
    edits, sent, commits, \* counters
    base,     \* auxiliary: the commits that each form was loaded after
    edited,   \* auxiliary: the parts of the settings edited in each form
    bare,     \* auxiliary: columns made a "select" in the form, without a payload
    bareSent, \* auxiliary: such columns in a save
    repicked, \* auxiliary: columns for which their own type was picked again
    blindAdd  \* auxiliary: a relation was added without a usable join table

aux  == <<base, edited, bare, bareSent, repicked, blindAdd>>
vars == <<config, cache, form, adding, saves, edits, sent, commits, aux>>

-----------------------------------------------------------------------------
(* Settings as the server answers them and as the client reads them.       *)

Empty == [k \in Keys |-> IF k = "viewLinkPattern" THEN "" ELSE <<>>]

Has(settings, k) == k \in DOMAIN settings

\* jsonb's || and JavaScript's spread: the new keys replace the old ones.
Merged(new, old) ==
    [k \in DOMAIN new \union DOMAIN old |-> IF k \in DOMAIN new THEN new[k] ELSE old[k]]
With(settings, k, v) == Merged([j \in {k} |-> v], settings)

DecodeType(o) == [o EXCEPT !.payload = Null] \* mutant: the payload is not stored

\* TableSettings and InputTypeLookup in Go: an empty value is left out of the
\* JSON, a payload that was not given is null in it.
DecodeOverride(o) == [o EXCEPT !.payload = IF @ = Undefined THEN Null ELSE @]

Decode(settings) ==
    [k \in {j \in DOMAIN settings : settings[j] # Empty[j]} |->
        IF k = "overriddenInputs"
        THEN [c \in DOMAIN settings[k] |-> DecodeOverride(settings[k][c])]
        ELSE settings[k]]

\* What a table without a row of settings is answered with.
Defaults ==
    Decode([k \in ListKeys |-> IF k = "tableViewSelectColumns" THEN Columns ELSE TextColumns])

NoOverrides == [c \in {} |-> Null]
Overrides(settings) == IF Has(settings, "overriddenInputs") THEN settings.overriddenInputs ELSE NoOverrides
Relations(settings) == IF Has(settings, "relations") THEN settings.relations ELSE <<>>

\* An override replaces the autodetected type whole, isArray included.
resolveInputType(c, settings) ==
    IF c \in DOMAIN Overrides(settings) THEN Overrides(settings)[c]
    ELSE [type |-> AutoType[c], isArray |-> c \in ArrayColumns, payload |-> Undefined]

\* Payload destructures its value; only undefined is replaced by a default.
PayloadFails(settings) ==
    \E c \in ColumnNames : /\ resolveInputType(c, settings).type = "select"
                           /\ resolveInputType(c, settings).payload = Null

\* RowForm's getTable and generateEditRelationsLink throw.
RowFormFails(settings) ==
    \E i \in DOMAIN Relations(settings) : Relations(settings)[i] \notin JoinTables

\* The form that is open and shown; one that failed to render takes no input.
Shown(a) == form[a] # Null /\ ~PayloadFails(form[a])

-----------------------------------------------------------------------------
(* The page and the form's parts: each sends a new value of its own key.   *)

\* TableSettingsPage's loader and a new mount of the form.
Open(a) ==
    /\ form[a] = Null
    /\ form' = [form EXCEPT ![a] = cache]
    /\ adding' = [adding EXCEPT ![a] = ""]
    /\ base' = [base EXCEPT ![a] = commits]
    /\ edited' = [edited EXCEPT ![a] = {}]
    /\ bare' = [bare EXCEPT ![a] = {}]
    /\ UNCHANGED <<config, cache, saves, edits, sent, commits, bareSent, repicked, blindAdd>>

\* goBack, from the arrow or the Cancel button.
goBack(a) ==
    /\ form[a] # Null /\ form' = [form EXCEPT ![a] = Null]
    /\ adding' = [adding EXCEPT ![a] = ""]
    /\ base' = [base EXCEPT ![a] = 0]
    /\ edited' = [edited EXCEPT ![a] = {}]
    /\ bare' = [bare EXCEPT ![a] = {}]
    /\ UNCHANGED <<config, cache, saves, edits, sent, commits, bareSent, repicked, blindAdd>>

Override(c, field) == <<"overriddenInputs", c, field>>

\* setSettings({...setttings, [k]: v}), which edits these parts of them.
SetSettings(a, k, v, parts) ==
    /\ Shown(a) /\ edits < MaxEdits /\ edits' = edits + 1
    /\ form' = [form EXCEPT ![a] = With(form[a], k, v)]
    /\ edited' = [edited EXCEPT ![a] = @ \union parts]
    /\ UNCHANGED <<config, cache, saves, sent, commits, base, bareSent>>

setViewLinkPattern(a) ==
    /\ \E p \in Patterns \union {""} : SetSettings(a, "viewLinkPattern", p, {<<"viewLinkPattern">>})
    /\ UNCHANGED <<adding, bare, repicked, blindAdd>>

Added(selected, c) == Append(selected, c) \* mutant: a column is never taken away
\* No list has a column twice (TypeOK), so the filter takes away the one it has.
Toggled(selected, c) ==
    IF c \in ToSet(selected) THEN RemoveFirst(selected, c) ELSE Append(selected, c)

\* ColumnsSelect: a missing list stands for all the columns.
toggleColumn(a, k, c) ==
    /\ Shown(a)
    /\ SetSettings(a, k, Toggled(IF Has(form[a], k) THEN form[a][k] ELSE Columns, c), {<<k>>})
    /\ UNCHANGED <<adding, bare, repicked, blindAdd>>

\* Of a relation the join table is kept: the rest is carried along with it.
setJoinTable(a, t) ==
    /\ Shown(a)
    /\ adding' = [adding EXCEPT ![a] = t]
    /\ UNCHANGED <<config, cache, form, saves, edits, sent, commits, aux>>

\* The Add button is always enabled, and keeps what is chosen.
addRelation(a) ==
    /\ Shown(a)
    /\ SetSettings(a, "relations", Append(Relations(form[a]), adding[a]), {<<"relations">>})
    /\ blindAdd' = (blindAdd \/ adding[a] \notin JoinTables)
    /\ UNCHANGED <<adding, bare, repicked>>

removeRelation(a) ==
    /\ Shown(a)
    /\ \E i \in DOMAIN Relations(form[a]) :
          SetSettings(a, "relations", RemoveAt(Relations(form[a]), i), {<<"relations">>})
    /\ UNCHANGED <<adding, bare, repicked, blindAdd>>

Picked(t) == [type |-> t, isArray |-> FALSE, payload |-> Undefined]

PickedForAll(a, c, t) == \* mutant: the type of every column is written
    With([d \in ColumnNames |-> Picked(resolveInputType(d, form[a]).type)], c, Picked(t))
PickedAlone(a, c, t) == [d \in {c} |-> Picked(t)] \* mutant: the other columns' types are dropped

OverridesPicked(a, c, t) == With(Overrides(form[a]), c, Picked(t))

\* FieldTypesSelect: the list reports a type when it is not the one it shows.
pickType(a, c, t) ==
    /\ Shown(a) /\ t # resolveInputType(c, form[a]).type
    /\ SetSettings(a, "overriddenInputs", OverridesPicked(a, c, t), {Override(c, "type"), Override(c, "payload")})
    /\ bare' = [bare EXCEPT ![a] = IF t = "select" THEN @ \union {c} ELSE @ \ {c}]
    /\ repicked' = IF t = AutoType[c] THEN repicked \union {c} ELSE repicked
    /\ UNCHANGED <<adding, blindAdd>>

\* Payload: the box or the text; the other part is kept.
updatePayload(a, c) ==
    LET old == resolveInputType(c, form[a]).payload
        p   == IF old = Undefined THEN [options |-> <<>>, multi |-> FALSE] ELSE old
    IN  /\ Shown(a) /\ resolveInputType(c, form[a]).type = "select"
        /\ \E q \in {[p EXCEPT !.multi = ~@]} \union {[p EXCEPT !.options = o] : o \in OptionLists \union {<<>>}} :
              SetSettings(a, "overriddenInputs", [Overrides(form[a]) EXCEPT ![c].payload = q], {Override(c, "payload")})
        /\ bare' = [bare EXCEPT ![a] = @ \ {c}]
        /\ UNCHANGED <<adding, repicked, blindAdd>>

-----------------------------------------------------------------------------
(* Saves.                                                                  *)

\* The form stays as it is; nothing is loaded again.
saveChanges(a) ==
    /\ Shown(a) /\ sent < MaxSaves /\ sent' = sent + 1
    /\ saves' = saves \union {[n |-> sent, settings |-> form[a], base |-> base[a], edited |-> edited[a]]}
    /\ bareSent' = bareSent \union bare[a]
    /\ UNCHANGED <<config, cache, form, adding, edits, commits, base, edited, bare, repicked, blindAdd>>

\* UpdateTableSettings: config || EXCLUDED.config, then the decoded result.
UpdateTableSettings(u) ==
    /\ saves' = saves \ {u}
    /\ \/ /\ config' = Merged(u.settings, config)
          /\ cache' = Decode(config')
          /\ commits' = commits + 1
       \/ UNCHANGED <<config, cache, commits>>
    /\ UNCHANGED <<form, adding, edits, sent, aux>>

-----------------------------------------------------------------------------
Init ==
    /\ config = <<>> /\ cache = Defaults
    /\ form = [a \in Admins |-> Null] /\ adding = [a \in Admins |-> ""]
    /\ saves = {} /\ edits = 0 /\ sent = 0 /\ commits = 0
    /\ base = [a \in Admins |-> 0] /\ edited = [a \in Admins |-> {}]
    /\ bare = [a \in Admins |-> {}] /\ bareSent = {} /\ repicked = {} /\ blindAdd = FALSE

Edits(a) ==
    \/ setViewLinkPattern(a)
    \/ \E k \in ListKeys, c \in ColumnNames : toggleColumn(a, k, c)
    \/ \E t \in Tables : setJoinTable(a, t)
    \/ addRelation(a) \/ removeRelation(a)
    \/ \E c \in ColumnNames : updatePayload(a, c) \/ \E t \in Types : pickType(a, c, t)

Next ==
    \/ \E a \in Admins : Open(a) \/ goBack(a) \/ Edits(a) \/ saveChanges(a)
    \/ \E u \in saves : UpdateTableSettings(u)

Spec == Init /\ [][Next]_vars

-----------------------------------------------------------------------------
(* Correctness.                                                            *)

Parts == {<<k>> : k \in Keys \ {"overriddenInputs"}} \union
         {Override(c, f) : c \in ColumnNames, f \in {"type", "payload"}}

\* The value of a part of the settings; <<>> when there is none.
Part(settings, p) ==
    IF Len(p) = 1 THEN (IF Has(settings, p[1]) THEN <<settings[p[1]]>> ELSE <<>>)
    ELSE IF p[2] \in DOMAIN Overrides(settings) THEN <<Overrides(settings)[p[2]][p[3]]>> ELSE <<>>

OverrideType == [type : Types, isArray : {FALSE}, payload : {Undefined, Null} \union Payloads]

\* Settings have the type the form and the server agree on: lists of distinct
\* columns, overrides of columns, relations by tables or none.
SettingsOK(settings) ==
    /\ DOMAIN settings \subseteq Keys
    /\ \A k \in ListKeys : Has(settings, k) =>
          settings[k] \in Seq(ColumnNames) /\ IsInjective(settings[k])
    /\ \A c \in DOMAIN Overrides(settings) :
          c \in ColumnNames /\ Overrides(settings)[c] \in OverrideType
    /\ \A i \in DOMAIN Relations(settings) :
          Relations(settings)[i] \in Tables \union {""}

TypeOK ==
    /\ SettingsOK(config) /\ SettingsOK(cache)
    /\ \A a \in Admins : form[a] = Null \/ SettingsOK(form[a])
    /\ \A u \in saves : SettingsOK(u.settings)
    /\ edits \in 0..MaxEdits /\ sent \in 0..MaxSaves /\ commits \in 0..sent

\* A save changes only the parts of the settings that its administrator has
\* edited, down to one column's type or payload, unless another save came
\* after the form was loaded; and even then only in the keys the form had.
OnlyEditedPartsChange ==
    [][\A u \in saves \ saves' : \A p \in Parts :
          Part(cache', p) # Part(cache, p) =>
              \/ p \in u.edited
              \/ u.base # commits /\ Has(u.settings, p[1])]_vars

\* A column whose input type is the autodetected one, and which the form
\* therefore does not mark as overridden, is edited as an array if and only
\* if it is one, unless its own type was once picked again in the list: that
\* leaves an override without isArray (FieldTypesSelect).
UnmarkedIsAutodetected ==
    \A c \in ColumnNames \ repicked :
        resolveInputType(c, cache).type = AutoType[c] =>
            resolveInputType(c, cache).isArray = (c \in ArrayColumns)

\* Settings that the pages cannot render come only of a "select" saved before
\* anything was entered for its payload, which is null when it is read again
\* (Payload), or of a relation added without a usable join table (RowForm).
PagesRender ==
    /\ PayloadFails(cache) => \E c \in bareSent : resolveInputType(c, cache).type = "select"
    /\ RowFormFails(cache) => blindAdd
=============================================================================
