---------------------------- MODULE MultiSelect ----------------------------
(***************************************************************************)
(* SelectInput of several options: MultipleSelector with the options that  *)
(* the table's settings give.  It has a copy of the field's value, a text  *)
(* that narrows the list of options, and a list that is open while the     *)
(* text has the focus or, when it lost it, the pointer was over the list.  *)
(***************************************************************************)
EXTENDS Naturals, Sequences, SequencesExt

CONSTANTS
    Options,      \* the options of the settings
    StoredValues, \* the arrays that the row may hold, of options or of former ones
    MaxClicks     \* bound: changes of the value or of the text

Values == Options \union UNION {ToSet(values) : values \in StoredValues}

ASSUME OptionsAssumption == StoredValues \subseteq Seq(Values) /\ MaxClicks \in Nat

VARIABLES
    fieldValue,  \* the field's value: the row's, or what onChange last told the form
    selected,    \* the badges shown
    inputValue,  \* the text is not empty
    focused,     \* the text has the focus
    listOpen,    \* the list is open
    onScrollbar, \* the pointer is over the list
    clicks,      \* counter of the bound
    stored,      \* auxiliary: the row's value
    unselected   \* auxiliary: the values that the user removed

list       == <<focused, listOpen, onScrollbar>>
selectVars == <<fieldValue, selected, inputValue, list, clicks, stored, unselected>>

Click == clicks < MaxClicks /\ clicks' = clicks + 1

SelectIdle(values) ==
    /\ fieldValue = values /\ selected = values /\ stored = values
    /\ inputValue = FALSE /\ focused = FALSE /\ listOpen = FALSE /\ onScrollbar = FALSE
    /\ clicks = 0 /\ unselected = {}

SelectInit == \E values \in StoredValues : SelectIdle(values)

\* setSelected and onChange, and the effect that follows the field's value.
SetSelected(values) == selected' = values /\ fieldValue' = selected'

\* filter: the values that are not to be dropped, in their order.
Without(values, drop) ==
    LET kept[n \in 0..Len(values)] ==
            IF n = 0 THEN <<>>
            ELSE IF values[n] \in drop THEN kept[n - 1]
            ELSE Append(kept[n - 1], values[n])
    IN  kept[Len(values)]

handleUnselect(v) ==
    /\ Click /\ v \in ToSet(selected)
    /\ SetSelected(Without(selected, {v}))
    /\ unselected' = unselected \union {v}
    /\ UNCHANGED <<inputValue, list, stored>>

\* Backspace or Delete while the text is empty, pressed in the text or on the
\* button of any badge.
handleKeyDown ==
    /\ ~inputValue /\ selected # <<>>
    /\ handleUnselect(Last(selected))

\* removePickedOption: the options offered.
Selectables == Options \ ToSet(selected)

PickedOfOptions(v) == \* mutant: values that are no options any more are left out
    Append(Without(selected, ToSet(selected) \ Options), v)
Picked(v) == Append(selected, v)

selectOption(v) ==
    /\ listOpen /\ v \in Selectables /\ Click
    /\ SetSelected(Picked(v))
    /\ inputValue' = FALSE
    /\ UNCHANGED <<list, stored, unselected>>

changeText ==
    /\ focused /\ Click /\ inputValue' = ~inputValue
    /\ UNCHANGED <<fieldValue, selected, list, stored, unselected>>

Moves(text, openList, pointer) ==
    /\ focused' = text /\ listOpen' = openList /\ onScrollbar' = pointer
    /\ UNCHANGED <<fieldValue, selected, inputValue, clicks, stored, unselected>>

onFocus  == ~focused /\ Moves(TRUE, TRUE, onScrollbar)
onBlur   == focused /\ Moves(FALSE, listOpen /\ onScrollbar, onScrollbar)
moveOver == listOpen /\ Moves(focused, listOpen, ~onScrollbar)
\* The pointer is outside, and so not over the list.
handleClickOutside == listOpen /\ ~onScrollbar /\ Moves(FALSE, FALSE, FALSE)

SelectNext ==
    \/ \E v \in ToSet(selected) : handleUnselect(v)
    \/ handleKeyDown
    \/ \E v \in Options : selectOption(v)
    \/ changeText
    \/ onFocus \/ onBlur \/ moveOver \/ handleClickOutside

SelectTypeOK ==
    /\ fieldValue \in Seq(Values) /\ selected \in Seq(Values) /\ stored \in StoredValues \union {<<>>}
    /\ {inputValue, focused, listOpen, onScrollbar} \subseteq BOOLEAN
    /\ clicks \in 0..MaxClicks /\ unselected \subseteq Values

\* The form saves the badges that are shown: first the row's values that the
\* user did not remove, in their order, those included that are no options any
\* more; then the options picked, each once and none that is there already
\* (handleUnselect, onSelect, removePickedOption).
SelectedIsSaved ==
    LET kept  == Without(stored, unselected)
        added == SubSeq(selected, Len(kept) + 1, Len(selected))
    IN  /\ fieldValue = selected
        /\ IsPrefix(kept, selected)
        /\ IsInjective(added) /\ ToSet(added) \subseteq Options \ ToSet(kept)
=============================================================================
