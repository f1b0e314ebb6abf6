----------------------------- MODULE ArrayInput -----------------------------
(***************************************************************************)
(* DynamicInputArray: the values of an array column, each edited in a      *)
(* DynamicInputSingle that keeps a value of its own from when it was       *)
(* mounted.  The elements' keys are their indexes.                         *)
(***************************************************************************)
EXTENDS Naturals, Sequences, SequencesExt

CONSTANTS
    Elements,  \* what is entered for an element
    Blank,     \* "", what a new element starts with
    Stored,    \* the arrays that the row may hold
    MaxLength, \* bound: the length of the array
    MaxEdits,  \* bound: changes
    Nothing    \* the form was not told of any change

ASSUME ArraysAssumption == Stored \subseteq Seq(Elements) /\ Blank \notin Elements
ASSUME ArrayBounds ==
    MaxLength \in Nat /\ MaxEdits \in Nat /\ \A values \in Stored : Len(values) <= MaxLength

VARIABLES
    arrayValues, \* the array
    own,         \* the value of each element's input
    reported,    \* the array that onChange last told the form, or Nothing
    edits,       \* counter of the bound
    lowest       \* auxiliary: the lowest index an element was removed from

arrayVars == <<arrayValues, own, reported, edits, lowest>>

Edit == edits < MaxEdits /\ edits' = edits + 1

ArrayInit ==
    /\ arrayValues \in Stored /\ own = arrayValues
    /\ reported = Nothing /\ edits = 0 /\ lowest = MaxLength + 1

Edited(i, v) == [arrayValues EXCEPT ![i] = v]

\* An element's onChange.
editElement(i, v) ==
    /\ Edit
    /\ own' = [own EXCEPT ![i] = v]
    /\ arrayValues' = Edited(i, v)
    /\ reported' = arrayValues'
    /\ lowest' = lowest

\* The inputs keep their keys: it is the last one that is unmounted.
removeElement(i) ==
    /\ Edit
    /\ arrayValues' = RemoveAt(arrayValues, i)
    /\ own' = Front(own)
    /\ reported' = arrayValues'
    /\ lowest' = IF i < Len(arrayValues) /\ i < lowest THEN i ELSE lowest

\* The form is not told of the new element.
addElement ==
    /\ Len(arrayValues) < MaxLength /\ Edit
    /\ arrayValues' = Append(arrayValues, Blank)
    /\ own' = Append(own, Blank)
    /\ UNCHANGED <<reported, lowest>>

ArrayNext ==
    \/ \E i \in DOMAIN arrayValues, v \in Elements : editElement(i, v)
    \/ \E i \in DOMAIN arrayValues : removeElement(i)
    \/ addElement

ArrayTypeOK ==
    /\ arrayValues \in Seq(Elements \union {Blank}) /\ Len(arrayValues) <= MaxLength
    /\ own \in Seq(Elements \union {Blank})
    /\ reported = Nothing \/ reported \in Seq(Elements \union {Blank})
    /\ edits \in 0..MaxEdits /\ lowest \in 1..MaxLength + 1

\* The form is told of what the user sees: the array has an input for every
\* element, each input shows its element unless one at its place or before it
\* was removed (the inputs from there on keep their old values), and what the
\* form was told last lacks only blank elements that were added since.
ArrayShownIsSaved ==
    /\ Len(own) = Len(arrayValues)
    /\ \A i \in DOMAIN own : own[i] # arrayValues[i] => i >= lowest
    /\ reported # Nothing =>
          /\ IsPrefix(reported, arrayValues)
          /\ \A i \in Len(reported) + 1 .. Len(arrayValues) : arrayValues[i] = Blank
=============================================================================
