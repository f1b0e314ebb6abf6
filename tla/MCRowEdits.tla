----------------------------- MODULE MCRowEdits -----------------------------
(* Values of the constants of RowEdits for TLC.                            *)
EXTENDS RowEdits, TLC

\* A key of two columns, one other column.
TwoKeyColumns == <<"a", "b">>
Row(a, b, x)  == [a |-> a, b |-> b, x |-> x]

\* Two rows whose joined keys are one, and a row both their filters reach.
CollidingRows == {Row(0, 1, 0), Row(1, 0, 0), Row(1, 1, 0)}

\* The whole table, or a page that holds one of the two rows and no other.
TwoPages == {[KeyColumns -> Values], {[a |-> 1, b |-> 0]}}

\* Another value for the data column, and another key.
EnteredInputs == {<<"x", 1>>, <<"a", 2>>}

SessionSymmetry == Permutations(Sessions)

\* The view shows everything, or leaves out a column of the key.
WholeAndPart == {{"a", "b", "x"}, {"b", "x"}}
=============================================================================
