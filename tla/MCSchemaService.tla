-------------------------- MODULE MCSchemaService --------------------------
(***************************************************************************)
(* Values of the constants of SchemaService for TLC.  Column 1 is the key, *)
(* column 2 is text.                                                       *)
(***************************************************************************)
EXTENDS SchemaService, TLC

CONSTANTS t1, t2, h1, h2

Patch(select, text) ==
    ("tableViewSelectColumns" :> select) @@ ("tableViewTextFiltersCols" :> text)

\* Saves of one key, of the other, of both, and of none of the two.
\* Of the last two bodies one does not decode and one is null.
AnyBodies       == {Patch({2}, Nil), Patch(Nil, {1}), Patch({1}, Nil), Patch(Bad, Nil), Null}
OneKeyPatches   == {Patch({2}, Nil), Patch(Nil, {1}), Patch({1}, Nil)}
BadPatches      == {Patch({2}, Nil), Patch(Bad, Nil)}
ClearingPatches == {Patch({}, Nil), Patch({2}, Nil)}

NoSelection    == {{}}

AnyColumns == {Nil} \union ColumnSet
KeyKept    == {Nil, {1}, {1, 2}}

OneTable   == (t1 :> {1, 2})
FirstOnly  == (t1 :> {1, 2}) @@ (t2 :> Nil)
=============================================================================
