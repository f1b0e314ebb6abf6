---------------------------- MODULE MCFormInputs ----------------------------
(* Values of the constants of FormInputs for TLC.                          *)
EXTENDS FormInputs

\* Just before noon, noon, and a minute before midnight.
SomeTimes  == {[hour |-> 11, minute |-> 5, second |-> 0],
               [hour |-> 12, minute |-> 0, second |-> 59],
               [hour |-> 23, minute |-> 59, second |-> 30]}
\* Today is in summer time.
WinterTime == -1
WestToEast == {-5, 0, 2}
Arrays     == {<<>>, <<"x", "y">>, <<"x", "y", "x">>}
\* "gone" was an option when the row was saved.
Selections == {<<>>, <<"b", "gone">>, <<"gone", "a", "gone">>}
=============================================================================
