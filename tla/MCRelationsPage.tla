--------------------------- MODULE MCRelationsPage ---------------------------
(* Values of the constants of RelationsPage for TLC.                       *)
EXTENDS RelationsPage

CONSTANTS a, b, c

ThreeItems  == <<a, b, c>>
LinkedPair  == {<<a, b>>, <<b, a>>}
\* Not a number, one that is raised to 1 and one that is lowered to MaxLimit.
TypedLimits == {NaN, 0, 5}
=============================================================================
