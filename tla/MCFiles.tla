------------------------------- MODULE MCFiles -------------------------------
(* Values of the constants of Files for TLC.                               *)
EXTENDS Files, TLC

CONSTANTS u1, u2

\* The page's own uploads are alike.
Symmetry == Permutations(Mine)
=============================================================================
