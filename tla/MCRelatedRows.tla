--------------------------- MODULE MCRelatedRows ---------------------------
(* Values of the constants of RelatedRows for TLC.                         *)
EXTENDS RelatedRows

CONSTANTS a, b, c, u1, u2, u3

Body(main, bidirectional, deleteIds, addIds) ==
    [main |-> main, bidirectional |-> bidirectional, deleteIds |-> deleteIds, addIds |-> addIds]

\* Updates from both ends of the pair <<a, b>>: replacing it by <<a, c>>,
\* deleting it, and adding it, with another, in one direction only.
MixedRequests ==
    {Body(a, TRUE, <<b>>, <<c>>), Body(b, TRUE, <<a>>, <<>>), Body(b, FALSE, <<>>, <<a, c>>)}
\* Adding and deleting the pair, each from its end.
OpposedRequests == {Body(a, TRUE, <<>>, <<b>>), Body(b, TRUE, <<a>>, <<>>)}

LinkedPair == {<<a, b>>, <<b, a>>}
=============================================================================
