SPECIFICATION Spec
CONSTANTS
    Sessions = {s1, s2}
    KeyOrder <- TwoKeyColumns
    Fields = {"x"}
    Values = {0, 1, 2}
    InitialRows <- CollidingRows
    ViewChoices <- WholeAndPart
    PageKeys <- TwoPages
    Inputs <- EnteredInputs
    MaxRequests = 2
    MaxMoves = 2
    None = None
SYMMETRY SessionSymmetry
INVARIANTS TypeOK FormShowsClickedRow
PROPERTIES DeletesWhatWasTicked EditsOnlyTheShownRow UneditedColumnsKept
CHECK_DEADLOCK FALSE
