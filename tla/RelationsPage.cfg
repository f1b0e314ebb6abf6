SPECIFICATION Spec
CONSTANTS
    a = a
    b = b
    c = c
    Items <- ThreeItems
    Mains = {a, b}
    Found = {b}
    Bidirectional = TRUE
    InitialLinks <- LinkedPair
    LimitInputs <- TypedLimits
    DefaultLimit = 2
    MaxLimit = 3
    NaN = NaN
    Undefined = Undefined
    MaxOffset = 1
    MaxEvents = 2
INVARIANTS TypeOK ChangesAreOwnOrUnseen FilterShownIsApplied PagerShownIsApplied
PROPERTIES UpdateMakesSelection
CHECK_DEADLOCK FALSE
