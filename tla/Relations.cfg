SPECIFICATION FairSpec
CONSTANTS
    a = a
    b = b
    c = c
    u1 = u1
    u2 = u2
    u3 = u3
    Rows = {a, b, c}
    Updates = {u1, u2, u3}
    Requests <- MixedRequests
    InitialLinks <- LinkedPair
    Connections = 2
    MaxFaults = 1
INVARIANTS TypeOK PendingOrSeen SymmetricUnlessCrossed
PROPERTIES AtomicUpdates EveryUpdateAnswered
CHECK_DEADLOCK FALSE
