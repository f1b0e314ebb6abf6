SPECIFICATION Spec
CONSTANTS
    a = a
    b = b
    c = c
    u1 = u1
    u2 = u2
    u3 = u3
    Rows = {a, b, c}
    Updates = {u1, u2}
    Requests <- OpposedRequests
    InitialLinks <- LinkedPair
    Connections = 2
    MaxFaults = 0
INVARIANT SymmetricAlways
