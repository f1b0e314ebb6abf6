SPECIFICATION Spec
CONSTANTS
    u1 = u1
    u2 = u2
    Uploads = {u1, u2}
    Mine = {u1, u2}
    Names = {m, n}
    Found = {m}
    Limit = 1
    None = None
    MaxTime = 1
    MaxEvents = 2
SYMMETRY Symmetry
INVARIANTS TypeOK UploadsKept CacheIsTrue ExportComplete SettledListIsFresh
PROPERTIES ClearedIsGone
CHECK_DEADLOCK FALSE
