SPECIFICATION FairSpec
CONSTANTS
    t1 = t1
    t2 = t2
    h1 = h1
    h2 = h2
    Nil = Nil
    Bad = Bad
    Null = Null
    Main = main
    Tables = {t1}
    Columns = {1, 2}
    TextColumns = {2}
    PrimaryKey = 1
    IncludedTables = {t1}
    Handlers = {h1, h2}
    Reloaders = {}
    Writers = {h1, h2}
    Patches <- AnyBodies
    ClientSelects <- NoSelection
    InitialCatalog <- OneTable
    Alterations <- AnyColumns
    MaxCatalogs = 2
    MaxRequests = 3
    MaxFaults = 1
    MaxStops = 1
INVARIANTS TypeOK ServedIsCommitted SavedFieldsSurvive SettledUnlessBehind
PROPERTIES ComesUp
CHECK_DEADLOCK FALSE
