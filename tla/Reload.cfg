SPECIFICATION Spec
CONSTANTS
    t1 = t1
    t2 = t2
    h1 = h1
    h2 = h2
    Nil = Nil
    Bad = Bad
    Null = Null
    Main = main
    Tables = {t1, t2}
    Columns = {1, 2}
    TextColumns = {2}
    PrimaryKey = 1
    IncludedTables = {}
    Handlers = {h1, h2}
    Reloaders = {h1, h2}
    Writers = {h2}
    Patches <- ClearingPatches
    ClientSelects <- NoSelection
    InitialCatalog <- FirstOnly
    Alterations <- KeyKept
    MaxCatalogs = 3
    MaxRequests = 2
    MaxFaults = 1
    MaxStops = 0
INVARIANTS OneLoad FreshReload ViewHeaderMatches UnknownIsNotListed
CHECK_DEADLOCK FALSE
