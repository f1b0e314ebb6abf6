SPECIFICATION FairSpec
CONSTANTS
    t1 = t1
    t2 = t2
    h1 = h1
    h2 = h2
    Nil = Nil
    Bad = Bad
    Null = Null
    Main = main
    Tables = {t1}
    Columns = {1, 2}
    TextColumns = {2}
    PrimaryKey = 1
    IncludedTables = {}
    Handlers = {h1, h2}
    Reloaders = {}
    Writers = {h1, h2}
    Patches <- OneKeyPatches
    ClientSelects <- NoSelection
    InitialCatalog <- OneTable
    Alterations <- AnyColumns
    MaxCatalogs = 1
    MaxRequests = 1
    MaxFaults = 0
    MaxStops = 0
PROPERTY AlwaysComesUp
CHECK_DEADLOCK FALSE
