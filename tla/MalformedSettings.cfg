SPECIFICATION FairSpec
CONSTANTS
    t1 = t1
    t2 = t2
    h1 = h1
    h2 = h2
    Nil = Nil
    Bad = Bad
    Null = Null
    Main = main
    Tables = {t1}
    Columns = {1, 2}
    TextColumns = {2}
    PrimaryKey = 1
    IncludedTables = {}
    Handlers = {h1, h2}
    Reloaders = {}
    Writers = {h1, h2}
    Patches <- BadPatches
    ClientSelects <- NoSelection
    InitialCatalog <- OneTable
    Alterations <- AnyColumns
    MaxCatalogs = 1
    MaxRequests = 1
    MaxFaults = 0
    MaxStops = 1
PROPERTY ComesUpAgain
CHECK_DEADLOCK FALSE
