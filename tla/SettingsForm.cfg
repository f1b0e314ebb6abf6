SPECIFICATION Spec
CONSTANTS
    Admins = {a1, a2}
    Columns <- TwoColumns
    AutoType <- AutoTypes
    ArrayColumns = {"days"}
    TextColumns <- TextColumn
    Patterns = {"p"}
    JoinTables = {"j"}
    OtherTables = {"t"}
    Types = {"textarea", "datepicker", "select"}
    OptionLists <- OneList
    MaxEdits = 2
    MaxSaves = 2
    Undefined = Undefined
    Null = Null
SYMMETRY AdminSymmetry
INVARIANTS TypeOK UnmarkedIsAutodetected PagesRender
PROPERTIES OnlyEditedPartsChange
CHECK_DEADLOCK FALSE
