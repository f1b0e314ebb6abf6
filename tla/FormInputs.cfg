SPECIFICATION Spec
CONSTANTS
    Elements = {"x", "y"}
    Blank = ""
    Stored <- Arrays
    MaxLength = 4
    MaxEdits = 4
    Nothing = Nothing
    Options = {"a", "b", "c"}
    StoredValues <- Selections
    MaxClicks = 6
    Kinds = {"time", "date", "datetime", "array", "multi"}
    LoadedTimes <- SomeTimes
    LoadedDays = {5, 9}
    Offsets <- WestToEast
    Digits = {0, 1, 2, 7}
    MonthLength = 4
    Months = {0, 1, 2}
    ChangedMonths = {2}
    ClockChange <- WinterTime
    Today = 5
    MaxKeys = 4
    None = None
INVARIANTS TypeOK ShownIsSaved SavedDayIsShown CopiesAreSaved
PROPERTIES OnePartChanges TwoDigitsEnter
CHECK_DEADLOCK FALSE
