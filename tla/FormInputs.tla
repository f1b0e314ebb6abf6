----------------------------- MODULE FormInputs -----------------------------
(***************************************************************************)
(* One field of the row form, of the kind its column's type resolves to:   *)
(* a time (TimeInput), a date or a date and time (DateTimeInput), edited   *)
(* with the pickers of datetime-picker.tsx, an array (ArrayInput), or a    *)
(* selection of several options (MultiSelect).                             *)
(* Fractions of a second are left out: every edit drops them.              *)
(***************************************************************************)
EXTENDS TimePicker, ArrayInput, MultiSelect

CONSTANTS
    Kinds,        \* the kinds of field tried
    LoadedTimes,  \* the times that rows hold
    LoadedDays,   \* and the days
    Offsets,      \* the browser's time zone: hours ahead of UTC today
    Digits,       \* the digit keys tried
    MonthLength,  \* days in a month
    Months,       \* the months the calendar may be turned to
    ChangedMonths, \* those in which the clock is not set as today
    ClockChange,  \* but by this many hours: -1 for winter time if today is in summer time
    Today,        \* the number of a day
    MaxKeys,      \* bound: keys and clicks
    None          \* no value

Days == [day : Int, hour : 0..23, minute : 0..59, second : 0..59]

ASSUME DaysAssumption ==
    /\ MonthLength \in Nat \ {0} /\ Months \subseteq Nat
    /\ ChangedMonths \subseteq Months /\ ClockChange \in {-1, 1}
    /\ Today \in Int /\ Today \div MonthLength \notin ChangedMonths /\ Offsets \subseteq -12..14
    /\ LoadedTimes \subseteq Times /\ LoadedDays \subseteq Int
    /\ \A day \in LoadedDays : day % MonthLength # 0 \* not where a month may change the clock
    /\ Digits \subseteq 0..9 /\ MaxKeys \in Nat /\ None \notin Days \union Int

VARIABLES
    kind,         \* "time", "date", "datetime", "array" or "multi"
    offset,       \* the browser's time zone, today
    value,        \* the field's value: a day and a time, local; or None
    month,        \* DateTimePicker: the month shown, with day and time
    displayDate,  \* DateTimePicker: what its button shows
    open,         \* the calendar is open
    period,       \* TimePicker: AM or PM
    flag,         \* of each unit: a first digit was typed, under two seconds ago
    prevIntKey,   \* the last digit typed for the hour
    keys,         \* counter of the bound
    loaded,       \* auxiliary: the time zone of the day that a date field was loaded with
    first,        \* auxiliary: the first digit of each unit
    last,         \* auxiliary: what the last change was made with
    periodAlone   \* auxiliary: a period was chosen for no time at all

inputVars == <<arrayVars, selectVars>>
calendar == <<month, displayDate, open>>
picker   == <<period, flag, prevIntKey, first, periodAlone>>
vars     == <<kind, offset, value, calendar, picker, keys, loaded, last, inputVars>>

MidnightOf(day) == [day |-> day, hour |-> 0, minute |-> 0, second |-> 0]
PeriodOf(date)  == IF date # None /\ date.hour >= 12 THEN "PM" ELSE "AM"
At(day, time)   == [day |-> day, hour |-> time.hour, minute |-> time.minute, second |-> time.second]

\* The time zone on a day: the clocks change between months.
OffsetOn(day) == offset + (IF day \div MonthLength \in ChangedMonths THEN ClockChange ELSE 0)

\* The day of a local date in UTC, where a date column's value is taken from.
UTCDay(date) ==
    LET h == date.hour - OffsetOn(date.day)
    IN  IF h < 0 THEN date.day - 1 ELSE IF h >= 24 THEN date.day + 1 ELSE date.day

\* A date column's value is midnight in UTC; a time has no day of its own.
Loaded(k, day, time) ==
    LET z == OffsetOn(day)
    IN  CASE k = "date" -> [MidnightOf(IF z < 0 THEN day - 1 ELSE day) EXCEPT !.hour = z % 24]
          [] k = "time" -> At(Today, time)
          [] OTHER -> At(day, time)

-----------------------------------------------------------------------------
(* The time picker.                                                        *)

\* What the picker edits: the field's time, or the calendar's date.
PickerDate == IF kind = "time" THEN value ELSE month
DateShown  == IF PickerDate = None THEN MidnightOf(Today) ELSE PickerDate
Shown(u)   == getDateByType(DateShown, u)

HasPicker == kind = "time" \/ (kind = "datetime" /\ open)
Key == keys < MaxKeys /\ keys' = keys + 1

\* onChange, of TimeInput or as DateTimePicker passes it.
Changes(date, with) ==
    /\ value' = date /\ last' = with
    /\ IF kind = "time" THEN UNCHANGED <<month, displayDate>>
       ELSE month' = date /\ displayDate' = date
    /\ UNCHANGED <<kind, offset, open, loaded, inputVars>>

\* handleKeyDown: a digit.
typeDigit(u, key) ==
    /\ HasPicker /\ Key
    /\ Changes(setDateByType(DateShown, calculateNewValue(u, Shown(u), flag[u], prevIntKey, key), u, period), u)
    /\ flag' = [flag EXCEPT ![u] = ~@]
    /\ first' = [first EXCEPT ![u] = IF flag[u] THEN @ ELSE key]
    /\ prevIntKey' = IF u = "12hours" THEN key ELSE prevIntKey
    /\ periodAlone' = (periodAlone /\ u # "12hours")
    /\ UNCHANGED period

\* handleKeyDown: ArrowUp and ArrowDown.
pressArrow(u, step) ==
    /\ HasPicker /\ Key
    /\ Changes(setDateByType(DateShown, getArrowByType(Shown(u), step, u), u, period), u)
    /\ flag' = [flag EXCEPT ![u] = FALSE]
    /\ periodAlone' = (periodAlone /\ u # "12hours")
    /\ UNCHANGED <<period, first, prevIntKey>>

\* Two seconds without the second digit.
digitTimeout(u) ==
    /\ flag[u] /\ flag' = [flag EXCEPT ![u] = FALSE]
    /\ UNCHANGED <<kind, offset, value, calendar, period, prevIntKey, first, periodAlone, keys,
                   loaded, last, inputVars>>

\* TimePeriodSelect: the list offers the period that is not shown.
choosePeriod(p) ==
    /\ HasPicker /\ p # period /\ Key
    /\ IF PickerDate = None
       THEN /\ period' = p /\ periodAlone' = TRUE
            /\ UNCHANGED <<kind, offset, value, calendar, loaded, last, inputVars>>
       ELSE LET date == setDateByType(PickerDate, display12HourValue(PickerDate.hour), "12hours", p)
            IN  /\ Changes(date, "period")
                /\ period' = PeriodOf(date) /\ periodAlone' = FALSE
    /\ UNCHANGED <<flag, prevIntKey, first>>

-----------------------------------------------------------------------------
(* The calendar.                                                           *)

HasCalendar == kind \in {"date", "datetime"}

\* The popover mounts a new picker, or unmounts it.
openPopover ==
    /\ HasCalendar /\ ~open /\ open' = TRUE
    /\ period' = PeriodOf(month)
    /\ flag' = [u \in Units |-> FALSE] /\ prevIntKey' = 0 /\ first' = [u \in Units |-> 0]
    /\ UNCHANGED <<kind, offset, value, month, displayDate, periodAlone, keys, loaded, last, inputVars>>

closePopover ==
    /\ open /\ open' = FALSE
    /\ UNCHANGED <<kind, offset, value, month, displayDate, picker, keys, loaded, last, inputVars>>

MonthStart(m) == m * MonthLength

BrowsedAtMidnight(m) == MidnightOf(MonthStart(m)) \* mutant: the time of day is reset

\* The days from today are rounded up: an hour more makes it the second.
Browsed(m) == At(MonthStart(m) + (IF m \in ChangedMonths /\ ClockChange < 0 THEN 1 ELSE 0), month)

\* Turning the calendar to another month changes the value as well.
handleMonthChange(m) ==
    /\ open /\ Key /\ month.day \div MonthLength # m
    /\ Changes(Browsed(m), "month")
    /\ UNCHANGED picker

PickedAtMidnight(day) == MidnightOf(day) \* mutant: the time of day is not carried over
PickedDay(day)        == At(day, month)

\* A day of the month shown; the day that is selected already is ignored.
onSelect(day) ==
    /\ open /\ Key /\ (IF displayDate = None THEN TRUE ELSE displayDate.day # day)
    /\ Changes(PickedDay(day), "day")
    /\ UNCHANGED picker

-----------------------------------------------------------------------------
Init ==
    /\ kind \in Kinds
    /\ offset \in (IF kind = "date" THEN Offsets ELSE {0})
    /\ \/ value = None /\ loaded = None
       \/ /\ kind \notin {"array", "multi"}
          /\ \E day \in LoadedDays, time \in LoadedTimes :
                /\ value = Loaded(kind, day, time)
                /\ loaded = (IF kind = "date" THEN OffsetOn(day) ELSE None)
    /\ month = (IF value = None THEN MidnightOf(Today) ELSE value)
    /\ displayDate = value
    /\ open = FALSE
    /\ period = PeriodOf(value)
    /\ flag = [u \in Units |-> FALSE] /\ prevIntKey = 0 /\ first = [u \in Units |-> 0]
    /\ keys = 0 /\ last = "none" /\ periodAlone = FALSE
    /\ IF kind = "array" THEN ArrayInit
       ELSE arrayValues = <<>> /\ own = <<>> /\ reported = Nothing /\ edits = 0 /\ lowest = MaxLength + 1
    /\ IF kind = "multi" THEN SelectInit ELSE SelectIdle(<<>>)

EditTime ==
    \/ \E u \in Units, key \in Digits : typeDigit(u, key)
    \/ \E u \in Units, step \in {-1, 1} : pressArrow(u, step)
    \/ \E u \in Units : digitTimeout(u)
    \/ \E p \in Periods : choosePeriod(p)

EditDate ==
    \/ openPopover \/ closePopover
    \/ \E m \in Months : handleMonthChange(m)
    \/ \E d \in 0..MonthLength - 1 : onSelect((month.day \div MonthLength) * MonthLength + d)

EditArray ==
    /\ kind = "array" /\ ArrayNext
    /\ UNCHANGED <<kind, offset, value, calendar, picker, keys, loaded, last, selectVars>>

EditSelection ==
    /\ kind = "multi" /\ SelectNext
    /\ UNCHANGED <<kind, offset, value, calendar, picker, keys, loaded, last, arrayVars>>

Next == EditTime \/ EditDate \/ EditArray \/ EditSelection

Spec == Init /\ [][Next]_vars

-----------------------------------------------------------------------------
(* Correctness.                                                            *)

\* Every variable has its type: whatever is typed, a time is a time of day.
TypeOK ==
    /\ kind \in Kinds /\ offset \in Offsets \union {0} /\ open \in BOOLEAN
    /\ value \in Days \union {None} /\ displayDate \in Days \union {None} /\ month \in Days
    /\ period \in Periods /\ flag \in [Units -> BOOLEAN]
    /\ prevIntKey \in 0..9 /\ first \in [Units -> 0..9]
    /\ keys \in 0..MaxKeys /\ loaded \in (-13..15) \union {None} /\ periodAlone \in BOOLEAN
    /\ ArrayTypeOK /\ SelectTypeOK

\* The time that the picker shows, its period included, is the time that will
\* be saved, and the calendar's button and its picker agree on it; except that
\* a period chosen where there is no time yet stays unused until the hour is
\* entered (TimePeriodSelect).
ShownIsSaved ==
    value # None =>
        /\ kind # "time" => displayDate = value /\ month = value
        /\ HasPicker /\ ~periodAlone =>
              /\ convert12HourTo24Hour(Shown("12hours"), period) = value.hour
              /\ Shown("minutes") = value.minute /\ Shown("seconds") = value.second

\* The inputs that keep a copy of the form's value save what they show: of an
\* array (ArrayShownIsSaved) and of a selection of several (SelectedIsSaved).
CopiesAreSaved == ArrayShownIsSaved /\ SelectedIsSaved

TouchedBy(with) ==
    CASE with = "12hours" -> {"hour"} [] with = "period" -> {"hour"}
      [] with = "minutes" -> {"minute"} [] with = "seconds" -> {"second"}
      [] OTHER -> {"day"}

\* Each control changes its own part of a value and no other: the minutes keep
\* the hour, the hour keeps its half of the day, the period keeps the hour on
\* the clock, and another day or month keeps the time (setDateByType,
\* handleMonthChange, onSelect).
OnePartChanges ==
    [][value # None /\ value' # value =>
          /\ \A part \in {"day", "hour", "minute", "second"} \ TouchedBy(last') : value'[part] = value[part]
          /\ last' = "12hours" /\ ~periodAlone => (value'.hour >= 12) = (value.hour >= 12)
          /\ last' = "period" => value'.hour % 12 = value.hour % 12]_vars

\* Two digits typed in time for a unit give the number they write, or the
\* nearest one that the unit takes, whatever the unit showed before and
\* whatever was done to the others in between (calculateNewValue).
TwoDigitsEnter ==
    [][\A u \in Units, key \in Digits :
          flag[u] /\ ~flag'[u] /\ typeDigit(u, key) =>
             getDateByType(value', u) =
                 Clamped(10 * first[u] + key, IF u = "12hours" THEN 1 ELSE 0, IF u = "12hours" THEN 12 ELSE 59)]_vars

\* The day that a date field shows is the day that is saved exactly if, in a
\* field that was empty, the browser is at UTC or behind it on that day; and in
\* one whose value was loaded at UTC or ahead of it, if the clock is not further
\* ahead on that day than on the day it was loaded with; and in one loaded
\* behind UTC, where every value shows as the day before it, if the clock is
\* further ahead (DateTimeInput, onSelect and handleMonthChange, which take the
\* hour of the loaded day over to a day on which it may be another hour of UTC).
SavedDayIsShown ==
    kind = "date" /\ value # None =>
        (UTCDay(value) = displayDate.day <=>
            IF loaded = None THEN OffsetOn(value.day) <= 0
            ELSE IF loaded >= 0 THEN OffsetOn(value.day) <= loaded
            ELSE OffsetOn(value.day) > loaded)
=============================================================================
