----------------------------- MODULE TimePicker -----------------------------
(***************************************************************************)
(* The arithmetic of the time picker (components/ui/datetime-picker.tsx):  *)
(* what it shows of a time and what the keys make of it.  Its strings of   *)
(* two digits are the numbers they write.  The hour cycle is 12, the only  *)
(* one that TimeInput and DateTimeInput ask for.                           *)
(***************************************************************************)
EXTENDS Integers

Units   == {"12hours", "minutes", "seconds"}
Periods == {"AM", "PM"}
Times   == [hour : 0..23, minute : 0..59, second : 0..59]

\* getValidNumber, without and with loop.
Clamped(n, min, max) == IF n > max THEN max ELSE IF n < min THEN min ELSE n
Looped(n, min, max)  == IF n > max THEN min ELSE IF n < min THEN max ELSE n

UnclampedMinuteOrSecond(n) == n \* mutant: what is typed is taken as it is
getValid12Hour(n)        == Clamped(n, 1, 12)
getValidMinuteOrSecond(n) == Clamped(n, 0, 59)

MidnightIsNoon(hour, period) == IF period = "PM" /\ hour <= 11 THEN hour + 12 ELSE hour \* mutant

convert12HourTo24Hour(hour, period) ==
    IF period = "PM" THEN (IF hour <= 11 THEN hour + 12 ELSE hour)
    ELSE IF hour = 12 THEN 0 ELSE hour

display12HourValue(hours) ==
    IF hours \in {0, 12} THEN 12
    ELSE IF hours >= 22 THEN hours - 12
    ELSE IF hours % 12 > 9 THEN hours
    ELSE hours % 12

getDateByType(date, unit) ==
    CASE unit = "12hours" -> getValid12Hour(display12HourValue(date.hour))
      [] unit = "minutes" -> getValidMinuteOrSecond(date.minute)
      [] unit = "seconds" -> getValidMinuteOrSecond(date.second)

setDateByType(date, n, unit, period) ==
    CASE unit = "12hours" -> [date EXCEPT !.hour = convert12HourTo24Hour(getValid12Hour(n), period)]
      [] unit = "minutes" -> [date EXCEPT !.minute = getValidMinuteOrSecond(n)]
      [] unit = "seconds" -> [date EXCEPT !.second = getValidMinuteOrSecond(n)]

getArrowByType(n, step, unit) ==
    IF unit = "12hours" THEN Looped(n + step, 1, 12) ELSE Looped(n + step, 0, 59)

JoinedDigits(unit, shown, flag, prevIntKey, key) == \* mutant: a first 0 is not told from a 1
    IF flag THEN 10 * (shown % 10) + key ELSE key

\* The second digit is joined to the last one shown.  A 0 typed for the hour
\* shows as 01: then the second digit stands alone.
calculateNewValue(unit, shown, flag, prevIntKey, key) ==
    IF unit = "12hours" /\ flag /\ shown % 10 = 1 /\ prevIntKey = 0 THEN key
    ELSE IF flag THEN 10 * (shown % 10) + key ELSE key
=============================================================================
