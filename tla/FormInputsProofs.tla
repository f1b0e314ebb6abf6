-------------------------- MODULE FormInputsProofs --------------------------
(***************************************************************************)
(* Theorems about FormInputs for every value of its constants: what the    *)
(* time picker and the calendar make of a value, whatever is pressed and   *)
(* in whatever order, and what arrays and selections save, of any length.  *)
(***************************************************************************)
EXTENDS FormInputs, SequenceTheorems, WellFoundedInduction, TLAPS

-----------------------------------------------------------------------------
(* The clock.  An hour of the day is shown as one of 1..12 and a period,   *)
(* and comes back from them; an hour typed is shown as it was typed.       *)

LEMMA HourShown ==
    ASSUME NEW h \in 0..23
    PROVE  /\ display12HourValue(h) \in 1..12
           /\ convert12HourTo24Hour(display12HourValue(h), IF h >= 12 THEN "PM" ELSE "AM") = h
           /\ \A p \in Periods : convert12HourTo24Hour(display12HourValue(h), p) % 12 = h % 12
  BY DEF display12HourValue, convert12HourTo24Hour, Periods

LEMMA HourTyped ==
    ASSUME NEW n \in 1..12, NEW p \in Periods
    PROVE  /\ convert12HourTo24Hour(n, p) \in 0..23
           /\ display12HourValue(convert12HourTo24Hour(n, p)) = n
           /\ convert12HourTo24Hour(n, p) >= 12 <=> p = "PM"
  BY DEF display12HourValue, convert12HourTo24Hour, Periods

\* What a unit takes of a number, and what is shown of it.
Taken(u, n) == IF u = "12hours" THEN getValid12Hour(n) ELSE getValidMinuteOrSecond(n)

LEMMA TakenRange ==
    ASSUME NEW n \in Int
    PROVE  /\ getValid12Hour(n) \in 1..12 /\ getValidMinuteOrSecond(n) \in 0..59
           /\ n \in 1..12 => getValid12Hour(n) = n
           /\ n \in 0..59 => getValidMinuteOrSecond(n) = n
  BY DEF getValid12Hour, getValidMinuteOrSecond, Clamped

LEMMA DateRead ==
    ASSUME NEW d \in Days
    PROVE  /\ getDateByType(d, "12hours") = display12HourValue(d.hour)
           /\ getDateByType(d, "minutes") = d.minute
           /\ getDateByType(d, "seconds") = d.second
           /\ PeriodOf(d) = IF d.hour >= 12 THEN "PM" ELSE "AM"
  <1>1. d.hour \in 0..23 /\ d.minute \in 0..59 /\ d.second \in 0..59 /\ d # None
    BY DaysAssumption DEF Days
  <1>2. display12HourValue(d.hour) \in 1..12
    BY <1>1, HourShown
  <1>3. getDateByType(d, "12hours") = display12HourValue(d.hour)
    BY <1>2, TakenRange DEF getDateByType
  <1>4. getDateByType(d, "minutes") = d.minute
    BY <1>1, TakenRange DEF getDateByType
  <1>5. getDateByType(d, "seconds") = d.second
    BY <1>1, TakenRange DEF getDateByType
  <1>6. PeriodOf(d) = IF d.hour >= 12 THEN "PM" ELSE "AM"
    BY <1>1 DEF PeriodOf
  <1> QED
    BY <1>3, <1>4, <1>5, <1>6

\* Setting one unit leaves the others, and the day.
LEMMA DateSet ==
    ASSUME NEW d \in Days, NEW n \in Int, NEW u \in Units, NEW p \in Periods
    PROVE  \E e \in Days :
              /\ e = setDateByType(d, n, u, p) /\ e.day = d.day
              /\ u # "12hours" => e.hour = d.hour
              /\ u # "minutes" => e.minute = d.minute
              /\ u # "seconds" => e.second = d.second
              /\ u = "12hours" => PeriodOf(e) = p
              /\ getDateByType(e, u) = Taken(u, n)
  <1>1. CASE u = "12hours"
    <2>1. PICK h \in 0..23 : h = convert12HourTo24Hour(getValid12Hour(n), p)
      BY TakenRange, HourTyped
    <2>2. display12HourValue(h) = getValid12Hour(n) /\ (h >= 12 <=> p = "PM")
      BY <2>1, TakenRange, HourTyped
    <2>3. PICK e : e = [d EXCEPT !.hour = h]
      OBVIOUS
    <2>4. /\ e \in Days /\ e.hour = h /\ e.day = d.day
          /\ e.minute = d.minute /\ e.second = d.second
      BY <2>3 DEF Days
    <2>5. e = setDateByType(d, n, u, p)
      BY <1>1, <2>1, <2>3 DEF setDateByType
    <2>6. PeriodOf(e) = p
      BY <2>2, <2>4, DateRead DEF Periods
    <2>7. getDateByType(e, u) = Taken(u, n)
      BY <1>1, <2>2, <2>4, DateRead DEF Taken
    <2> QED
      BY <1>1, <2>4, <2>5, <2>6, <2>7
  <1>2. CASE u = "minutes"
    <2>1. PICK e : e = [d EXCEPT !.minute = getValidMinuteOrSecond(n)]
      OBVIOUS
    <2>2. /\ e \in Days /\ e.hour = d.hour /\ e.day = d.day
          /\ e.minute = getValidMinuteOrSecond(n) /\ e.second = d.second
      BY <2>1, TakenRange DEF Days
    <2>3. e = setDateByType(d, n, u, p)
      BY <1>2, <2>1 DEF setDateByType
    <2> QED
      BY <1>2, <2>2, <2>3, DateRead DEF Taken
  <1>3. CASE u = "seconds"
    <2>1. PICK e : e = [d EXCEPT !.second = getValidMinuteOrSecond(n)]
      OBVIOUS
    <2>2. /\ e \in Days /\ e.hour = d.hour /\ e.day = d.day
          /\ e.minute = d.minute /\ e.second = getValidMinuteOrSecond(n)
      BY <2>1, TakenRange DEF Days
    <2>3. e = setDateByType(d, n, u, p)
      BY <1>3, <2>1 DEF setDateByType
    <2> QED
      BY <1>3, <2>2, <2>3, DateRead DEF Taken
  <1> QED
    BY <1>1, <1>2, <1>3 DEF Units
\* ... and what is shown of them.
LEMMA DateKept ==
    ASSUME NEW d \in Days, NEW n \in Int, NEW u \in Units, NEW p \in Periods
    PROVE  \E e \in Days :
              /\ e = setDateByType(d, n, u, p)
              /\ getDateByType(e, u) = Taken(u, n)
              /\ \A v \in Units : v # u => getDateByType(e, v) = getDateByType(d, v)
              /\ PeriodOf(e) = IF u = "12hours" THEN p ELSE PeriodOf(d)
  <1>1. PICK e \in Days :
            /\ e = setDateByType(d, n, u, p)
            /\ u # "12hours" => e.hour = d.hour
            /\ u # "minutes" => e.minute = d.minute
            /\ u # "seconds" => e.second = d.second
            /\ u = "12hours" => PeriodOf(e) = p
            /\ getDateByType(e, u) = Taken(u, n)
    BY DateSet
  <1>2. ASSUME NEW v \in Units, v # u
        PROVE  getDateByType(e, v) = getDateByType(d, v)
    BY <1>1, <1>2, DateRead DEF Units
  <1>3. u # "12hours" => PeriodOf(e) = PeriodOf(d)
    BY <1>1, DateRead
  <1> QED
    BY <1>1, <1>2, <1>3

\* Another day leaves the time.
LEMMA DayKept ==
    ASSUME NEW d \in Days, NEW day \in Int
    PROVE  \E e \in Days :
              /\ e = At(day, d) /\ e.day = day
              /\ e.hour = d.hour /\ e.minute = d.minute /\ e.second = d.second
              /\ \A v \in Units : getDateByType(e, v) = getDateByType(d, v)
              /\ PeriodOf(e) = PeriodOf(d)
  <1>1. PICK e : e = [day |-> day, hour |-> d.hour, minute |-> d.minute, second |-> d.second]
    OBVIOUS
  <1>2. /\ e \in Days /\ e.day = day
        /\ e.hour = d.hour /\ e.minute = d.minute /\ e.second = d.second
    BY <1>1 DEF Days
  <1>3. e = At(day, d)
    BY <1>1 DEF At
  <1>4. ASSUME NEW v \in Units PROVE getDateByType(e, v) = getDateByType(d, v)
    BY <1>2, DateRead DEF Units
  <1>5. PeriodOf(e) = PeriodOf(d)
    BY <1>2, DateRead
  <1> QED
    BY <1>2, <1>3, <1>4, <1>5

-----------------------------------------------------------------------------
(* The inductive invariant.  Where the calendar edits, the form's value,   *)
(* the button and the picker have one date; the picker's period is that of *)
(* the hour; a unit with a digit typed shows that digit; and a date's hour *)
(* is the one it was loaded with, midnight in UTC on the loaded day.       *)

Types ==
    /\ kind \in Kinds /\ offset \in Offsets \union {0} /\ open \in BOOLEAN
    /\ value \in Days \union {None} /\ displayDate \in Days \union {None} /\ month \in Days
    /\ period \in Periods /\ flag \in [Units -> BOOLEAN]
    /\ prevIntKey \in 0..9 /\ first \in [Units -> 0..9]
    /\ keys \in 0..MaxKeys /\ loaded \in (-13..15) \union {None} /\ periodAlone \in BOOLEAN

OneDate ==
    /\ value = None => month = MidnightOf(Today) /\ displayDate = None
    /\ value # None /\ kind # "time" => displayDate = value /\ month = value

PickerShows ==
    HasPicker =>
        /\ ~periodAlone => period = PeriodOf(DateShown)
        /\ \A u \in Units : flag[u] => getDateByType(DateShown, u) = Taken(u, first[u])

FirstKept  == flag["12hours"] => prevIntKey = first["12hours"]
ZoneLoaded == loaded # None => loaded \in Int /\ offset - 1 <= loaded /\ loaded <= offset + 1
HourLoaded == kind = "date" => ZoneLoaded /\ month.hour = IF loaded = None THEN 0 ELSE loaded % 24

PickerInv == Types /\ OneDate /\ PickerShows /\ FirstKept /\ HourLoaded

LEMMA MidnightIsADay ==
    ASSUME NEW day \in Int
    PROVE  /\ MidnightOf(day) \in Days /\ MidnightOf(day).day = day
           /\ MidnightOf(day).hour = 0 /\ PeriodOf(MidnightOf(day)) = "AM"
  <1>1. PICK d : d = [day |-> day, hour |-> 0, minute |-> 0, second |-> 0]
    OBVIOUS
  <1>2. d \in Days /\ d.day = day /\ d.hour = 0
    BY <1>1 DEF Days
  <1>3. d = MidnightOf(day)
    BY <1>1 DEF MidnightOf
  <1> QED
    BY <1>2, <1>3, DateRead

LEMMA DateShownIsADay ==
    ASSUME Types
    PROVE  DateShown \in Days /\ (PickerDate # None => DateShown = PickerDate /\ PickerDate \in Days)
           /\ (kind # "time" => PickerDate = month /\ PickerDate # None)
  BY MidnightIsADay, DaysAssumption DEF Types, DateShown, PickerDate

\* A change of the value.
LEMMA Changed ==
    ASSUME PickerInv, NEW d \in Days, NEW with, Changes(d, with), Key
    PROVE  /\ kind' \in Kinds /\ offset' \in Offsets \union {0} /\ open' \in BOOLEAN
           /\ value' \in Days \union {None} /\ displayDate' \in Days \union {None} /\ month' \in Days
           /\ keys' \in 0..MaxKeys /\ loaded' \in (-13..15) \union {None}
           /\ OneDate' /\ DateShown' = d /\ PickerDate' = d
           /\ UNCHANGED <<kind, offset, open, loaded>> /\ value' = d /\ value' # None
           /\ kind # "time" => month' = d
  <1>1. /\ value' = d /\ UNCHANGED <<kind, offset, open, loaded>>
        /\ kind = "time" => UNCHANGED <<month, displayDate>>
        /\ kind # "time" => month' = d /\ displayDate' = d
    BY DEF Changes
  <1>2. d # None /\ keys' \in 0..MaxKeys
    BY DaysAssumption DEF Key, PickerInv, Types
  <1>3. OneDate'
    BY <1>1, <1>2 DEF OneDate
  <1>4. PickerDate' = d /\ DateShown' = d
    BY <1>1, <1>2 DEF PickerDate, DateShown
  <1> QED
    BY <1>1, <1>2, <1>3, <1>4 DEF PickerInv, Types

\* Whoever has the picker is no date field.
LEMMA PickerKinds ==
    ASSUME HasPicker PROVE kind # "date"
  BY DEF HasPicker

LEMMA typeDigitHolds ==
    ASSUME PickerInv, NEW u \in Units, NEW key \in Digits, typeDigit(u, key)
    PROVE  PickerInv'
  <1>1. DateShown \in Days /\ period \in Periods /\ flag \in [Units -> BOOLEAN]
        /\ prevIntKey \in 0..9 /\ first \in [Units -> 0..9] /\ key \in 0..9
    BY DateShownIsADay, DaysAssumption DEF PickerInv, Types
  <1>2. PICK n : n = calculateNewValue(u, Shown(u), flag[u], prevIntKey, key)
    OBVIOUS
  <1>3. Shown(u) \in Int
    <2>1. DateShown.hour \in 0..23 /\ DateShown.minute \in Int /\ DateShown.second \in Int
      BY <1>1 DEF Days
    <2>2. display12HourValue(DateShown.hour) \in 1..12
      BY <2>1, HourShown
    <2> QED
      BY <1>1, <2>1, <2>2, DateRead DEF Shown, Units
  <1>4. n \in Int /\ (~flag[u] => n = key)
    BY <1>1, <1>2, <1>3 DEF calculateNewValue
  <1>5. PICK e \in Days :
            /\ e = setDateByType(DateShown, n, u, period)
            /\ getDateByType(e, u) = Taken(u, n)
            /\ \A v \in Units : v # u => getDateByType(e, v) = getDateByType(DateShown, v)
            /\ PeriodOf(e) = IF u = "12hours" THEN period ELSE PeriodOf(DateShown)
    BY <1>1, <1>4, DateKept
  <1>6. /\ HasPicker /\ Key /\ Changes(e, u)
        /\ flag' = [flag EXCEPT ![u] = ~@]
        /\ first' = [first EXCEPT ![u] = IF flag[u] THEN @ ELSE key]
        /\ prevIntKey' = (IF u = "12hours" THEN key ELSE prevIntKey)
        /\ periodAlone' = (periodAlone /\ u # "12hours")
        /\ UNCHANGED period
    BY <1>2, <1>5 DEF typeDigit
  <1>7. /\ OneDate' /\ DateShown' = e /\ UNCHANGED <<kind, open>> /\ kind # "date"
    BY <1>6, Changed, PickerKinds
  <1>8. Types'
    <2>1. /\ flag' \in [Units -> BOOLEAN] /\ first' \in [Units -> 0..9]
          /\ prevIntKey' \in 0..9 /\ period' \in Periods
      BY <1>1, <1>6
    <2>2. periodAlone' \in BOOLEAN
      BY <1>6
    <2> QED
      BY <1>6, <2>1, <2>2, Changed DEF Types
  <1>9. PickerShows'
    <2>1. ~periodAlone' => period' = PeriodOf(e)
      BY <1>5, <1>6 DEF PickerInv, PickerShows
    <2>2. ASSUME NEW v \in Units, flag'[v]
          PROVE  getDateByType(e, v) = Taken(v, first'[v])
      <3>1. CASE v = u
        <4>1. ~flag[u] /\ first'[u] = key
          BY <1>1, <1>6, <2>2, <3>1
        <4> QED
          BY <1>4, <1>5, <3>1, <4>1
      <3>2. CASE v # u
        <4>1. flag[v] /\ first'[v] = first[v]
          BY <1>1, <1>6, <2>2, <3>2
        <4> QED
          BY <1>5, <1>6, <3>2, <4>1 DEF PickerInv, PickerShows
      <3> QED
        BY <3>1, <3>2
    <2> QED
      BY <1>7, <2>1, <2>2 DEF PickerShows
  <1>10. FirstKept'
    BY <1>1, <1>6 DEF FirstKept, PickerInv, Units
  <1>11. HourLoaded'
    BY <1>7 DEF HourLoaded, ZoneLoaded
  <1> QED
    BY <1>7, <1>8, <1>9, <1>10, <1>11 DEF PickerInv
\* A change through the picker that takes one unit out of typing.
LEMMA pressArrowHolds ==
    ASSUME PickerInv, NEW u \in Units, NEW step \in {-1, 1}, pressArrow(u, step)
    PROVE  PickerInv'
  <1>1. DateShown \in Days /\ period \in Periods /\ flag \in [Units -> BOOLEAN]
    BY DateShownIsADay DEF PickerInv, Types
  <1>2. PICK n : n = getArrowByType(Shown(u), step, u)
    OBVIOUS
  <1>3. Shown(u) \in Int
    <2>1. DateShown.hour \in 0..23 /\ DateShown.minute \in Int /\ DateShown.second \in Int
      BY <1>1 DEF Days
    <2>2. display12HourValue(DateShown.hour) \in 1..12
      BY <2>1, HourShown
    <2> QED
      BY <1>1, <2>1, <2>2, DateRead DEF Shown, Units
  <1>4. n \in Int
    BY <1>2, <1>3 DEF getArrowByType, Looped
  <1>5. PICK e \in Days :
            /\ e = setDateByType(DateShown, n, u, period)
            /\ getDateByType(e, u) = Taken(u, n)
            /\ \A v \in Units : v # u => getDateByType(e, v) = getDateByType(DateShown, v)
            /\ PeriodOf(e) = IF u = "12hours" THEN period ELSE PeriodOf(DateShown)
    BY <1>1, <1>4, DateKept
  <1>6. /\ HasPicker /\ Key /\ Changes(e, u)
        /\ flag' = [flag EXCEPT ![u] = FALSE]
        /\ periodAlone' = (periodAlone /\ u # "12hours")
        /\ UNCHANGED <<period, first, prevIntKey>>
    BY <1>2, <1>5 DEF pressArrow
  <1>7. /\ OneDate' /\ DateShown' = e /\ UNCHANGED <<kind, open>> /\ kind # "date"
    BY <1>6, Changed, PickerKinds
  <1>8. Types'
    <2>1. flag' \in [Units -> BOOLEAN] /\ UNCHANGED <<period, first, prevIntKey>>
      BY <1>1, <1>6
    <2>2. periodAlone' \in BOOLEAN
      BY <1>6
    <2> QED
      BY <1>6, <2>1, <2>2, Changed DEF Types, PickerInv
  <1>9. PickerShows'
    <2>1. ~periodAlone' => period' = PeriodOf(e)
      BY <1>5, <1>6 DEF PickerInv, PickerShows
    <2>2. ASSUME NEW v \in Units, flag'[v]
          PROVE  getDateByType(e, v) = Taken(v, first'[v])
      <3>1. v # u /\ flag[v] /\ first'[v] = first[v]
        BY <1>1, <1>6, <2>2
      <3> QED
        BY <1>5, <1>6, <3>1 DEF PickerInv, PickerShows
    <2> QED
      BY <1>7, <2>1, <2>2 DEF PickerShows
  <1>10. FirstKept'
    BY <1>1, <1>6 DEF FirstKept, PickerInv, Units
  <1>11. HourLoaded'
    BY <1>7 DEF HourLoaded, ZoneLoaded
  <1> QED
    BY <1>7, <1>8, <1>9, <1>10, <1>11 DEF PickerInv

LEMMA digitTimeoutHolds ==
    ASSUME PickerInv, NEW u \in Units, digitTimeout(u)
    PROVE  PickerInv'
  <1>1. /\ flag' = [flag EXCEPT ![u] = FALSE]
        /\ UNCHANGED <<kind, offset, value, month, displayDate, open, period, prevIntKey, first,
                       periodAlone, keys, loaded>>
    BY DEF digitTimeout, calendar
  <1>2. flag' \in [Units -> BOOLEAN] /\ \A v \in Units : flag'[v] => flag[v]
    BY <1>1 DEF PickerInv, Types
  <1>3. (HasPicker' <=> HasPicker) /\ DateShown' = DateShown
    BY <1>1 DEF HasPicker, DateShown, PickerDate
  <1>4. Types'
    BY <1>1, <1>2 DEF PickerInv, Types
  <1>5. PickerShows'
    BY <1>1, <1>2, <1>3 DEF PickerInv, PickerShows
  <1>6. OneDate' /\ FirstKept' /\ HourLoaded'
    BY <1>1, <1>2 DEF PickerInv, OneDate, FirstKept, HourLoaded, ZoneLoaded, Units
  <1> QED
    BY <1>4, <1>5, <1>6 DEF PickerInv

\* The date that another period makes of one: the same hour on the clock.
LEMMA PeriodSet ==
    ASSUME NEW d \in Days, NEW p \in Periods
    PROVE  \E e \in Days :
              /\ e = setDateByType(d, display12HourValue(d.hour), "12hours", p)
              /\ PeriodOf(e) = p
              /\ \A v \in Units : getDateByType(e, v) = getDateByType(d, v)
              /\ e.day = d.day /\ e.minute = d.minute /\ e.second = d.second
              /\ e.hour % 12 = d.hour % 12
  <1>1. d.hour \in 0..23
    BY DEF Days
  <1>2. PICK n \in 1..12 : n = display12HourValue(d.hour)
    BY <1>1, HourShown
  <1>3. getValid12Hour(n) = n
    BY TakenRange
  <1>4. PICK e \in Days :
            /\ e = setDateByType(d, n, "12hours", p) /\ e.day = d.day
            /\ e.minute = d.minute /\ e.second = d.second /\ PeriodOf(e) = p
            /\ getDateByType(e, "12hours") = Taken("12hours", n)
    BY DateSet DEF Units
  <1>5. \A v \in Units : getDateByType(e, v) = getDateByType(d, v)
    BY <1>2, <1>3, <1>4, DateRead DEF Units, Taken
  <1>6. e.hour = convert12HourTo24Hour(n, p)
    BY <1>3, <1>4 DEF setDateByType, Days
  <1>7. e.hour % 12 = d.hour % 12
    BY <1>1, <1>2, <1>6, HourShown
  <1> QED
    BY <1>2, <1>4, <1>5, <1>7

LEMMA choosePeriodHolds ==
    ASSUME PickerInv, NEW p \in Periods, choosePeriod(p)
    PROVE  PickerInv'
  <1>1. CASE PickerDate = None
    <2>1. /\ period' = p /\ periodAlone' = TRUE /\ Key
          /\ UNCHANGED <<kind, offset, value, month, displayDate, open, loaded, flag, prevIntKey, first>>
      BY <1>1 DEF choosePeriod, calendar
    <2>2. (HasPicker' <=> HasPicker) /\ DateShown' = DateShown
      BY <2>1 DEF HasPicker, DateShown, PickerDate
    <2>3. Types'
      <3>1. keys' \in 0..MaxKeys
        BY <2>1, DaysAssumption DEF PickerInv, Types, Key
      <3>2. periodAlone' \in BOOLEAN /\ period' \in Periods
        BY <2>1
      <3> QED
        BY <2>1, <3>1, <3>2 DEF PickerInv, Types
    <2>4. PickerShows'
      BY <2>1, <2>2 DEF PickerInv, PickerShows
    <2>5. OneDate' /\ FirstKept' /\ HourLoaded'
      BY <2>1 DEF PickerInv, OneDate, FirstKept, HourLoaded, ZoneLoaded
    <2> QED
      BY <2>3, <2>4, <2>5 DEF PickerInv
  <1>2. CASE PickerDate # None
    <2>1. DateShown = PickerDate /\ PickerDate \in Days
      BY <1>2, DateShownIsADay DEF PickerInv
    <2>2. PICK e \in Days :
              /\ e = setDateByType(PickerDate, display12HourValue(PickerDate.hour), "12hours", p)
              /\ PeriodOf(e) = p
              /\ \A v \in Units : getDateByType(e, v) = getDateByType(PickerDate, v)
      BY <2>1, PeriodSet
    <2>3. /\ HasPicker /\ Key /\ Changes(e, "period") /\ period' = p /\ periodAlone' = FALSE
          /\ UNCHANGED <<flag, prevIntKey, first>>
      BY <1>2, <2>2 DEF choosePeriod
    <2>4. OneDate' /\ DateShown' = e /\ UNCHANGED <<kind, open>> /\ kind # "date"
      BY <2>3, Changed, PickerKinds
    <2>5. Types'
      <3>1. periodAlone' \in BOOLEAN
        BY <2>3
      <3> QED
        BY <2>3, <3>1, Changed DEF Types, PickerInv
    <2>6. PickerShows'
      BY <2>1, <2>2, <2>3, <2>4 DEF PickerInv, PickerShows
    <2>7. FirstKept' /\ HourLoaded'
      BY <2>3, <2>4 DEF PickerInv, FirstKept, HourLoaded, ZoneLoaded
    <2> QED
      BY <2>4, <2>5, <2>6, <2>7 DEF PickerInv
  <1> QED
    BY <1>1, <1>2

\* The calendar's changes keep the time of the date shown.
LEMMA CalendarChange ==
    ASSUME PickerInv, NEW day \in Int, NEW with, open, kind # "time",
           Key, Changes(At(day, month), with), UNCHANGED picker
    PROVE  PickerInv'
  <1>1. month \in Days
    BY DEF PickerInv, Types
  <1>2. PICK e \in Days :
            /\ e = At(day, month) /\ e.hour = month.hour
            /\ \A v \in Units : getDateByType(e, v) = getDateByType(month, v)
            /\ PeriodOf(e) = PeriodOf(month)
    BY <1>1, DayKept
  <1>3. Changes(e, with) /\ UNCHANGED <<period, flag, prevIntKey, first, periodAlone>>
    BY <1>2 DEF picker
  <1>4. /\ OneDate' /\ DateShown' = e /\ UNCHANGED <<kind, offset, loaded, open>> /\ month' = e
    BY <1>3, Changed
  <1>5. DateShown = month /\ (HasPicker' <=> HasPicker)
    BY <1>4, DateShownIsADay DEF HasPicker, PickerInv
  <1>6. Types'
    BY <1>3, Changed DEF Types, PickerInv
  <1>7. PickerShows'
    BY <1>2, <1>3, <1>4, <1>5 DEF PickerInv, PickerShows
  <1>8. FirstKept' /\ HourLoaded'
    BY <1>2, <1>3, <1>4 DEF PickerInv, FirstKept, HourLoaded, ZoneLoaded
  <1> QED
    BY <1>4, <1>6, <1>7, <1>8 DEF PickerInv

\* Only fields with a calendar open it.
OpenKinds == open => kind \in {"date", "datetime"}

LEMMA handleMonthChangeHolds ==
    ASSUME PickerInv, OpenKinds, NEW m \in Months, handleMonthChange(m)
    PROVE  PickerInv'
  <1>1. PICK day : day = MonthStart(m) + (IF m \in ChangedMonths /\ ClockChange < 0 THEN 1 ELSE 0)
    OBVIOUS
  <1>2. day \in Int
    BY <1>1, DaysAssumption DEF MonthStart
  <1>3. open /\ kind # "time" /\ Key /\ Changes(At(day, month), "month") /\ UNCHANGED picker
    BY <1>1 DEF handleMonthChange, Browsed, OpenKinds
  <1> QED
    BY <1>2, <1>3, CalendarChange

LEMMA onSelectHolds ==
    ASSUME PickerInv, OpenKinds, NEW day \in Int, onSelect(day)
    PROVE  PickerInv'
  <1>1. open /\ kind # "time" /\ Key /\ Changes(At(day, month), "day") /\ UNCHANGED picker
    BY DEF onSelect, PickedDay, OpenKinds
  <1> QED
    BY <1>1, CalendarChange

LEMMA PopoverHolds ==
    ASSUME PickerInv, openPopover \/ closePopover
    PROVE  PickerInv'
  <1>1. UNCHANGED <<kind, offset, value, month, displayDate, periodAlone, keys, loaded>>
    BY DEF openPopover, closePopover, picker
  <1>2. OneDate' /\ HourLoaded'
    BY <1>1 DEF PickerInv, OneDate, HourLoaded, ZoneLoaded
  <1>3. CASE openPopover
    <2>1. /\ open' = TRUE /\ period' = PeriodOf(month) /\ kind # "time"
          /\ flag' = [u \in Units |-> FALSE] /\ prevIntKey' = 0 /\ first' = [u \in Units |-> 0]
      BY <1>3 DEF openPopover, HasCalendar
    <2>2. DateShown' = month
      <3>1. PickerDate' = month /\ month # None
        BY <1>1, <2>1, DaysAssumption DEF PickerDate, PickerInv, Types
      <3> QED
        BY <3>1 DEF DateShown
    <2>3. Types'
      <3>1. period' \in Periods /\ flag' \in [Units -> BOOLEAN] /\ first' \in [Units -> 0..9]
        BY <2>1 DEF PeriodOf, Periods
      <3> QED
        BY <1>1, <2>1, <3>1 DEF PickerInv, Types
    <2>4. PickerShows' /\ FirstKept'
      BY <2>1, <2>2 DEF PickerShows, FirstKept, Units
    <2> QED
      BY <1>2, <2>3, <2>4 DEF PickerInv
  <1>4. CASE closePopover
    <2>1. open' = FALSE /\ UNCHANGED <<period, flag, prevIntKey, first>>
      BY <1>4 DEF closePopover, picker
    <2>2. (HasPicker' => HasPicker) /\ DateShown' = DateShown
      BY <1>1, <2>1 DEF HasPicker, DateShown, PickerDate
    <2>3. Types'
      BY <1>1, <2>1 DEF PickerInv, Types
    <2>4. PickerShows' /\ FirstKept'
      BY <1>1, <2>1, <2>2 DEF PickerInv, PickerShows, FirstKept
    <2> QED
      BY <1>2, <2>3, <2>4 DEF PickerInv
  <1> QED
    BY <1>3, <1>4
\* The other kinds of field.
LEMMA OtherFields ==
    ASSUME PickerInv, OpenKinds, UNCHANGED <<kind, offset, value, calendar, picker, keys, loaded>>
    PROVE  PickerInv' /\ OpenKinds'
  <1>1. UNCHANGED <<kind, offset, value, month, displayDate, open, period, flag, prevIntKey, first,
                    periodAlone, keys, loaded>>
    BY DEF calendar, picker
  <1>2. (HasPicker' <=> HasPicker) /\ DateShown' = DateShown
    BY <1>1 DEF HasPicker, DateShown, PickerDate
  <1>3. Types' /\ OneDate' /\ FirstKept' /\ HourLoaded' /\ OpenKinds'
    BY <1>1 DEF PickerInv, Types, OneDate, FirstKept, HourLoaded, ZoneLoaded, OpenKinds
  <1>4. PickerShows'
    BY <1>1, <1>2 DEF PickerInv, PickerShows
  <1> QED
    BY <1>3, <1>4 DEF PickerInv

\* A day's time zone is at most an hour from today's.
LEMMA ZoneOnDay ==
    ASSUME offset \in Offsets \union {0}, NEW day
    PROVE  \E z \in -13..15 : z = OffsetOn(day) /\ offset - 1 <= z /\ z <= offset + 1
  <1>1. offset \in -12..14 /\ ClockChange \in {-1, 1}
    BY DaysAssumption
  <1>2. OffsetOn(day) = offset + 0 \/ OffsetOn(day) = offset + ClockChange
    BY <1>1 DEF OffsetOn
  <1> QED
    BY <1>1, <1>2

LEMMA LoadedIsADay ==
    ASSUME offset \in Offsets \union {0}, NEW k, NEW day \in LoadedDays, NEW t \in LoadedTimes
    PROVE  /\ Loaded(k, day, t) \in Days
           /\ k = "date" => Loaded(k, day, t).hour = OffsetOn(day) % 24
  <1>1. day \in Int /\ t \in Times /\ Today \in Int
    BY DaysAssumption
  <1>2. PICK z \in -13..15 : z = OffsetOn(day)
    BY ZoneOnDay
  <1>3. CASE k = "date"
    <2>1. PICK d : d = MidnightOf(IF z < 0 THEN day - 1 ELSE day)
      OBVIOUS
    <2>2. d \in Days
      BY <1>1, <1>2, <2>1, MidnightIsADay
    <2>3. PICK e : e = [d EXCEPT !.hour = z % 24]
      OBVIOUS
    <2>4. e \in Days /\ e.hour = z % 24
      BY <1>2, <2>2, <2>3 DEF Days
    <2>5. e = Loaded(k, day, t)
      BY <1>2, <1>3, <2>1, <2>3 DEF Loaded
    <2> QED
      BY <1>2, <2>4, <2>5
  <1>4. CASE k # "date"
    <2>1. At(Today, t) \in Days /\ At(day, t) \in Days
      BY <1>1 DEF At, Days, Times
    <2>2. Loaded(k, day, t) = At(Today, t) \/ Loaded(k, day, t) = At(day, t)
      BY <1>4 DEF Loaded
    <2> QED
      BY <1>4, <2>1, <2>2
  <1> QED
    BY <1>3, <1>4

LEMMA PickerStarts == Init => PickerInv /\ OpenKinds
  <1> SUFFICES ASSUME Init PROVE PickerInv /\ OpenKinds
    OBVIOUS
  <1>1. /\ kind \in Kinds /\ offset \in Offsets \union {0} /\ open = FALSE
        /\ month = (IF value = None THEN MidnightOf(Today) ELSE value)
        /\ displayDate = value /\ period = PeriodOf(value)
        /\ flag = [u \in Units |-> FALSE] /\ prevIntKey = 0 /\ first = [u \in Units |-> 0]
        /\ keys = 0 /\ periodAlone = FALSE
    BY DEF Init
  <1>2. \/ value = None /\ loaded = None
        \/ \E day \in LoadedDays, time \in LoadedTimes :
               /\ value = Loaded(kind, day, time)
               /\ loaded = (IF kind = "date" THEN OffsetOn(day) ELSE None)
    BY DEF Init
  <1>3. /\ value \in Days \union {None} /\ loaded \in (-13..15) \union {None} /\ ZoneLoaded
        /\ value = None => loaded = None
        /\ kind = "date" /\ value # None => loaded # None /\ value.hour = loaded % 24
    <2>1. CASE value = None /\ loaded = None
      BY <2>1 DEF ZoneLoaded
    <2>2. ASSUME NEW day \in LoadedDays, NEW time \in LoadedTimes, value = Loaded(kind, day, time),
                 loaded = (IF kind = "date" THEN OffsetOn(day) ELSE None)
          PROVE  /\ value \in Days /\ loaded \in (-13..15) \union {None} /\ ZoneLoaded
                 /\ kind = "date" => loaded # None /\ value.hour = loaded % 24
      <3>1. value \in Days /\ (kind = "date" => value.hour = OffsetOn(day) % 24)
        BY <1>1, <2>2, LoadedIsADay
      <3>2. PICK z \in -13..15 : z = OffsetOn(day) /\ offset - 1 <= z /\ z <= offset + 1
        BY <1>1, ZoneOnDay
      <3>3. z # None
        BY DaysAssumption
      <3> QED
        BY <2>2, <3>1, <3>2, <3>3 DEF ZoneLoaded
    <2>3. None \notin Days
      BY DaysAssumption
    <2> QED
      BY <1>2, <2>1, <2>2, <2>3
  <1>4. MidnightOf(Today) \in Days /\ MidnightOf(Today).hour = 0 /\ PeriodOf(MidnightOf(Today)) = "AM"
    BY MidnightIsADay, DaysAssumption
  <1>5. None \notin Days
    BY DaysAssumption
  <1>6. Types
    <2>1. period \in Periods /\ keys \in 0..MaxKeys
      BY <1>1, DaysAssumption DEF PeriodOf, Periods
    <2>2. loaded \in (-13..15) \union {None} /\ periodAlone \in BOOLEAN /\ open \in BOOLEAN
      BY <1>1, <1>3
    <2>3. month \in Days /\ value \in Days \union {None} /\ displayDate \in Days \union {None}
      BY <1>1, <1>3, <1>4
    <2>4. flag \in [Units -> BOOLEAN] /\ prevIntKey \in 0..9 /\ first \in [Units -> 0..9]
      BY <1>1
    <2> QED
      BY <1>1, <2>1, <2>2, <2>3, <2>4 DEF Types
  <1>7. OneDate
    BY <1>1 DEF OneDate
  <1>8. PickerShows
    <2>1. HasPicker => kind = "time"
      BY <1>1 DEF HasPicker
    <2>2. kind = "time" => period = PeriodOf(DateShown)
      BY <1>1, <1>4 DEF DateShown, PickerDate, PeriodOf
    <2> QED
      BY <1>1, <2>1, <2>2 DEF PickerShows
  <1>9. FirstKept
    BY <1>1 DEF FirstKept, Units
  <1>10. HourLoaded
    BY <1>1, <1>2, <1>3, <1>4 DEF HourLoaded, ZoneLoaded
  <1>11. OpenKinds
    BY <1>1 DEF OpenKinds
  <1> QED
    BY <1>6, <1>7, <1>8, <1>9, <1>10, <1>11 DEF PickerInv

LEMMA OpenKindsHolds ==
    ASSUME OpenKinds, EditTime \/ EditDate
    PROVE  OpenKinds'
  BY DEF OpenKinds, EditTime, EditDate, typeDigit, pressArrow, digitTimeout, choosePeriod,
     calendar, openPopover, HasCalendar, closePopover, handleMonthChange, onSelect, Changes

LEMMA PickerSteps ==
    ASSUME PickerInv, OpenKinds, EditTime \/ EditDate
    PROVE  PickerInv'
  <1>1. ASSUME NEW m \in Months, handleMonthChange(m) PROVE PickerInv'
    BY <1>1, handleMonthChangeHolds
  <1>2. ASSUME NEW d \in 0..MonthLength - 1, onSelect((month.day \div MonthLength) * MonthLength + d)
        PROVE  PickerInv'
    <2>1. month.day \in Int /\ MonthLength \in Nat \ {0}
      BY DaysAssumption DEF PickerInv, Types, Days
    <2>2. PICK q \in Int : q = month.day \div MonthLength
      BY <2>1
    <2>3. q * MonthLength + d \in Int
      BY <2>1, <2>2
    <2> QED
      BY <1>2, <2>2, <2>3, onSelectHolds
  <1> QED
    BY <1>1, <1>2, typeDigitHolds, pressArrowHolds, digitTimeoutHolds, choosePeriodHolds,
       PopoverHolds DEF EditTime, EditDate

LEMMA PickerHolds == Spec => [](PickerInv /\ OpenKinds)
  <1>1. PickerInv /\ OpenKinds /\ [Next]_vars => PickerInv' /\ OpenKinds'
    <2> SUFFICES ASSUME PickerInv, OpenKinds, [Next]_vars
                 PROVE  PickerInv' /\ OpenKinds'
      OBVIOUS
    <2>1. CASE EditTime \/ EditDate
      BY <2>1, PickerSteps, OpenKindsHolds
    <2>2. CASE EditArray \/ EditSelection \/ UNCHANGED vars
      <3>1. UNCHANGED <<kind, offset, value, calendar, picker, keys, loaded>>
        BY <2>2 DEF EditArray, EditSelection, vars
      <3> QED
        BY <3>1, OtherFields
    <2> QED
      BY <2>1, <2>2 DEF Next
  <1> QED
    BY <1>1, PickerStarts, PTL DEF Spec
-----------------------------------------------------------------------------
(* What the properties say of it.                                          *)

\* What is shown of a value, the period included, is what will be saved
\* (datetime-picker.tsx TimePickerInput, TimePeriodSelect, DateTimePicker).
THEOREM ShownTimeIsSaved == Spec => []ShownIsSaved
  <1>1. PickerInv => ShownIsSaved
    <2> SUFFICES ASSUME PickerInv, value # None
                 PROVE  /\ kind # "time" => displayDate = value /\ month = value
                        /\ HasPicker /\ ~periodAlone =>
                              /\ convert12HourTo24Hour(Shown("12hours"), period) = value.hour
                              /\ Shown("minutes") = value.minute /\ Shown("seconds") = value.second
      BY DEF ShownIsSaved
    <2>1. kind # "time" => displayDate = value /\ month = value
      BY DEF PickerInv, OneDate
    <2>2. ASSUME HasPicker, ~periodAlone
          PROVE  /\ convert12HourTo24Hour(Shown("12hours"), period) = value.hour
                 /\ Shown("minutes") = value.minute /\ Shown("seconds") = value.second
      <3>1. DateShown = value /\ value \in Days
        BY <2>1 DEF DateShown, PickerDate, PickerInv, Types
      <3>2. period = (IF value.hour >= 12 THEN "PM" ELSE "AM") /\ value.hour \in 0..23
        BY <2>2, <3>1, DateRead DEF PickerInv, PickerShows, Days
      <3>3. Shown("12hours") = display12HourValue(value.hour)
        BY <3>1, DateRead DEF Shown
      <3>4. convert12HourTo24Hour(Shown("12hours"), period) = value.hour
        BY <3>2, <3>3, HourShown
      <3> QED
        BY <3>1, <3>4, DateRead DEF Shown
    <2> QED
      BY <2>1, <2>2
  <1> QED
    BY <1>1, PickerHolds, PTL

\* The day that a date field shows is the one that is saved in exactly the
\* cases that SavedDayIsShown tells apart, in every time zone, with summer time
\* or without, whatever days and months are picked (DateTimeInput.tsx).
THEOREM ShownDayIsSaved == Spec => []SavedDayIsShown
  <1>1. PickerInv => SavedDayIsShown
    <2> SUFFICES ASSUME PickerInv, kind = "date", value # None
                 PROVE  UTCDay(value) = displayDate.day <=>
                            IF loaded = None THEN OffsetOn(value.day) <= 0
                            ELSE IF loaded >= 0 THEN OffsetOn(value.day) <= loaded
                            ELSE OffsetOn(value.day) > loaded
      BY DEF SavedDayIsShown
    <2>1. displayDate = value /\ month = value /\ value \in Days /\ value.day \in Int
      BY DEF PickerInv, OneDate, Types, Days
    <2>2. offset \in Offsets \union {0} /\ offset \in Int
      BY DaysAssumption DEF PickerInv, Types
    <2>3. PICK z \in -13..15 : z = OffsetOn(value.day) /\ offset - 1 <= z /\ z <= offset + 1
      BY <2>2, ZoneOnDay
    <2>4. value.hour = IF loaded = None THEN 0 ELSE loaded % 24
      BY <2>1 DEF PickerInv, HourLoaded
    <2>5. (UTCDay(value) = value.day) <=> (value.hour - z \in 0..23)
      <3>1. PICK h \in Int : h = value.hour - z
        BY <2>1 DEF Days
      <3>2. UTCDay(value) = IF h < 0 THEN value.day - 1 ELSE IF h >= 24 THEN value.day + 1 ELSE value.day
        BY <2>3, <3>1 DEF UTCDay
      <3> QED
        BY <2>1, <3>1, <3>2
    <2>6. CASE loaded = None
      BY <2>1, <2>3, <2>4, <2>5, <2>6
    <2>7. CASE loaded # None
      <3>1. PICK l \in -13..15 : l = loaded /\ offset - 1 <= l /\ l <= offset + 1
        BY <2>7 DEF PickerInv, Types, HourLoaded, ZoneLoaded
      <3>2. l >= 0 => l % 24 = l
        OBVIOUS
      <3>3. l < 0 => l % 24 = l + 24
        OBVIOUS
      <3>4. CASE l >= 0
        BY <2>1, <2>2, <2>3, <2>4, <2>5, <2>7, <3>1, <3>2, <3>4
      <3>5. CASE l < 0
        BY <2>1, <2>2, <2>3, <2>4, <2>5, <2>7, <3>1, <3>3, <3>5
      <3> QED
        BY <3>1, <3>4, <3>5
    <2> QED
      BY <2>6, <2>7
  <1> QED
    BY <1>1, PickerHolds, PTL

\* What a control may change of a date.
Keeps(before, after, with, alone) ==
    /\ \A part \in {"day", "hour", "minute", "second"} \ TouchedBy(with) : after[part] = before[part]
    /\ with = "12hours" /\ ~alone => (after.hour >= 12) = (before.hour >= 12)
    /\ with = "period" => after.hour % 12 = before.hour % 12

LEMMA ValueIsShown ==
    ASSUME PickerInv, value # None
    PROVE  value \in Days /\ DateShown = value /\ (kind # "time" => month = value)
  BY DEF PickerInv, Types, OneDate, DateShown, PickerDate

\* The keys, of digits and arrows, set one unit.
LEMMA UnitKeeps ==
    ASSUME PickerInv, HasPicker, value # None, NEW u \in Units, NEW n \in Int
    PROVE  Keeps(value, setDateByType(DateShown, n, u, period), u, periodAlone)
  <1>1. value \in Days /\ DateShown = value /\ period \in Periods
    BY ValueIsShown DEF PickerInv, Types
  <1>2. PICK e \in Days :
            /\ e = setDateByType(value, n, u, period) /\ e.day = value.day
            /\ u # "12hours" => e.hour = value.hour
            /\ u # "minutes" => e.minute = value.minute
            /\ u # "seconds" => e.second = value.second
            /\ u = "12hours" => PeriodOf(e) = period
    BY <1>1, DateSet
  <1>3. \A part \in {"day", "hour", "minute", "second"} \ TouchedBy(u) : e[part] = value[part]
    BY <1>2 DEF TouchedBy, Units
  <1>4. ASSUME u = "12hours", ~periodAlone PROVE (e.hour >= 12) = (value.hour >= 12)
    <2>1. PeriodOf(e) = PeriodOf(value)
      BY <1>1, <1>2, <1>4 DEF PickerInv, PickerShows
    <2> QED
      BY <1>1, <1>2, <2>1, DateRead
  <1>5. Keeps(value, e, u, periodAlone)
    BY <1>3, <1>4 DEF Keeps, Units
  <1> QED
    BY <1>1, <1>2, <1>5

LEMMA UnitsShown ==
    ASSUME PickerInv, NEW u \in Units
    PROVE  Shown(u) \in Int
  <1>1. DateShown \in Days
    BY DateShownIsADay DEF PickerInv
  <1>2. DateShown.hour \in 0..23 /\ DateShown.minute \in Int /\ DateShown.second \in Int
    BY <1>1 DEF Days
  <1>3. display12HourValue(DateShown.hour) \in 1..12
    BY <1>2, HourShown
  <1> QED
    BY <1>1, <1>2, <1>3, DateRead DEF Shown, Units

\* The value a step makes, and what it was made with.
LEMMA OneControl ==
    ASSUME PickerInv, OpenKinds, [Next]_vars, value # None, value' # value
    PROVE  Keeps(value, value', last', periodAlone)
  <1>1. ASSUME NEW u \in Units, NEW key \in Digits, typeDigit(u, key)
        PROVE  Keeps(value, value', last', periodAlone)
    <2>1. PICK n : n = calculateNewValue(u, Shown(u), flag[u], prevIntKey, key)
      OBVIOUS
    <2>2. n \in Int
      <3>1. key \in Int /\ Shown(u) \in Int
        BY DaysAssumption, UnitsShown
      <3> QED
        BY <2>1, <3>1 DEF calculateNewValue
    <2>3. HasPicker /\ value' = setDateByType(DateShown, n, u, period) /\ last' = u
      BY <1>1, <2>1 DEF typeDigit, Changes
    <2>4. Keeps(value, setDateByType(DateShown, n, u, period), u, periodAlone)
      BY <2>2, <2>3, UnitKeeps
    <2> QED
      BY <2>3, <2>4
  <1>2. ASSUME NEW u \in Units, NEW step \in {-1, 1}, pressArrow(u, step)
        PROVE  Keeps(value, value', last', periodAlone)
    <2>1. PICK n : n = getArrowByType(Shown(u), step, u)
      OBVIOUS
    <2>2. n \in Int
      BY <2>1, UnitsShown DEF getArrowByType, Looped
    <2>3. HasPicker /\ value' = setDateByType(DateShown, n, u, period) /\ last' = u
      BY <1>2, <2>1 DEF pressArrow, Changes
    <2>4. Keeps(value, setDateByType(DateShown, n, u, period), u, periodAlone)
      BY <2>2, <2>3, UnitKeeps
    <2> QED
      BY <2>3, <2>4
  <1>3. ASSUME NEW p \in Periods, choosePeriod(p)
        PROVE  Keeps(value, value', last', periodAlone)
    <2>1. value \in Days /\ PickerDate = value
      BY ValueIsShown DEF PickerDate
    <2>2. PICK e \in Days :
              /\ e = setDateByType(value, display12HourValue(value.hour), "12hours", p)
              /\ e.day = value.day /\ e.minute = value.minute /\ e.second = value.second
              /\ e.hour % 12 = value.hour % 12
      BY <2>1, PeriodSet
    <2>3. value' = e /\ last' = "period"
      BY <1>3, <2>1, <2>2 DEF choosePeriod, Changes
    <2>4. Keeps(value, e, "period", periodAlone)
      BY <2>2 DEF Keeps, TouchedBy
    <2> QED
      BY <2>3, <2>4
  <1>4. ASSUME NEW day \in Int, NEW with \in {"day", "month"}, open, Changes(At(day, month), with)
        PROVE  Keeps(value, value', last', periodAlone)
    <2>1. value \in Days /\ month = value
      BY <1>4, ValueIsShown DEF OpenKinds
    <2>2. PICK e \in Days :
              /\ e = At(day, value) /\ e.hour = value.hour
              /\ e.minute = value.minute /\ e.second = value.second
      BY <2>1, DayKept
    <2>3. value' = e /\ last' = with
      BY <1>4, <2>1, <2>2 DEF Changes
    <2>4. Keeps(value, e, with, periodAlone)
      BY <2>2 DEF Keeps, TouchedBy
    <2> QED
      BY <2>3, <2>4
  <1>5. ASSUME NEW m \in Months, handleMonthChange(m)
        PROVE  Keeps(value, value', last', periodAlone)
    <2>1. PICK day : day = MonthStart(m) + (IF m \in ChangedMonths /\ ClockChange < 0 THEN 1 ELSE 0)
      OBVIOUS
    <2>2. day \in Int /\ open /\ Changes(At(day, month), "month")
      BY <1>5, <2>1, DaysAssumption DEF MonthStart, handleMonthChange, Browsed
    <2> QED
      BY <1>4, <2>2
  <1>6. ASSUME NEW d \in 0..MonthLength - 1, onSelect((month.day \div MonthLength) * MonthLength + d)
        PROVE  Keeps(value, value', last', periodAlone)
    <2>1. month.day \in Int /\ MonthLength \in Nat \ {0}
      BY DaysAssumption DEF PickerInv, Types, Days
    <2>2. PICK q \in Int : q = month.day \div MonthLength
      BY <2>1
    <2>3. q * MonthLength + d \in Int
      BY <2>1, <2>2
    <2>4. open /\ Changes(At(q * MonthLength + d, month), "day")
      BY <1>6, <2>2 DEF onSelect, PickedDay
    <2> QED
      BY <1>4, <2>3, <2>4
  <1>7. CASE EditTime
    BY <1>1, <1>2, <1>3, <1>7 DEF EditTime, digitTimeout
  <1>8. CASE EditDate
    BY <1>5, <1>6, <1>8 DEF EditDate, openPopover, closePopover
  <1> QED
    BY <1>7, <1>8 DEF Next, EditArray, EditSelection, vars

\* Each control of the picker and the calendar changes its own part of a value
\* and no other (setDateByType, handleMonthChange, onSelect).
THEOREM ControlsAreSeparate == Spec => OnePartChanges
  <1>1. PickerInv /\ OpenKinds /\ [Next]_vars =>
          [value # None /\ value' # value =>
              /\ \A part \in {"day", "hour", "minute", "second"} \ TouchedBy(last') : value'[part] = value[part]
              /\ last' = "12hours" /\ ~periodAlone => (value'.hour >= 12) = (value.hour >= 12)
              /\ last' = "period" => value'.hour % 12 = value.hour % 12]_vars
    BY OneControl DEF Keeps
  <1> QED
    BY <1>1, PickerHolds, PTL DEF Spec, OnePartChanges

\* The second digit typed in time for a unit gives the number the two write,
\* or the nearest that the unit takes (calculateNewValue).
LEMMA SecondDigit ==
    ASSUME PickerInv, NEW u \in Units, NEW key \in Digits, flag[u], typeDigit(u, key)
    PROVE  getDateByType(value', u) =
               Clamped(10 * first[u] + key, IF u = "12hours" THEN 1 ELSE 0, IF u = "12hours" THEN 12 ELSE 59)
  <1>1. /\ DateShown \in Days /\ period \in Periods
        /\ first[u] \in 0..9 /\ key \in 0..9 /\ Shown(u) \in Int
    BY DateShownIsADay, DaysAssumption, UnitsShown DEF PickerInv, Types
  <1>2. PICK n : n = calculateNewValue(u, Shown(u), flag[u], prevIntKey, key)
    OBVIOUS
  <1>3. HasPicker /\ value' = setDateByType(DateShown, n, u, period)
    BY <1>2 DEF typeDigit, Changes
  <1>4. Shown(u) = Taken(u, first[u])
    BY <1>3 DEF PickerInv, PickerShows, Shown
  <1>5. n \in Int
    BY <1>1, <1>2 DEF calculateNewValue
  <1>6. getDateByType(value', u) = Taken(u, n)
    BY <1>1, <1>3, <1>5, DateSet
  <1>7. CASE u = "12hours"
    <2>1. prevIntKey = first[u]
      BY <1>7 DEF PickerInv, FirstKept
    <2>2. Shown(u) = IF first[u] = 0 THEN 1 ELSE first[u]
      BY <1>1, <1>4, <1>7 DEF Taken, getValid12Hour, Clamped
    <2>3. n = 10 * first[u] + key
      BY <1>1, <1>2, <1>7, <2>1, <2>2 DEF calculateNewValue
    <2> QED
      BY <1>6, <1>7, <2>3 DEF Taken, getValid12Hour
  <1>8. CASE u # "12hours"
    <2>1. Shown(u) = first[u]
      BY <1>1, <1>4, <1>8 DEF Taken, getValidMinuteOrSecond, Clamped
    <2>2. n = 10 * first[u] + key
      BY <1>1, <1>2, <1>8, <2>1 DEF calculateNewValue
    <2> QED
      BY <1>6, <1>8, <2>2 DEF Taken, getValidMinuteOrSecond
  <1> QED
    BY <1>7, <1>8

\* Two digits typed in time enter the number they write, whatever was done to
\* the other units, the period or the calendar in between.
THEOREM DigitsEnter == Spec => TwoDigitsEnter
  <1>1. PickerInv =>
          [\A u \in Units, key \in Digits :
              flag[u] /\ ~flag'[u] /\ typeDigit(u, key) =>
                 getDateByType(value', u) =
                     Clamped(10 * first[u] + key, IF u = "12hours" THEN 1 ELSE 0, IF u = "12hours" THEN 12 ELSE 59)]_vars
    BY SecondDigit
  <1> QED
    BY <1>1, PickerHolds, PTL DEF Spec, TwoDigitsEnter
-----------------------------------------------------------------------------
(* Array inputs.  The inputs of the elements and the array have the same   *)
(* length, and differ only from the first element on that was removed.     *)

Entries == Elements \union {Blank}

ArrayInv ==
    /\ arrayValues \in Seq(Entries) /\ own \in Seq(Entries) /\ lowest \in Int
    /\ Len(own) = Len(arrayValues)
    /\ \A i \in 1..Len(own) : own[i] # arrayValues[i] => i >= lowest
    /\ reported # Nothing =>
          /\ reported \in Seq(Entries) /\ Len(reported) <= Len(arrayValues)
          /\ \A i \in 1..Len(reported) : reported[i] = arrayValues[i]
          /\ \A i \in Len(reported) + 1 .. Len(arrayValues) : arrayValues[i] = Blank

\* A list without its i-th element.
LEMMA RemoveAtProperties ==
    ASSUME NEW S, NEW s \in Seq(S), NEW i \in 1..Len(s)
    PROVE  /\ RemoveAt(s, i) \in Seq(S) /\ Len(RemoveAt(s, i)) = Len(s) - 1
           /\ \A j \in 1..Len(s) - 1 : RemoveAt(s, i)[j] = IF j < i THEN s[j] ELSE s[j + 1]
  <1>1. Len(s) \in Nat /\ \A j \in 1..Len(s) : s[j] \in S
    BY LenProperties, ElementOfSeq
  <1>2. PICK front : front = SubSeq(s, 1, i - 1)
    OBVIOUS
  <1>3. PICK back : back = SubSeq(s, i + 1, Len(s))
    OBVIOUS
  <1>4. front \in Seq(S) /\ Len(front) = i - 1 /\ \A j \in 1..i - 1 : front[j] = s[j]
    BY <1>1, <1>2, SubSeqProperties
  <1>5. /\ back \in Seq(S) /\ Len(back) = Len(s) - i
        /\ \A j \in 1..Len(s) - i : back[j] = s[i + j]
    BY <1>1, <1>3, SubSeqProperties
  <1>6. /\ front \o back \in Seq(S) /\ Len(front \o back) = Len(s) - 1
        /\ \A j \in 1..Len(s) - 1 : (front \o back)[j] = IF j < i THEN s[j] ELSE s[j + 1]
    <2>1. /\ front \o back \in Seq(S) /\ Len(front \o back) = Len(front) + Len(back)
          /\ \A j \in 1..Len(front) + Len(back) :
                (front \o back)[j] = IF j <= Len(front) THEN front[j] ELSE back[j - Len(front)]
      BY <1>4, <1>5, ConcatProperties
    <2>2. Len(front) + Len(back) = Len(s) - 1
      BY <1>1, <1>4, <1>5
    <2>3. ASSUME NEW j \in 1..Len(s) - 1
          PROVE  (front \o back)[j] = IF j < i THEN s[j] ELSE s[j + 1]
      <3>1. CASE j < i
        BY <1>1, <1>4, <2>1, <2>2, <3>1
      <3>2. CASE ~(j < i)
        <4>1. PICK k : k = j - (i - 1)
          OBVIOUS
        <4>2. k \in 1..Len(s) - i /\ i + k = j + 1
          BY <1>1, <3>2, <4>1
        <4>4. (front \o back)[j] = back[k]
          BY <1>1, <1>4, <2>1, <2>2, <3>2, <4>1
        <4>3. back[k] = s[i + k]
          BY <1>5, <4>2
        <4> QED
          BY <3>2, <4>2, <4>3, <4>4
      <3> QED
        BY <3>1, <3>2
    <2> QED
      BY <2>1, <2>2, <2>3
  <1> QED
    BY <1>2, <1>3, <1>6 DEF RemoveAt

LEMMA FrontProperties ==
    ASSUME NEW S, NEW s \in Seq(S), Len(s) >= 1
    PROVE  /\ Front(s) \in Seq(S) /\ Len(Front(s)) = Len(s) - 1
           /\ \A j \in 1..Len(s) - 1 : Front(s)[j] = s[j]
  <1>1. Len(s) \in Nat /\ \A j \in 1..Len(s) : s[j] \in S
    BY LenProperties, ElementOfSeq
  <1>2. PICK n : n = Len(s) - 1
    OBVIOUS
  <1>3. n \in Nat /\ \A j \in 1..n : s[j] \in S
    BY <1>1, <1>2
  <1>4. PICK front : front = SubSeq(s, 1, n)
    OBVIOUS
  <1>5. /\ front \in Seq(S) /\ Len(front) = (IF 1 <= n THEN n - 1 + 1 ELSE 0)
        /\ \A j \in 1..n - 1 + 1 : front[j] = s[1 + j - 1]
    BY <1>3, <1>4, SubSeqProperties
  <1>6. Len(front) = n /\ \A j \in 1..n : front[j] = s[j]
    BY <1>3, <1>5
  <1> QED
    BY <1>2, <1>4, <1>5, <1>6 DEF Front

LEMMA ArraySteps ==
    ASSUME ArrayInv, ArrayNext
    PROVE  ArrayInv'
  <1>1. Len(arrayValues) \in Nat /\ DOMAIN arrayValues = 1..Len(arrayValues) /\ Len(own) = Len(arrayValues)
    BY LenProperties DEF ArrayInv
  <1>2. ASSUME NEW i \in 1..Len(arrayValues), NEW v \in Elements, editElement(i, v)
        PROVE  ArrayInv'
    <2>1. /\ arrayValues' = [arrayValues EXCEPT ![i] = v] /\ own' = [own EXCEPT ![i] = v]
          /\ reported' = arrayValues' /\ lowest' = lowest
      BY <1>2 DEF editElement, Edited
    <2>2. v \in Entries
      BY DEF Entries
    <2>3. /\ arrayValues' \in Seq(Entries) /\ Len(arrayValues') = Len(arrayValues)
          /\ \A j \in 1..Len(arrayValues) : arrayValues'[j] = IF j = i THEN v ELSE arrayValues[j]
      BY <2>1, <2>2, ExceptSeq DEF ArrayInv
    <2>4. /\ own' \in Seq(Entries) /\ Len(own') = Len(own)
          /\ \A j \in 1..Len(own) : own'[j] = IF j = i THEN v ELSE own[j]
      BY <1>1, <2>1, <2>2, ExceptSeq DEF ArrayInv
    <2> QED
      BY <1>1, <2>1, <2>3, <2>4 DEF ArrayInv
  <1>3. ASSUME NEW i \in 1..Len(arrayValues), removeElement(i)
        PROVE  ArrayInv'
    <2>1. /\ arrayValues' = RemoveAt(arrayValues, i) /\ own' = Front(own) /\ reported' = arrayValues'
          /\ lowest' = (IF i < Len(arrayValues) /\ i < lowest THEN i ELSE lowest)
      BY <1>3 DEF removeElement
    <2>2. /\ arrayValues' \in Seq(Entries) /\ Len(arrayValues') = Len(arrayValues) - 1
          /\ \A j \in 1..Len(arrayValues) - 1 :
                arrayValues'[j] = IF j < i THEN arrayValues[j] ELSE arrayValues[j + 1]
      BY <2>1, RemoveAtProperties DEF ArrayInv
    <2>3. /\ own' \in Seq(Entries) /\ Len(own') = Len(own) - 1
          /\ \A j \in 1..Len(own) - 1 : own'[j] = own[j]
      BY <1>1, <2>1, FrontProperties DEF ArrayInv
    <2>4. lowest' \in Int /\ lowest' <= lowest /\ (i < Len(arrayValues) => lowest' <= i)
      BY <2>1 DEF ArrayInv
    <2>5. ASSUME NEW j \in 1..Len(own'), own'[j] # arrayValues'[j] PROVE j >= lowest'
      <3>1. /\ j \in 1..Len(own) - 1 /\ j \in 1..Len(own) /\ j \in Int /\ i \in Int
            /\ j < Len(arrayValues) /\ lowest \in Int
        BY <1>1, <2>3 DEF ArrayInv
      <3>2. CASE j < i
        <4>1. own[j] # arrayValues[j]
          BY <1>1, <2>2, <2>3, <2>5, <3>1, <3>2
        <4>2. j >= lowest
          BY <3>1, <4>1 DEF ArrayInv
        <4> QED
          BY <2>4, <3>1, <4>2
      <3>3. CASE j >= i
        BY <1>1, <2>4, <3>1, <3>3
      <3> QED
        BY <3>1, <3>2, <3>3
    <2> QED
      BY <1>1, <2>1, <2>2, <2>3, <2>4, <2>5 DEF ArrayInv
  <1>4. CASE addElement
    <2>1. /\ arrayValues' = Append(arrayValues, Blank) /\ own' = Append(own, Blank)
          /\ UNCHANGED <<reported, lowest>>
      BY <1>4 DEF addElement
    <2>2. Blank \in Entries
      BY DEF Entries
    <2>3. /\ arrayValues' \in Seq(Entries) /\ Len(arrayValues') = Len(arrayValues) + 1
          /\ \A j \in 1..Len(arrayValues) : arrayValues'[j] = arrayValues[j]
          /\ arrayValues'[Len(arrayValues) + 1] = Blank
      BY <2>1, <2>2, AppendProperties DEF ArrayInv
    <2>4. /\ own' \in Seq(Entries) /\ Len(own') = Len(own) + 1
          /\ \A j \in 1..Len(own) : own'[j] = own[j]
          /\ own'[Len(own) + 1] = Blank
      BY <2>1, <2>2, AppendProperties DEF ArrayInv
    <2>5. \A j \in 1..Len(own') : own'[j] # arrayValues'[j] => j >= lowest'
      BY <1>1, <2>1, <2>3, <2>4 DEF ArrayInv
    <2>6. ASSUME reported' # Nothing
          PROVE  /\ reported' \in Seq(Entries) /\ Len(reported') <= Len(arrayValues')
                 /\ \A i \in 1..Len(reported') : reported'[i] = arrayValues'[i]
                 /\ \A i \in Len(reported') + 1 .. Len(arrayValues') : arrayValues'[i] = Blank
      <3>1. /\ reported' = reported /\ reported \in Seq(Entries) /\ Len(reported) <= Len(arrayValues)
            /\ \A i \in 1..Len(reported) : reported[i] = arrayValues[i]
            /\ \A i \in Len(reported) + 1 .. Len(arrayValues) : arrayValues[i] = Blank
        BY <2>1, <2>6 DEF ArrayInv
      <3>2. Len(reported) \in Nat
        BY <3>1, LenProperties
      <3> QED
        BY <1>1, <2>3, <3>1, <3>2
    <2> QED
      BY <1>1, <2>1, <2>3, <2>4, <2>5, <2>6 DEF ArrayInv
  <1> QED
    BY <1>1, <1>2, <1>3, <1>4 DEF ArrayNext

LEMMA ArrayHolds == Spec => []ArrayInv
  <1>1. Init => ArrayInv
    <2> SUFFICES ASSUME Init PROVE ArrayInv
      OBVIOUS
    <2>1. CASE kind = "array"
      <3>1. arrayValues \in Stored /\ own = arrayValues /\ reported = Nothing /\ lowest = MaxLength + 1
        BY <2>1 DEF Init, ArrayInit
      <3>2. arrayValues \in Seq(Entries) /\ lowest \in Int
        BY <3>1, ArraysAssumption, ArrayBounds, SeqMonotonic DEF Entries
      <3> QED
        BY <3>1, <3>2 DEF ArrayInv
    <2>2. CASE kind # "array"
      <3>1. arrayValues = <<>> /\ own = <<>> /\ reported = Nothing /\ lowest = MaxLength + 1
        BY <2>2 DEF Init
      <3>2. <<>> \in Seq(Entries) /\ Len(<<>>) = 0 /\ lowest \in Int
        BY <3>1, EmptySeq, ArrayBounds
      <3> QED
        BY <3>1, <3>2 DEF ArrayInv
    <2> QED
      BY <2>1, <2>2
  <1>2. ArrayInv /\ [Next]_vars => ArrayInv'
    <2> SUFFICES ASSUME ArrayInv, [Next]_vars PROVE ArrayInv'
      OBVIOUS
    <2>1. CASE EditArray
      BY <2>1, ArraySteps DEF EditArray
    <2>2. CASE EditTime \/ EditDate \/ EditSelection \/ UNCHANGED vars
      <3>1. UNCHANGED <<arrayValues, own, reported, lowest>>
        BY <2>2 DEF EditTime, typeDigit, pressArrow, digitTimeout, choosePeriod, EditDate, openPopover,
           closePopover, handleMonthChange, onSelect, Changes, EditSelection, vars, inputVars, arrayVars
      <3> QED
        BY <3>1 DEF ArrayInv
    <2> QED
      BY <2>1, <2>2 DEF Next
  <1> QED
    BY <1>1, <1>2, PTL DEF Spec

\* What an array field shows is what the form was told, but for elements from
\* the first removed one on and for blank ones that were added since, for
\* arrays of any length and any edits (ArrayInput.tsx).
THEOREM ShownArrayIsSaved == Spec => []ArrayShownIsSaved
  <1>1. ArrayInv => ArrayShownIsSaved
    <2> SUFFICES ASSUME ArrayInv PROVE ArrayShownIsSaved
      OBVIOUS
    <2>1. DOMAIN own = 1..Len(own) /\ Len(own) = Len(arrayValues) /\ Len(own) \in Nat
      BY LenProperties DEF ArrayInv
    <2>2. ASSUME reported # Nothing PROVE IsPrefix(reported, arrayValues)
      <3>1. /\ reported \in Seq(Entries) /\ Len(reported) <= Len(arrayValues)
            /\ \A i \in 1..Len(reported) : reported[i] = arrayValues[i]
            /\ arrayValues \in Seq(Entries)
        BY <2>2 DEF ArrayInv
      <3>2. PICK n \in Nat : n = Len(reported)
        BY <3>1, LenProperties
      <3>3. \A i \in 1..n : reported[i] \in Entries /\ arrayValues[i] \in Entries
        BY <2>1, <3>1, <3>2, ElementOfSeq
      <3>4. /\ SubSeq(reported, 1, n) \in Seq(Entries) /\ Len(SubSeq(reported, 1, n)) = n
            /\ \A i \in 1..n : SubSeq(reported, 1, n)[i] = reported[i]
        BY <3>2, <3>3, SubSeqProperties
      <3>5. /\ SubSeq(arrayValues, 1, n) \in Seq(Entries) /\ Len(SubSeq(arrayValues, 1, n)) = n
            /\ \A i \in 1..n : SubSeq(arrayValues, 1, n)[i] = arrayValues[i]
        BY <3>2, <3>3, SubSeqProperties
      <3>6. SubSeq(reported, 1, n) = SubSeq(arrayValues, 1, n)
        BY <3>1, <3>2, <3>4, <3>5, SeqEqual
      <3> QED
        BY <3>1, <3>2, <3>6 DEF IsPrefix
    <2> QED
      BY <2>1, <2>2 DEF ArrayInv, ArrayShownIsSaved
  <1> QED
    BY <1>1, ArrayHolds, PTL
-----------------------------------------------------------------------------
(* Induction, over the members of a set: on numbers, and on sequences.     *)

Less == {pair \in Nat \X Nat : pair[1] < pair[2]}

LEMMA InductionOnNat ==
    ASSUME NEW S, 0 \in S, \A n \in Nat : n \in S => n + 1 \in S
    PROVE  \A n \in Nat : n \in S
  <1>1. IsWellFoundedOn(Less, Nat)
    BY NatLessThanWellFounded DEF OpToRel, Less
  <1> SUFFICES ASSUME NEW m \in Nat, m \notin S PROVE FALSE
    OBVIOUS
  <1>2. PICK least \in Nat \ S : \A n \in Nat \ S : <<n, least>> \notin Less
    BY <1>1, WFMin
  <1>3. \A n \in Nat \ S : ~(n < least)
    BY <1>2 DEF Less
  <1>4. least - 1 \in Nat /\ least - 1 < least
    BY DEF Less
  <1>5. least - 1 \in S
    BY <1>3, <1>4
  <1> QED
    BY <1>4, <1>5

LEMMA InductionOnSeq ==
    ASSUME NEW A, NEW P, <<>> \in P,
           \A s \in Seq(A) : \A e \in A : s \in P => Append(s, e) \in P
    PROVE  \A s \in Seq(A) : s \in P
  <1> DEFINE Lengths == {n \in Nat : \A s \in Seq(A) : Len(s) = n => s \in P}
  <1>1. 0 \in Lengths
    BY EmptySeq
  <1>2. ASSUME NEW n \in Nat, n \in Lengths PROVE n + 1 \in Lengths
    <2>1. ASSUME NEW t \in Seq(A), Len(t) = n + 1 PROVE t \in P
      <3>1. t # <<>>
        BY <2>1, EmptySeq
      <3>2. PICK s \in Seq(A) : \E e \in A : t = Append(s, e)
        BY <3>1, SequenceEmptyOrAppend
      <3>3. PICK e \in A : t = Append(s, e)
        BY <3>2
      <3>4. Len(s) = n
        BY <2>1, <3>3, AppendProperties, LenProperties
      <3> QED
        BY <1>2, <3>3, <3>4
    <2> QED
      BY <2>1
  <1> HIDE DEF Lengths
  <1>3. \A n \in Nat : n \in Lengths
    BY <1>1, <1>2, InductionOnNat
  <1> QED
    BY <1>3, LenProperties DEF Lengths

-----------------------------------------------------------------------------
(* What Without keeps of a list, of any length.                            *)

\* f follows the recursion up to n.
Follows(f, values, drop, n) ==
    /\ f[0] = <<>>
    /\ \A m \in 1..n : f[m] = IF values[m] \in drop THEN f[m - 1] ELSE Append(f[m - 1], values[m])

LEMMA Recursion ==
    ASSUME NEW values, NEW drop, NEW n \in Nat
    PROVE  \E f : f = [m \in 0..n |-> f[m]] /\ Follows(f, values, drop, n)
  <1> DEFINE Reached == {k \in Nat : \E f : f = [m \in 0..k |-> f[m]] /\ Follows(f, values, drop, k)}
  <1>1. 0 \in Reached
    <2>1. PICK f : f = [m \in 0..0 |-> <<>>]
      OBVIOUS
    <2>2. f = [m \in 0..0 |-> f[m]] /\ Follows(f, values, drop, 0)
      BY <2>1 DEF Follows
    <2> QED
      BY <2>2
  <1>2. ASSUME NEW k \in Nat, k \in Reached PROVE k + 1 \in Reached
    <2>1. PICK f : f = [m \in 0..k |-> f[m]] /\ Follows(f, values, drop, k)
      BY <1>2
    <2>2. PICK next : next = IF values[k + 1] \in drop THEN f[k] ELSE Append(f[k], values[k + 1])
      OBVIOUS
    <2>3. PICK g : g = [m \in 0..k + 1 |-> IF m = k + 1 THEN next ELSE f[m]]
      OBVIOUS
    <2>4. g = [m \in 0..k + 1 |-> g[m]]
      BY <2>3
    <2>5. g[0] = <<>>
      BY <2>1, <2>3 DEF Follows
    <2>6. ASSUME NEW m \in 1..k + 1
          PROVE  g[m] = IF values[m] \in drop THEN g[m - 1] ELSE Append(g[m - 1], values[m])
      <3>1. CASE m = k + 1
        <4>1. m - 1 = k /\ k \in 0..k + 1 /\ k # k + 1 /\ k + 1 \in 0..k + 1
          BY <3>1
        <4>2. g[k] = f[k] /\ g[k + 1] = next
          BY <2>3, <4>1
        <4> QED
          BY <2>2, <3>1, <4>1, <4>2
      <3>2. CASE m \in 1..k
        <4>1. g[m] = f[m] /\ g[m - 1] = f[m - 1]
          BY <2>3, <3>2
        <4> QED
          BY <2>1, <3>2, <4>1 DEF Follows
      <3> QED
        BY <3>1, <3>2
    <2>7. Follows(g, values, drop, k + 1)
      BY <2>5, <2>6 DEF Follows
    <2> QED
      BY <2>4, <2>7
  <1> HIDE DEF Reached
  <1>3. n \in Reached
    BY <1>1, <1>2, InductionOnNat
  <1> QED
    BY <1>3 DEF Reached

\* The recursion in Without is one that a function follows.
LEMMA WithoutFollows ==
    ASSUME NEW A, NEW values \in Seq(A), NEW drop
    PROVE  \E f : Follows(f, values, drop, Len(values)) /\ Without(values, drop) = f[Len(values)]
  <1>1. Len(values) \in Nat
    BY LenProperties
  <1>2. PICK f : f = [m \in 0..Len(values) |-> f[m]] /\ Follows(f, values, drop, Len(values))
    BY <1>1, Recursion
  <1>3. f = [n \in 0..Len(values) |->
                IF n = 0 THEN <<>>
                ELSE IF values[n] \in drop THEN f[n - 1] ELSE Append(f[n - 1], values[n])]
    BY <1>1, <1>2 DEF Follows
  <1> DEFINE kept[n \in 0..Len(values)] ==
                IF n = 0 THEN <<>>
                ELSE IF values[n] \in drop THEN kept[n - 1] ELSE Append(kept[n - 1], values[n])
  <1>4. kept = [n \in 0..Len(values) |->
                IF n = 0 THEN <<>>
                ELSE IF values[n] \in drop THEN kept[n - 1] ELSE Append(kept[n - 1], values[n])]
    BY <1>3
  <1>5. Without(values, drop) = kept[Len(values)]
    BY DEF Without
  <1> HIDE DEF kept
  <1>6. PICK g : g = kept
    OBVIOUS
  <1>7. g = [n \in 0..Len(values) |->
                IF n = 0 THEN <<>>
                ELSE IF values[n] \in drop THEN g[n - 1] ELSE Append(g[n - 1], values[n])]
    BY <1>4, <1>6
  <1>8. \A m \in 1..Len(values) : m \in 0..Len(values) /\ m # 0
    BY <1>1
  <1>9. g[0] = <<>>
    BY <1>1, <1>7
  <1>10. ASSUME NEW m \in 1..Len(values)
         PROVE  g[m] = IF values[m] \in drop THEN g[m - 1] ELSE Append(g[m - 1], values[m])
    BY <1>7, <1>8
  <1> QED
    BY <1>5, <1>6, <1>9, <1>10 DEF Follows

LEMMA WithoutEmpty ==
    ASSUME NEW drop
    PROVE  Without(<<>>, drop) = <<>>
  <1>1. PICK none : none = <<>>
    OBVIOUS
  <1>2. none \in Seq({}) /\ Len(none) = 0
    BY <1>1, EmptySeq
  <1>3. PICK f : Follows(f, none, drop, 0) /\ Without(none, drop) = f[0]
    BY <1>2, WithoutFollows
  <1> QED
    BY <1>1, <1>3 DEF Follows

LEMMA WithoutAppend ==
    ASSUME NEW A, NEW s \in Seq(A), NEW e \in A, NEW drop
    PROVE  Without(Append(s, e), drop) =
               IF e \in drop THEN Without(s, drop) ELSE Append(Without(s, drop), e)
  <1>1. PICK n \in Nat : n = Len(s)
    BY LenProperties
  <1>2. PICK t \in Seq(A) : t = Append(s, e)
    BY AppendProperties
  <1>3. Len(t) = n + 1 /\ t[n + 1] = e /\ \A m \in 1..n : t[m] = s[m]
    BY <1>1, <1>2, AppendProperties
  <1>4. PICK f : Follows(f, s, drop, n) /\ Without(s, drop) = f[n]
    BY <1>1, WithoutFollows
  <1>5. PICK g : Follows(g, t, drop, n + 1) /\ Without(t, drop) = g[n + 1]
    BY <1>3, WithoutFollows
  <1> DEFINE Same == {m \in Nat : m <= n => g[m] = f[m]}
  <1>6. 0 \in Same
    BY <1>4, <1>5 DEF Follows
  <1>7. ASSUME NEW m \in Nat, m \in Same PROVE m + 1 \in Same
    <2>1. ASSUME m + 1 <= n PROVE g[m + 1] = f[m + 1]
      <3>1. m + 1 \in 1..n /\ m + 1 \in 1..n + 1 /\ m + 1 - 1 = m /\ g[m] = f[m]
        BY <1>7, <2>1
      <3>2. t[m + 1] = s[m + 1]
        BY <1>3, <3>1
      <3>3. f[m + 1] = IF s[m + 1] \in drop THEN f[m] ELSE Append(f[m], s[m + 1])
        BY <1>4, <3>1 DEF Follows
      <3>4. g[m + 1] = IF t[m + 1] \in drop THEN g[m] ELSE Append(g[m], t[m + 1])
        BY <1>5, <3>1 DEF Follows
      <3> QED
        BY <3>1, <3>2, <3>3, <3>4
    <2> QED
      BY <2>1
  <1> HIDE DEF Same
  <1>8. n \in Same
    BY <1>6, <1>7, InductionOnNat
  <1>9. g[n] = f[n]
    BY <1>8 DEF Same
  <1>10. g[n + 1] = IF e \in drop THEN g[n] ELSE Append(g[n], e)
    <2>1. n + 1 \in 1..n + 1 /\ n + 1 - 1 = n
      OBVIOUS
    <2> QED
      BY <1>3, <1>5, <2>1 DEF Follows
  <1> QED
    BY <1>2, <1>4, <1>5, <1>9, <1>10

\* The members of a list, and of one with another element at its end.
LEMMA MembersAppend ==
    ASSUME NEW A, NEW s \in Seq(A), NEW e \in A
    PROVE  ToSet(Append(s, e)) = ToSet(s) \union {e}
  <1>1. PICK t \in Seq(A) : t = Append(s, e)
    BY AppendProperties
  <1>2. PICK n \in Nat : n = Len(s)
    BY LenProperties
  <1>3. DOMAIN s = 1..n /\ DOMAIN t = 1..n + 1 /\ t[n + 1] = e /\ \A m \in 1..n : t[m] = s[m]
    BY <1>1, <1>2, AppendProperties, LenProperties
  <1>4. \A m \in 1..n + 1 : m = n + 1 \/ m \in 1..n
    OBVIOUS
  <1>5. ToSet(t) = ToSet(s) \union {e}
    BY <1>3, <1>4 DEF ToSet
  <1> QED
    BY <1>1, <1>5

LEMMA InjectiveAppend ==
    ASSUME NEW A, NEW s \in Seq(A), NEW e \in A
    PROVE  IsInjective(Append(s, e)) <=> IsInjective(s) /\ e \notin ToSet(s)
  <1>1. PICK t \in Seq(A) : t = Append(s, e)
    BY AppendProperties
  <1>2. PICK n \in Nat : n = Len(s)
    BY LenProperties
  <1>3. DOMAIN s = 1..n /\ DOMAIN t = 1..n + 1 /\ t[n + 1] = e /\ \A m \in 1..n : t[m] = s[m]
    BY <1>1, <1>2, AppendProperties, LenProperties
  <1>4. \A m \in 1..n + 1 : m = n + 1 \/ m \in 1..n
    OBVIOUS
  <1>5. \A m \in 1..n : m \in 1..n + 1 /\ m # n + 1
    OBVIOUS
  <1>6. ASSUME IsInjective(t) PROVE IsInjective(s) /\ e \notin ToSet(s)
    <2>1. IsInjective(s)
      BY <1>3, <1>5, <1>6 DEF IsInjective
    <2>2. \A m \in 1..n : s[m] # e
      BY <1>3, <1>5, <1>6 DEF IsInjective
    <2> QED
      BY <1>3, <2>1, <2>2 DEF ToSet
  <1>7. ASSUME IsInjective(s), e \notin ToSet(s) PROVE IsInjective(t)
    <2>1. \A m \in 1..n : s[m] # e
      BY <1>3, <1>7 DEF ToSet
    <2> QED
      BY <1>3, <1>4, <1>7, <2>1 DEF IsInjective
  <1> QED
    BY <1>1, <1>6, <1>7

LEMMA ConcatAppend ==
    ASSUME NEW A, NEW s \in Seq(A), NEW t \in Seq(A), NEW e \in A
    PROVE  s \o Append(t, e) = Append(s \o t, e)
  <1>1. <<e>> \in Seq(A) /\ s \o t \in Seq(A)
    BY ConcatProperties
  <1>2. Append(t, e) = t \o <<e>> /\ Append(s \o t, e) = (s \o t) \o <<e>>
    BY <1>1, AppendIsConcat
  <1> QED
    BY <1>1, <1>2, ConcatAssociative

LEMMA WithoutMembers ==
    ASSUME NEW A, NEW s \in Seq(A), NEW drop
    PROVE  Without(s, drop) \in Seq(A) /\ ToSet(Without(s, drop)) = ToSet(s) \ drop
  <1> DEFINE P == {t \in Seq(A) : /\ Without(t, drop) \in Seq(A)
                                  /\ ToSet(Without(t, drop)) = ToSet(t) \ drop}
  <1>1. <<>> \in P
    <2>1. <<>> \in Seq(A) /\ Without(<<>>, drop) = <<>>
      BY EmptySeq, WithoutEmpty
    <2>2. ToSet(<<>>) = {}
      BY DEF ToSet
    <2> QED
      BY <2>1, <2>2
  <1>2. ASSUME NEW t \in Seq(A), NEW e \in A, t \in P PROVE Append(t, e) \in P
    <2>1. /\ Append(t, e) \in Seq(A) /\ Append(Without(t, drop), e) \in Seq(A)
          /\ Without(t, drop) \in Seq(A)
      BY <1>2, AppendProperties
    <2>2. /\ ToSet(Append(t, e)) = ToSet(t) \union {e}
          /\ ToSet(Append(Without(t, drop), e)) = ToSet(Without(t, drop)) \union {e}
      BY <2>1, MembersAppend
    <2>3. ToSet(Without(t, drop)) = ToSet(t) \ drop
      BY <1>2
    <2>4. CASE e \in drop
      <3>1. Without(Append(t, e), drop) = Without(t, drop)
        BY <2>4, WithoutAppend
      <3>2. ToSet(Append(t, e)) \ drop = ToSet(t) \ drop
        BY <2>2, <2>4
      <3> QED
        BY <2>1, <2>3, <3>1, <3>2
    <2>5. CASE e \notin drop
      <3>1. Without(Append(t, e), drop) = Append(Without(t, drop), e)
        BY <2>5, WithoutAppend
      <3>2. ToSet(Append(t, e)) \ drop = (ToSet(t) \ drop) \union {e}
        BY <2>2, <2>5
      <3> QED
        BY <2>1, <2>2, <2>3, <3>1, <3>2
    <2> QED
      BY <2>4, <2>5
  <1> HIDE DEF P
  <1>3. s \in P
    BY <1>1, <1>2, InductionOnSeq
  <1> QED
    BY <1>3 DEF P

LEMMA WithoutInjective ==
    ASSUME NEW A, NEW s \in Seq(A), IsInjective(s), NEW drop
    PROVE  IsInjective(Without(s, drop))
  <1> DEFINE P == {t \in Seq(A) : IsInjective(t) => IsInjective(Without(t, drop))}
  <1>1. <<>> \in P
    BY EmptySeq, WithoutEmpty
  <1>2. ASSUME NEW t \in Seq(A), NEW e \in A, t \in P PROVE Append(t, e) \in P
    <2>1. Append(t, e) \in Seq(A) /\ Without(t, drop) \in Seq(A)
      BY AppendProperties, WithoutMembers
    <2>2. ASSUME IsInjective(Append(t, e)) PROVE IsInjective(Without(Append(t, e), drop))
      <3>1. IsInjective(t) /\ e \notin ToSet(t)
        BY <2>2, InjectiveAppend
      <3>2. IsInjective(Without(t, drop)) /\ e \notin ToSet(Without(t, drop))
        BY <1>2, <3>1, WithoutMembers
      <3>3. IsInjective(Append(Without(t, drop), e))
        BY <2>1, <3>2, InjectiveAppend
      <3>4. Without(Append(t, e), drop) \in {Without(t, drop), Append(Without(t, drop), e)}
        BY WithoutAppend
      <3> QED
        BY <3>2, <3>3, <3>4
    <2> QED
      BY <2>1, <2>2
  <1> HIDE DEF P
  <1>3. s \in P
    BY <1>1, <1>2, InductionOnSeq
  <1> QED
    BY <1>3 DEF P

LEMMA WithoutConcat ==
    ASSUME NEW A, NEW s \in Seq(A), NEW t \in Seq(A), NEW drop
    PROVE  Without(s \o t, drop) = Without(s, drop) \o Without(t, drop)
  <1> DEFINE P == {u \in Seq(A) : Without(s \o u, drop) = Without(s, drop) \o Without(u, drop)}
  <1>1. Without(s, drop) \in Seq(A)
    BY WithoutMembers
  <1>2. <<>> \in P
    <2>1. s \o <<>> = s /\ Without(s, drop) \o <<>> = Without(s, drop)
      BY <1>1, ConcatEmptySeq
    <2> QED
      BY <2>1, EmptySeq, WithoutEmpty
  <1>3. ASSUME NEW u \in Seq(A), NEW e \in A, u \in P PROVE Append(u, e) \in P
    <2>1. Append(u, e) \in Seq(A) /\ s \o u \in Seq(A) /\ Without(u, drop) \in Seq(A)
      BY AppendProperties, ConcatProperties, WithoutMembers
    <2>2. s \o Append(u, e) = Append(s \o u, e)
      BY ConcatAppend
    <2>3. Without(s, drop) \o Append(Without(u, drop), e) = Append(Without(s, drop) \o Without(u, drop), e)
      BY <1>1, <2>1, ConcatAppend
    <2>4. /\ Without(Append(s \o u, e), drop) =
                IF e \in drop THEN Without(s \o u, drop) ELSE Append(Without(s \o u, drop), e)
          /\ Without(Append(u, e), drop) = IF e \in drop THEN Without(u, drop) ELSE Append(Without(u, drop), e)
      <3>1. PICK both \in Seq(A) : both = s \o u
        BY <2>1
      <3>2. Without(Append(both, e), drop) =
                IF e \in drop THEN Without(both, drop) ELSE Append(Without(both, drop), e)
        BY WithoutAppend
      <3>3. Without(Append(u, e), drop) = IF e \in drop THEN Without(u, drop) ELSE Append(Without(u, drop), e)
        BY WithoutAppend
      <3> QED
        BY <3>1, <3>2, <3>3
    <2>5. Without(s \o u, drop) = Without(s, drop) \o Without(u, drop)
      BY <1>3
    <2>6. Without(Append(s \o u, e), drop) = Without(s, drop) \o Without(Append(u, e), drop)
      BY <2>3, <2>4, <2>5
    <2> QED
      BY <2>1, <2>2, <2>6
  <1> HIDE DEF P
  <1>4. t \in P
    BY <1>2, <1>3, InductionOnSeq
  <1> QED
    BY <1>4 DEF P

LEMMA WithoutTwice ==
    ASSUME NEW A, NEW s \in Seq(A), NEW drop, NEW more
    PROVE  Without(Without(s, drop), more) = Without(s, drop \union more)
  <1> DEFINE P == {t \in Seq(A) : Without(Without(t, drop), more) = Without(t, drop \union more)}
  <1>1. <<>> \in P
    BY EmptySeq, WithoutEmpty
  <1>2. ASSUME NEW t \in Seq(A), NEW e \in A, t \in P PROVE Append(t, e) \in P
    <2>1. Append(t, e) \in Seq(A) /\ Without(t, drop) \in Seq(A)
      BY AppendProperties, WithoutMembers
    <2>2. Without(Without(t, drop), more) = Without(t, drop \union more)
      BY <1>2
    <2>3. CASE e \in drop
      <3>1. Without(Append(t, e), drop) = Without(t, drop)
        BY <2>3, WithoutAppend
      <3>2. Without(Append(t, e), drop \union more) = Without(t, drop \union more)
        BY <2>3, WithoutAppend
      <3> QED
        BY <2>1, <2>2, <3>1, <3>2
    <2>4. CASE e \notin drop
      <3>1. Without(Append(t, e), drop) = Append(Without(t, drop), e)
        BY <2>4, WithoutAppend
      <3>2. Without(Append(Without(t, drop), e), more) =
                IF e \in more THEN Without(Without(t, drop), more) ELSE Append(Without(Without(t, drop), more), e)
        BY <2>1, WithoutAppend
      <3>3. Without(Append(t, e), drop \union more) =
                IF e \in more THEN Without(t, drop \union more) ELSE Append(Without(t, drop \union more), e)
        BY <2>4, WithoutAppend
      <3> QED
        BY <2>1, <2>2, <3>1, <3>2, <3>3
    <2> QED
      BY <2>3, <2>4
  <1> HIDE DEF P
  <1>3. s \in P
    BY <1>1, <1>2, InductionOnSeq
  <1> QED
    BY <1>3 DEF P

LEMMA WithoutNothing ==
    ASSUME NEW A, NEW s \in Seq(A)
    PROVE  Without(s, {}) = s
  <1> DEFINE P == {t \in Seq(A) : Without(t, {}) = t}
  <1>1. <<>> \in P
    BY EmptySeq, WithoutEmpty
  <1>2. ASSUME NEW t \in Seq(A), NEW e \in A, t \in P PROVE Append(t, e) \in P
    BY <1>2, WithoutAppend, AppendProperties
  <1> HIDE DEF P
  <1>3. s \in P
    BY <1>1, <1>2, InductionOnSeq
  <1> QED
    BY <1>3 DEF P

LEMMA MembersConcat ==
    ASSUME NEW A, NEW s \in Seq(A), NEW t \in Seq(A)
    PROVE  ToSet(s) \subseteq ToSet(s \o t) /\ ToSet(t) \subseteq ToSet(s \o t)
  <1>1. PICK both \in Seq(A) : both = s \o t
    BY ConcatProperties
  <1>2. PICK m \in Nat : m = Len(s)
    BY LenProperties
  <1>3. PICK n \in Nat : n = Len(t)
    BY LenProperties
  <1>4. /\ DOMAIN s = 1..m /\ DOMAIN t = 1..n /\ DOMAIN both = 1..m + n
        /\ \A i \in 1..m + n : both[i] = IF i <= m THEN s[i] ELSE t[i - m]
    BY <1>1, <1>2, <1>3, ConcatProperties, LenProperties
  <1>5. \A i \in 1..m : i \in 1..m + n /\ both[i] = s[i]
    BY <1>4
  <1>6. \A i \in 1..n : m + i \in 1..m + n /\ both[m + i] = t[i]
    BY <1>4
  <1>7. ToSet(s) \subseteq ToSet(both)
    BY <1>4, <1>5 DEF ToSet
  <1>8. ASSUME NEW x \in ToSet(t) PROVE x \in ToSet(both)
    <2>1. PICK i \in 1..n : x = t[i]
      BY <1>4 DEF ToSet
    <2>2. m + i \in DOMAIN both /\ both[m + i] = x
      BY <1>4, <1>6, <2>1
    <2> QED
      BY <2>2 DEF ToSet
  <1> QED
    BY <1>1, <1>7, <1>8

\* A concatenation starts with its first part, and its second is the rest.
PrefixAndRest(s, t) ==
    IsPrefix(s, s \o t) /\ SubSeq(s \o t, Len(s) + 1, Len(s \o t)) = t

LEMMA ConcatParts ==
    ASSUME NEW A, NEW s \in Seq(A), NEW t \in Seq(A)
    PROVE  PrefixAndRest(s, t)
  <1>1. PICK both \in Seq(A) : both = s \o t
    BY ConcatProperties
  <1>2. PICK m \in Nat : m = Len(s)
    BY LenProperties
  <1>3. PICK n \in Nat : n = Len(t)
    BY LenProperties
  <1>4. /\ Len(both) = m + n /\ \A i \in 1..m + n : both[i] \in A
        /\ \A i \in 1..m + n : both[i] = IF i <= m THEN s[i] ELSE t[i - m]
    BY <1>1, <1>2, <1>3, ConcatProperties, ElementOfSeq
  <1>5. /\ SubSeq(both, 1, m) \in Seq(A) /\ Len(SubSeq(both, 1, m)) = m
        /\ \A i \in 1..m : SubSeq(both, 1, m)[i] = both[i]
    <2>1. \A i \in 1..m : both[i] \in A
      BY <1>4
    <2> QED
      BY <1>2, <2>1, SubSeqProperties
  <1>6. \A i \in 1..m : SubSeq(both, 1, m)[i] = s[i]
    BY <1>4, <1>5
  <1>7. SubSeq(both, 1, m) = s
    BY <1>2, <1>5, <1>6, SeqEqual
  <1>8. SubSeq(s, 1, m) = s
    BY <1>2, SubSeqFull
  <1>9. PICK rest : rest = SubSeq(both, m + 1, m + n)
    OBVIOUS
  <1>10. /\ rest \in Seq(A) /\ Len(rest) = n
         /\ \A i \in 1..n : rest[i] = both[m + i]
    <2>1. \A i \in m + 1..m + n : both[i] \in A
      BY <1>4
    <2>2. /\ rest \in Seq(A) /\ Len(rest) = IF m + 1 <= m + n THEN (m + n) - (m + 1) + 1 ELSE 0
          /\ \A i \in 1..(m + n) - (m + 1) + 1 : rest[i] = both[m + 1 + i - 1]
      BY <1>9, <2>1, SubSeqProperties
    <2> QED
      BY <2>2
  <1>11. \A i \in 1..n : rest[i] = t[i]
    BY <1>4, <1>10
  <1>12. rest = t
    BY <1>3, <1>10, <1>11, SeqEqual
  <1> QED
    BY <1>1, <1>2, <1>4, <1>7, <1>8, <1>9, <1>12 DEF PrefixAndRest, IsPrefix

-----------------------------------------------------------------------------
(* Selections of several options.  The badges are the row's values without *)
(* those the user removed, and then the options picked.                    *)

Kept == Without(stored, unselected)

SelectInv ==
    /\ SelectTypeOK /\ fieldValue = selected
    /\ \E added \in Seq(Options) :
          /\ selected = Kept \o added
          /\ IsInjective(added) /\ ToSet(added) \cap ToSet(Kept) = {}

LEMMA StoredIsSeq ==
    ASSUME SelectInv
    PROVE  stored \in Seq(Values)
  BY OptionsAssumption, EmptySeq DEF SelectInv, SelectTypeOK

LEMMA MembersInA ==
    ASSUME NEW A, NEW s \in Seq(A)
    PROVE  ToSet(s) \subseteq A
  BY LenProperties, ElementOfSeq DEF ToSet

LEMMA handleUnselectKeeps ==
    ASSUME SelectInv, NEW v, handleUnselect(v)
    PROVE  SelectInv'
  <1>1. PICK added \in Seq(Options) :
            selected = Kept \o added /\ IsInjective(added) /\ ToSet(added) \cap ToSet(Kept) = {}
    BY DEF SelectInv
  <1>2. /\ v \in ToSet(selected) /\ selected' = Without(selected, {v}) /\ fieldValue' = selected'
        /\ unselected' = unselected \union {v} /\ stored' = stored
        /\ clicks < MaxClicks /\ clicks' = clicks + 1
        /\ UNCHANGED <<inputValue, focused, listOpen, onScrollbar>>
    BY DEF handleUnselect, Click, SetSelected, list
  <1>3. stored \in Seq(Values) /\ selected \in Seq(Values) /\ added \in Seq(Values)
    BY StoredIsSeq, SeqMonotonic DEF SelectInv, SelectTypeOK, Values
  <1>4. Kept \in Seq(Values)
    BY <1>3, WithoutMembers DEF Kept
  <1>5. Kept' = Without(Kept, {v})
    BY <1>2, <1>3, WithoutTwice DEF Kept
  <1>6. selected' = Kept' \o Without(added, {v})
    <2>1. PICK kept \in Seq(Values) : kept = Kept
      BY <1>4
    <2>2. PICK picked \in Seq(Values) : picked = added
      BY <1>3
    <2>3. Without(kept \o picked, {v}) = Without(kept, {v}) \o Without(picked, {v})
      BY WithoutConcat
    <2> QED
      BY <1>1, <1>2, <1>5, <2>1, <2>2, <2>3
  <1>7. Without(added, {v}) \in Seq(Options) /\ ToSet(Without(added, {v})) = ToSet(added) \ {v}
    BY <1>1, WithoutMembers
  <1>8. ToSet(Kept') = ToSet(Kept) \ {v}
    BY <1>4, <1>5, WithoutMembers
  <1>9. IsInjective(Without(added, {v}))
    BY <1>1, WithoutInjective
  <1>10. ToSet(Without(added, {v})) \cap ToSet(Kept') = {}
    BY <1>1, <1>7, <1>8
  <1>11. SelectTypeOK'
    <2>1. selected' \in Seq(Values)
      BY <1>2, <1>3, WithoutMembers
    <2>2. v \in Values
      BY <1>2, <1>3, MembersInA
    <2>3. clicks' \in 0..MaxClicks
      BY <1>2, OptionsAssumption DEF SelectInv, SelectTypeOK
    <2> QED
      BY <1>2, <2>1, <2>2, <2>3 DEF SelectInv, SelectTypeOK
  <1> QED
    BY <1>2, <1>6, <1>7, <1>9, <1>10, <1>11 DEF SelectInv

LEMMA selectOptionKeeps ==
    ASSUME SelectInv, NEW v \in Options, selectOption(v)
    PROVE  SelectInv'
  <1>1. PICK added \in Seq(Options) :
            selected = Kept \o added /\ IsInjective(added) /\ ToSet(added) \cap ToSet(Kept) = {}
    BY DEF SelectInv
  <1>2. /\ v \notin ToSet(selected) /\ selected' = Append(selected, v) /\ fieldValue' = selected'
        /\ inputValue' = FALSE /\ UNCHANGED <<unselected, stored, focused, listOpen, onScrollbar>>
        /\ clicks < MaxClicks /\ clicks' = clicks + 1
    BY DEF selectOption, Selectables, Picked, Click, SetSelected, list
  <1>3. stored \in Seq(Values) /\ selected \in Seq(Values) /\ added \in Seq(Values) /\ v \in Values
    BY StoredIsSeq, SeqMonotonic DEF SelectInv, SelectTypeOK, Values
  <1>4. Kept \in Seq(Values) /\ Kept' = Kept
    BY <1>2, <1>3, WithoutMembers DEF Kept
  <1>5. PICK more \in Seq(Options) : more = Append(added, v)
    BY AppendProperties
  <1>6. selected' = Kept' \o more
    <2>1. PICK kept \in Seq(Values) : kept = Kept
      BY <1>4
    <2>2. kept \o Append(added, v) = Append(kept \o added, v)
      BY <1>3, ConcatAppend
    <2> QED
      BY <1>1, <1>2, <1>4, <1>5, <2>1, <2>2
  <1>7. v \notin ToSet(Kept) /\ v \notin ToSet(added)
    BY <1>1, <1>2, <1>3, <1>4, MembersConcat
  <1>8. IsInjective(more) /\ ToSet(more) = ToSet(added) \union {v}
    BY <1>1, <1>5, <1>7, InjectiveAppend, MembersAppend
  <1>9. ToSet(more) \cap ToSet(Kept') = {}
    BY <1>1, <1>4, <1>7, <1>8
  <1>10. SelectTypeOK'
    <2>1. selected' \in Seq(Values)
      BY <1>2, <1>3, AppendProperties
    <2>2. clicks' \in 0..MaxClicks
      BY <1>2, OptionsAssumption DEF SelectInv, SelectTypeOK
    <2> QED
      BY <1>2, <2>1, <2>2 DEF SelectInv, SelectTypeOK
  <1> QED
    BY <1>2, <1>6, <1>8, <1>9, <1>10 DEF SelectInv

LEMMA SelectKeeps ==
    ASSUME SelectInv, SelectNext
    PROVE  SelectInv'
  <1>1. ASSUME NEW v, handleUnselect(v) PROVE SelectInv'
    BY <1>1, handleUnselectKeeps
  <1>2. ASSUME NEW v \in Options, selectOption(v) PROVE SelectInv'
    BY <1>2, selectOptionKeeps
  <1>3. CASE changeText \/ onFocus \/ onBlur \/ moveOver \/ handleClickOutside
    <2>1. UNCHANGED <<fieldValue, selected, stored, unselected>>
      BY <1>3 DEF changeText, onFocus, onBlur, moveOver, handleClickOutside, Moves
    <2>2. {inputValue', focused', listOpen', onScrollbar'} \subseteq BOOLEAN
      BY <1>3 DEF SelectInv, SelectTypeOK, changeText, onFocus, onBlur, moveOver, handleClickOutside,
         Moves, list
    <2>3. clicks' \in 0..MaxClicks
      BY <1>3, OptionsAssumption DEF SelectInv, SelectTypeOK, changeText, Click, onFocus, onBlur,
         moveOver, handleClickOutside, Moves
    <2> QED
      BY <2>1, <2>2, <2>3 DEF SelectInv, SelectTypeOK, Kept
  <1> QED
    BY <1>1, <1>2, <1>3 DEF SelectNext, handleKeyDown

LEMMA SelectStarts ==
    ASSUME NEW values \in StoredValues \union {<<>>}, SelectIdle(values)
    PROVE  SelectInv
  <1>1. values \in Seq(Values) /\ <<>> \in Seq(Options)
    BY OptionsAssumption, EmptySeq
  <1>2. /\ fieldValue = values /\ selected = values /\ stored = values /\ clicks = 0 /\ unselected = {}
        /\ inputValue = FALSE /\ focused = FALSE /\ listOpen = FALSE /\ onScrollbar = FALSE
    BY DEF SelectIdle
  <1>3. SelectTypeOK
    <2>1. {inputValue, focused, listOpen, onScrollbar} \subseteq BOOLEAN
      BY <1>2
    <2>2. clicks \in 0..MaxClicks /\ unselected \subseteq Values
      BY <1>2, OptionsAssumption
    <2> QED
      BY <1>1, <1>2, <2>1, <2>2 DEF SelectTypeOK
  <1>4. Kept = values /\ values \o <<>> = values
    BY <1>1, <1>2, WithoutNothing, ConcatEmptySeq DEF Kept
  <1>5. PICK none \in Seq(Options) : none = <<>>
    BY <1>1
  <1>6. IsInjective(none) /\ ToSet(none) = {}
    BY <1>5 DEF IsInjective, ToSet
  <1> QED
    BY <1>2, <1>3, <1>4, <1>5, <1>6 DEF SelectInv

LEMMA SelectionSaved ==
    ASSUME SelectInv
    PROVE  SelectedIsSaved
  <1>1. PICK added \in Seq(Options) :
            selected = Kept \o added /\ IsInjective(added) /\ ToSet(added) \cap ToSet(Kept) = {}
    BY DEF SelectInv
  <1>2. Kept \in Seq(Values) /\ added \in Seq(Values)
    BY StoredIsSeq, WithoutMembers, SeqMonotonic DEF Kept, Values
  <1>3. PrefixAndRest(Kept, added)
    BY <1>2, ConcatParts
  <1>4. ToSet(added) \subseteq Options
    BY MembersInA
  <1>5. fieldValue = selected
    BY DEF SelectInv
  <1> QED
    BY <1>1, <1>3, <1>4, <1>5 DEF SelectedIsSaved, Kept, PrefixAndRest
-----------------------------------------------------------------------------
(* The other inputs' types, and the copies that they keep.                 *)

LEMMA SelectHolds == Spec => []SelectInv
  <1>1. Init => SelectInv
    <2> SUFFICES ASSUME Init PROVE SelectInv
      OBVIOUS
    <2>1. \E values \in StoredValues \union {<<>>} : SelectIdle(values)
      BY DEF Init, SelectInit
    <2> QED
      BY <2>1, SelectStarts
  <1>2. SelectInv /\ [Next]_vars => SelectInv'
    <2> SUFFICES ASSUME SelectInv, [Next]_vars PROVE SelectInv'
      OBVIOUS
    <2>1. CASE EditSelection
      BY <2>1, SelectKeeps DEF EditSelection
    <2>2. CASE EditTime \/ EditDate \/ EditArray \/ UNCHANGED vars
      <3>1. UNCHANGED selectVars
        BY <2>2 DEF EditTime, typeDigit, pressArrow, digitTimeout, choosePeriod, EditDate, openPopover,
           closePopover, handleMonthChange, onSelect, Changes, EditArray, vars, inputVars
      <3>2. SelectTypeOK'
        BY <3>1 DEF SelectInv, SelectTypeOK, selectVars, list
      <3> QED
        BY <3>1, <3>2 DEF SelectInv, selectVars, Kept
    <2> QED
      BY <2>1, <2>2 DEF Next
  <1> QED
    BY <1>1, <1>2, PTL DEF Spec

ArrayBound ==
    Len(arrayValues) <= MaxLength /\ edits \in 0..MaxEdits /\ lowest \in 1..MaxLength + 1

LEMMA ArrayKeepsBound ==
    ASSUME ArrayInv, ArrayBound, ArrayNext
    PROVE  ArrayBound'
  <1>1. /\ edits' \in 0..MaxEdits
        /\ Len(arrayValues) \in Nat /\ DOMAIN arrayValues = 1..Len(arrayValues)
    <2>1. edits < MaxEdits /\ edits' = edits + 1
      BY DEF ArrayNext, editElement, removeElement, addElement, Edit
    <2> QED
      BY <2>1, ArrayBounds, LenProperties DEF ArrayBound, ArrayInv
  <1>2. ASSUME NEW i \in 1..Len(arrayValues), NEW v \in Elements, editElement(i, v)
        PROVE  ArrayBound'
    <2>1. v \in Entries /\ arrayValues' = [arrayValues EXCEPT ![i] = v] /\ lowest' = lowest
      BY <1>2 DEF editElement, Edited, Entries
    <2>2. Len(arrayValues') = Len(arrayValues)
      BY <2>1, ExceptSeq DEF ArrayInv
    <2> QED
      BY <1>1, <2>1, <2>2 DEF ArrayBound
  <1>3. ASSUME NEW i \in 1..Len(arrayValues), removeElement(i)
        PROVE  ArrayBound'
    <2>1. /\ arrayValues' = RemoveAt(arrayValues, i)
          /\ lowest' = (IF i < Len(arrayValues) /\ i < lowest THEN i ELSE lowest)
      BY <1>3 DEF removeElement
    <2>2. Len(arrayValues') = Len(arrayValues) - 1
      BY <2>1, RemoveAtProperties DEF ArrayInv
    <2> QED
      BY <1>1, <2>1, <2>2, ArrayBounds DEF ArrayBound
  <1>4. CASE addElement
    <2>1. /\ arrayValues' = Append(arrayValues, Blank) /\ lowest' = lowest
          /\ Len(arrayValues) < MaxLength /\ Blank \in Entries
      BY <1>4 DEF addElement, Entries
    <2>2. Len(arrayValues') = Len(arrayValues) + 1
      BY <2>1, AppendProperties DEF ArrayInv
    <2> QED
      BY <1>1, <2>1, <2>2, ArrayBounds DEF ArrayBound
  <1> QED
    BY <1>1, <1>2, <1>3, <1>4 DEF ArrayNext

LEMMA BoundHolds == Spec => []ArrayBound
  <1>1. Init => ArrayBound
    <2> SUFFICES ASSUME Init PROVE ArrayBound
      OBVIOUS
    <2>1. lowest = MaxLength + 1 /\ edits = 0
      BY DEF Init, ArrayInit
    <2>2. Len(arrayValues) <= MaxLength
      <3>1. CASE kind = "array"
        BY <3>1, ArrayBounds DEF Init, ArrayInit
      <3>2. CASE kind # "array"
        <4>1. arrayValues = <<>>
          BY <3>2 DEF Init
        <4>2. Len(arrayValues) = 0
          BY <4>1, EmptySeq
        <4> QED
          BY <4>2, ArrayBounds
      <3> QED
        BY <3>1, <3>2
    <2> QED
      BY <2>1, <2>2, ArrayBounds DEF ArrayBound
  <1>2. ArrayInv /\ ArrayBound /\ [Next]_vars => ArrayBound'
    <2> SUFFICES ASSUME ArrayInv, ArrayBound, [Next]_vars PROVE ArrayBound'
      OBVIOUS
    <2>1. CASE EditArray
      BY <2>1, ArrayKeepsBound DEF EditArray
    <2>2. CASE EditTime \/ EditDate \/ EditSelection \/ UNCHANGED vars
      <3>1. UNCHANGED <<arrayValues, edits, lowest>>
        BY <2>2 DEF EditTime, typeDigit, pressArrow, digitTimeout, choosePeriod, EditDate, openPopover,
           closePopover, handleMonthChange, onSelect, Changes, EditSelection, vars, inputVars, arrayVars
      <3> QED
        BY <3>1 DEF ArrayBound
    <2> QED
      BY <2>1, <2>2 DEF Next
  <1> QED
    BY <1>1, <1>2, ArrayHolds, PTL DEF Spec

\* Whatever is typed, clicked, picked or removed, in whatever order, a date is
\* a day and a time of day, an array is one of its entries, and a selection is
\* one of the row's values and the options (datetime-picker.tsx, ArrayInput.tsx,
\* multiple-selector.tsx).
THEOREM TypeCorrect == Spec => []TypeOK
  <1>1. PickerInv /\ ArrayInv /\ ArrayBound /\ SelectInv => TypeOK
    BY DEF PickerInv, Types, ArrayInv, ArrayBound, Entries, SelectInv, ArrayTypeOK, TypeOK
  <1> QED
    BY <1>1, PickerHolds, ArrayHolds, BoundHolds, SelectHolds, PTL

\* The inputs that keep a copy of the form's value save what they show: an
\* array its elements, a selection the row's values that were not removed, in
\* their order, and after them each option picked, once, for rows, options and
\* selections of any length (multiple-selector.tsx:231-238, ArrayInput.tsx).
THEOREM CopiesAreKept == Spec => []CopiesAreSaved
  <1>1. SelectInv => SelectedIsSaved
    BY SelectionSaved
  <1> QED
    BY <1>1, ShownArrayIsSaved, SelectHolds, PTL DEF CopiesAreSaved
=============================================================================
