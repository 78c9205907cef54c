--------------------------- MODULE CalendarProofs ---------------------------
(***************************************************************************)
(* Both conversions of Calendar, for every date from 1970 on and every     *)
(* time of day.  The loops of mkgmtime are functions defined by recursion; *)
(* that there are such functions is shown by the closed form they have: a  *)
(* table for the months, and for the years the Julian-day formula.         *)
(***************************************************************************)
EXTENDS Calendar, TLAPS

CalendarInv == TypeOK /\ variantDay(year, month, day) - Epoch = today

\* The parts of a day number: b moves January and February into the year before.
Shift(m)      == IF m <= 2 THEN -1 ELSE 0
JulianYears(s)   == (1461 * (s + 4800)) \div 4 - (3 * ((s + 4900) \div 100)) \div 4
JulianMonths(m)  == (367 * (m - 2 - 12 * Shift(m))) \div 12

-----------------------------------------------------------------------------
\* For these years the truncating divisions of the day number round down; only
\* the one that yields the shift divides a negative number.
LEMMA VariantDayParts ==
    ASSUME NEW y \in Nat, y >= 1970, NEW m \in 1..12, NEW d \in 1..31
    PROVE  variantDay(y, m, d) =
               JulianYears(y + Shift(m)) + JulianMonths(m) + d - 2447094
<1> DEFINE b == Shift(m)
<1> b \in -1..0
  BY DEF Shift
<1>1. Quotient(m - 14, 12) = b
  BY DEF Quotient, Shift
<1> HIDE DEF b
<1>2. Quotient(1461 * (y + 4800 + b), 4) = (1461 * (y + b + 4800)) \div 4
  BY DEF Quotient
<1>3. m - 2 - 12 * b >= 1
  BY DEF b, Shift
<1>4. Quotient(367 * (m - 2 - 12 * b), 12) = (367 * (m - 2 - 12 * b)) \div 12
  BY <1>3 DEF Quotient
<1>5. Quotient(y + 4900 + b, 100) = (y + b + 4900) \div 100
  BY DEF Quotient
<1>6. Quotient(3 * ((y + b + 4900) \div 100), 4) = (3 * ((y + b + 4900) \div 100)) \div 4
  BY DEF Quotient
<1> QED
  BY <1>1, <1>2, <1>4, <1>5, <1>6 DEF variantDay, JulianYears, JulianMonths, b

\* From one March to the next passes a year, whose leap day is its last.
LEMMA JulianYearsStep ==
    ASSUME NEW y \in Nat
    PROVE  JulianYears(y) = JulianYears(y - 1) + (IF Leap(y) THEN 366 ELSE 365)
BY SMTT(60) DEF JulianYears, Leap

LEMMA JulianMonthsStep ==
    ASSUME NEW y \in Nat, NEW m \in 1..11
    PROVE  JulianMonths(m + 1) =
             JulianMonths(m) + (IF m = 2 THEN 28 - 365 ELSE MonthLength(y, m))
BY DEF JulianMonths, MonthLength, Shift

LEMMA PartsAreIntegers ==
    /\ \A s \in Int : JulianYears(s) \in Int
    /\ \A m \in 1..12 : JulianMonths(m) \in Int
BY DEF JulianYears, JulianMonths, Shift

LEMMA InitCalendarInv == Init => CalendarInv
BY DEF Init, CalendarInv, TypeOK, MonthLength, variantDay, Quotient, Epoch

LEMMA ShiftIsSmall == \A m \in 1..12 : Shift(m) \in -1..0
BY DEF Shift

LEMMA MonthIsShort ==
    ASSUME NEW y \in Nat, NEW m \in 1..12
    PROVE  MonthLength(y, m) \in 28..31
BY DEF MonthLength

\* What a step has to show.
LEMMA NextIsCounted ==
    ASSUME today \in Nat, today' = today + 1, TypeOK', variantDay(year, month, day) \in Int,
           variantDay(year, month, day) - 25569 = today,
           variantDay(year, month, day)' = variantDay(year, month, day) + 1
    PROVE  CalendarInv'
BY DEF CalendarInv, Epoch

LEMMA StepCalendarInv == CalendarInv /\ [NextDay]_vars => CalendarInv'
<1> SUFFICES ASSUME CalendarInv, NextDay PROVE CalendarInv'
  BY DEF CalendarInv, TypeOK, vars
<1>1. /\ year \in Nat /\ year >= 1970 /\ month \in 1..12 /\ today \in Nat
      /\ day \in 1..MonthLength(year, month) /\ today' = today + 1
      /\ variantDay(year, month, day) - 25569 = today
  BY DEF NextDay, CalendarInv, TypeOK, Epoch
<1>2. MonthLength(year, month) \in 28..31 /\ day \in 1..31
  BY <1>1, MonthIsShort
<1>3. variantDay(year, month, day) =
          JulianYears(year + Shift(month)) + JulianMonths(month) + day - 2447094
  BY <1>1, <1>2, VariantDayParts
<1>4. year + Shift(month) \in Int
  BY <1>1, ShiftIsSmall
<1>5. variantDay(year, month, day) \in Int
  BY <1>1, <1>2, <1>3, <1>4, PartsAreIntegers
<1>6. CASE day < MonthLength(year, month)
  <2>1. day' = day + 1 /\ UNCHANGED <<year, month>> /\ day + 1 \in 1..31
    BY <1>1, <1>2, <1>6 DEF NextDay
  <2>2. variantDay(year, month, day + 1) =
            JulianYears(year + Shift(month)) + JulianMonths(month) + (day + 1) - 2447094
    BY <1>1, <2>1, VariantDayParts
  <2>3. JulianYears(year + Shift(month)) \in Int /\ JulianMonths(month) \in Int
    BY <1>1, PartsAreIntegers DEF Shift
  <2>4. variantDay(year, month, day + 1) = variantDay(year, month, day) + 1
    BY <1>1, <1>3, <2>2, <2>3
  <2>5. variantDay(year, month, day)' = variantDay(year, month, day + 1)
    BY <2>1
  <2>6. TypeOK'
    BY <1>1, <1>2, <1>6, <2>1 DEF TypeOK
  <2> QED BY <1>1, <1>5, <2>4, <2>5, <2>6, NextIsCounted
<1>7. CASE day = MonthLength(year, month) /\ month < 12
  <2>1. day' = 1 /\ month' = month + 1 /\ year' = year /\ month \in 1..11
    BY <1>1, <1>7 DEF NextDay
  <2>2. variantDay(year, month + 1, 1) =
            JulianYears(year + Shift(month + 1)) + JulianMonths(month + 1) + 1 - 2447094
    BY <1>1, <2>1, VariantDayParts
  <2>3. TypeOK'
    BY <1>1, <2>1, MonthIsShort DEF TypeOK
  <2>4. CASE month = 2
    <3>1. Shift(month) = -1 /\ Shift(month + 1) = 0
      BY <2>4 DEF Shift
    <3>2. JulianYears(year) = JulianYears(year - 1) + (IF Leap(year) THEN 366 ELSE 365)
      BY <1>1, JulianYearsStep
    <3>3. JulianMonths(month + 1) = JulianMonths(month) + 28 - 365
      BY <2>4, JulianMonthsStep
    <3>4. day = IF Leap(year) THEN 29 ELSE 28
      BY <1>7, <2>4 DEF MonthLength
    <3>5. /\ JulianYears(year) \in Int /\ JulianYears(year - 1) \in Int
          /\ JulianMonths(month) \in Int /\ JulianMonths(month + 1) \in Int
      BY <1>1, <2>1, PartsAreIntegers
    <3>6. variantDay(year, month + 1, 1) = variantDay(year, month, day) + 1
      BY <1>1, <1>3, <2>2, <3>1, <3>2, <3>3, <3>4, <3>5
    <3>7. variantDay(year, month, day)' = variantDay(year, month + 1, 1)
      BY <2>1
    <3> QED BY <1>1, <1>5, <2>3, <3>6, <3>7, NextIsCounted
  <2>5. CASE month # 2
    <3>1. Shift(month) = Shift(month + 1)
      BY <2>1, <2>5 DEF Shift
    <3>2. JulianMonths(month + 1) = JulianMonths(month) + MonthLength(year, month)
      BY <1>1, <2>1, <2>5, JulianMonthsStep
    <3>3. /\ JulianYears(year + Shift(month)) \in Int
          /\ JulianMonths(month) \in Int /\ JulianMonths(month + 1) \in Int
      BY <1>1, <2>1, PartsAreIntegers DEF Shift
    <3>4. variantDay(year, month + 1, 1) = variantDay(year, month, day) + 1
      BY <1>1, <1>2, <1>3, <1>7, <2>2, <3>1, <3>2, <3>3
    <3>5. variantDay(year, month, day)' = variantDay(year, month + 1, 1)
      BY <2>1
    <3> QED BY <1>1, <1>5, <2>3, <3>4, <3>5, NextIsCounted
  <2> QED BY <2>4, <2>5
<1>8. CASE day = MonthLength(year, month) /\ month = 12
  <2>1. day' = 1 /\ month' = 1 /\ year' = year + 1 /\ day = 31
    BY <1>1, <1>8 DEF NextDay, MonthLength
  <2>2. variantDay(year + 1, 1, 1) = JulianYears(year) + JulianMonths(1) + 1 - 2447094
    BY <1>1, VariantDayParts DEF Shift
  <2>3. variantDay(year, month, day) = JulianYears(year) + JulianMonths(12) + 31 - 2447094
    BY <1>1, <1>3, <1>8, <2>1 DEF Shift
  <2>4. JulianMonths(1) = JulianMonths(12) + 31
    BY DEF JulianMonths, Shift
  <2>5. JulianYears(year) \in Int /\ JulianMonths(12) \in Int
    BY <1>1, PartsAreIntegers
  <2>6. variantDay(year + 1, 1, 1) = variantDay(year, month, day) + 1
    BY <2>2, <2>3, <2>4, <2>5
  <2>7. variantDay(year, month, day)' = variantDay(year + 1, 1, 1)
    BY <2>1
  <2>8. TypeOK'
    BY <1>1, <2>1, MonthIsShort DEF TypeOK
  <2> QED BY <1>1, <1>5, <2>6, <2>7, <2>8, NextIsCounted
<1>9. MonthLength(year, month) \in Int /\ day \in Int /\ month \in Int
  BY <1>1, <1>2
<1>10. \/ day < MonthLength(year, month)
       \/ day = MonthLength(year, month) /\ month < 12
       \/ day = MonthLength(year, month) /\ month = 12
  BY <1>1, <1>9
<1> QED BY <1>6, <1>7, <1>8, <1>10

\* A candle's date in Zorro's variant time is the number of days since the
\* epoch, and its time of day is added to it (lines 41-54).
THEOREM VariantTimeIsLinear == Spec => []VariantCountsDays
<1>1. CalendarInv => VariantCountsDays
  <2> SUFFICES ASSUME CalendarInv, NEW t \in Times
               PROVE  systemTimeToVariantTimeMs(year, month, day, t, 0) =
                          [days  |-> today + Epoch,
                           msecs |-> (t[1] * 3600 + t[2] * 60 + t[3]) * 1000]
    BY DEF VariantCountsDays
  <2>1. t[1] \in Int /\ t[2] \in Int /\ t[3] \in Int
    BY CalendarAssumption
  <2>2. variantDay(year, month, day) = today + Epoch /\ today \in Nat
    <3>1. /\ year \in Nat /\ year >= 1970 /\ month \in 1..12 /\ today \in Nat
          /\ variantDay(year, month, day) - 25569 = today
          /\ day \in 1..MonthLength(year, month)
      BY DEF CalendarInv, TypeOK, Epoch
    <3>2. day \in 1..31
      BY <3>1, MonthIsShort
    <3>3. year + Shift(month) \in Int
      BY <3>1, ShiftIsSmall
    <3>4. /\ JulianYears(year + Shift(month)) \in Int /\ JulianMonths(month) \in Int
      BY <3>1, <3>3, PartsAreIntegers
    <3>5. variantDay(year, month, day) =
              JulianYears(year + Shift(month)) + JulianMonths(month) + day - 2447094
      BY <3>1, <3>2, VariantDayParts
    <3> QED BY <3>1, <3>2, <3>4, <3>5 DEF Epoch
  <2>3. ~(variantDay(year, month, day) < 0)
    BY <2>2 DEF Epoch
  <2>4. 0 + t[3] * 1000 + t[2] * 60000 + t[1] * 3600000
            = (t[1] * 3600 + t[2] * 60 + t[3]) * 1000
    BY <2>1
  <2>5. (IF variantDay(year, month, day) < 0 THEN -1 ELSE 1)
            * (0 + t[3] * 1000 + t[2] * 60000 + t[1] * 3600000)
            = (t[1] * 3600 + t[2] * 60 + t[3]) * 1000
    BY <2>1, <2>3, <2>4
  <2>6. systemTimeToVariantTimeMs(year, month, day, t, 0) =
            [days  |-> variantDay(year, month, day),
             msecs |-> (IF variantDay(year, month, day) < 0 THEN -1 ELSE 1)
                       * (0 + t[3] * 1000 + t[2] * 60000 + t[1] * 3600000)]
    BY SMT DEF systemTimeToVariantTimeMs
  <2> QED BY <2>2, <2>5, <2>6, SMT
<1> QED BY <1>1, InitCalendarInv, StepCalendarInv, PTL DEF Spec

-----------------------------------------------------------------------------
(***************************************************************************)
(* mkgmtime.                                                               *)
(***************************************************************************)
\* There is a function with the recursion of yearDays: that of the Julian-day
\* formula, counted from 1970.
LEMMA YearDaysAreSums ==
    yearDays = [y \in Nat |-> IF y <= 1970 THEN 0
                  ELSE yearDays[y - 1] + (IF isLeapYear(y - 1) THEN 366 ELSE 365)]
<1> DEFINE Length(y) == IF isLeapYear(y - 1) THEN 366 ELSE 365
           f == [y \in Nat |-> IF y <= 1970 THEN 0 ELSE JulianYears(y - 1) - JulianYears(1969)]
<1>1. f = [y \in Nat |-> IF y <= 1970 THEN 0 ELSE f[y - 1] + Length(y)]
  <2>1. ASSUME NEW y \in Nat, y > 1970
        PROVE  f[y] = f[y - 1] + Length(y)
    <3>1. JulianYears(y - 1) = JulianYears(y - 2) + (IF Leap(y - 1) THEN 366 ELSE 365)
      <4>1. y - 1 \in Nat
        BY <2>1
      <4> QED BY <4>1, <2>1, JulianYearsStep
    <3>2. JulianYears(y - 1) \in Int /\ JulianYears(y - 2) \in Int /\ JulianYears(1969) \in Int
      BY PartsAreIntegers
    <3>3. (IF Leap(y - 1) THEN 366 ELSE 365) = Length(y)
      BY DEF Leap, isLeapYear
    <3> HIDE DEF Length
    <3>4. f[y] = JulianYears(y - 1) - JulianYears(1969)
      BY <2>1
    <3>5. CASE y = 1971
      <4>1. f[y-1] = 0
        BY <3>5
      <4> QED BY <3>1, <3>2, <3>3, <3>4, <3>5, <4>1
    <3>6. CASE y # 1971
      <4>1. y - 1 \in Nat /\ ~(y - 1 <= 1970) /\ y - 1 - 1 = y - 2
        BY <2>1, <3>6
      <4>2. f[y-1] = JulianYears(y - 2) - JulianYears(1969)
        BY <4>1
      <4> QED BY <3>1, <3>2, <3>3, <3>4, <4>2
    <3> QED BY <3>5, <3>6
  <2> HIDE DEF Length
  <2>2. \A y \in Nat : f[y] = IF y <= 1970 THEN 0 ELSE f[y - 1] + Length(y)
    BY <2>1
  <2> QED BY <2>2
<1> HIDE DEF f
<1>2. \E g : g = [y \in Nat |-> IF y <= 1970 THEN 0 ELSE g[y - 1] + Length(y)]
  BY <1>1
<1> QED BY <1>2, Zenon DEF yearDays

\* The days before each month of a common year.
Table == <<0, 31, 59, 90, 120, 151, 181, 212, 243, 273, 304, 334>>

\* The sums of the months are those of the table, from March on with the leap day.
LEMMA MonthDaysAreSums ==
    ASSUME NEW y \in Nat, NEW m \in 0..11
    PROVE  monthDays(y, m) = Table[m + 1] + (IF m >= 2 /\ Leap(y) THEN 1 ELSE 0)
<1> DEFINE leap == IF Leap(y) THEN 1 ELSE 0
           f == [k \in 0..11 |-> Table[k + 1] + (IF k >= 2 THEN leap ELSE 0)]
           g == CHOOSE h : h = [k \in 0..11 |-> IF k = 0 THEN 0 ELSE h[k - 1] + DAYS_OF_MONTH[k]
                 + (IF k - 1 = 1 /\ isLeapYear(y) THEN 1 ELSE 0)]
<1>1. monthDays(y, m) = g[m]
  BY Zenon DEF monthDays
<1>2. ASSUME NEW k \in 1..11 PROVE f[k] = f[k - 1] + DAYS_OF_MONTH[k]
                 + (IF k - 1 = 1 /\ isLeapYear(y) THEN 1 ELSE 0)
  BY DEF Table, DAYS_OF_MONTH, Leap, isLeapYear
<1>3. f = [k \in 0..11 |-> IF k = 0 THEN 0 ELSE f[k - 1] + DAYS_OF_MONTH[k]
                 + (IF k - 1 = 1 /\ isLeapYear(y) THEN 1 ELSE 0)]
  BY <1>2 DEF Table
<1> HIDE DEF f
<1>4. g = [k \in 0..11 |-> IF k = 0 THEN 0 ELSE g[k - 1] + DAYS_OF_MONTH[k]
                 + (IF k - 1 = 1 /\ isLeapYear(y) THEN 1 ELSE 0)]
  BY <1>3, Zenon
<1> HIDE DEF g
<1>5. /\ g[0] = 0
      /\ \A k \in 1..11 : g[k] = g[k - 1] + DAYS_OF_MONTH[k]
                 + (IF k - 1 = 1 /\ isLeapYear(y) THEN 1 ELSE 0)
  BY <1>4
<1>6. isLeapYear(y) <=> Leap(y)
  BY DEF Leap, isLeapYear
<1>7. g[1] = 31 /\ g[2] = 59 + leap /\ g[3] = 90 + leap /\ g[4] = 120 + leap
  BY <1>5, <1>6 DEF DAYS_OF_MONTH
<1>8. g[5] = 151 + leap /\ g[6] = 181 + leap /\ g[7] = 212 + leap /\ g[8] = 243 + leap
  BY <1>5, <1>7 DEF DAYS_OF_MONTH
<1>9. g[9] = 273 + leap /\ g[10] = 304 + leap /\ g[11] = 334 + leap
  BY <1>5, <1>8 DEF DAYS_OF_MONTH
<1> QED BY <1>1, <1>5, <1>7, <1>8, <1>9 DEF Table

LEMMA YearGrows ==
    ASSUME NEW y \in Nat, y >= 1970
    PROVE  yearDays[y + 1] = yearDays[y] + (IF Leap(y) THEN 366 ELSE 365)
<1>1. y + 1 \in Nat /\ ~(y + 1 <= 1970) /\ y + 1 - 1 = y
  OBVIOUS
<1>2. yearDays[y + 1] = yearDays[y] + (IF isLeapYear(y) THEN 366 ELSE 365)
  BY <1>1, YearDaysAreSums
<1> QED BY <1>2 DEF Leap, isLeapYear

LEMMA MonthsAreNumbers ==
    ASSUME NEW y \in Nat, NEW m \in 0..11
    PROVE  monthDays(y, m) \in Nat
<1>1. Table[m + 1] \in Nat
  BY DEF Table
<1> QED BY <1>1, MonthDaysAreSums

\* From month to month mkgmtime goes on by the length of the month.
LEMMA MonthGrows ==
    ASSUME NEW y \in Nat, NEW m \in 1..11
    PROVE  monthDays(y, m) = monthDays(y, m - 1) + MonthLength(y, m)
<1>1. /\ monthDays(y, m - 1) = Table[m - 1 + 1] + (IF m - 1 >= 2 /\ Leap(y) THEN 1 ELSE 0)
      /\ monthDays(y, m) = Table[m + 1] + (IF m >= 2 /\ Leap(y) THEN 1 ELSE 0)
  <2>1. m \in 0..11 /\ m - 1 \in 0..11
    OBVIOUS
  <2> QED BY <2>1, MonthDaysAreSums
<1>2. Table[m + 1] = Table[m] + DAYS_OF_MONTH[m]
  BY DEF Table, DAYS_OF_MONTH
<1>3. MonthLength(y, m) = DAYS_OF_MONTH[m] + (IF m = 2 /\ Leap(y) THEN 1 ELSE 0)
  BY DEF MonthLength, DAYS_OF_MONTH
<1>4. Table[m] \in Nat /\ DAYS_OF_MONTH[m] \in Nat /\ m - 1 + 1 = m
  BY DEF Table, DAYS_OF_MONTH
<1> QED BY <1>1, <1>2, <1>3, <1>4

LEMMA MonthsOfYear ==
    ASSUME NEW y \in Nat
    PROVE  monthDays(y, 0) = 0 /\ monthDays(y, 11) + 31 = IF Leap(y) THEN 366 ELSE 365
BY MonthDaysAreSums DEF Table

\* mkgmtime has counted the days, and the sum of the years is a number.
CountInv ==
    /\ CalendarInv
    /\ yearDays[year] \in Nat
    /\ today = yearDays[year] + monthDays(year, month - 1) + day - 1

LEMMA InitCountInv == Init => CountInv
<1> SUFFICES ASSUME Init PROVE CountInv
  OBVIOUS
<1>1. yearDays[1970] = 0
  BY YearDaysAreSums
<1>2. monthDays(1970, 0) = 0
  BY MonthsOfYear
<1> QED BY <1>1, <1>2, InitCalendarInv DEF CountInv, Init

LEMMA StepCountInv == CountInv /\ [NextDay]_vars => CountInv'
<1> SUFFICES ASSUME CountInv, NextDay PROVE CountInv'
  BY StepCalendarInv DEF CountInv, vars
<1>1. /\ CalendarInv' /\ today' = today + 1 /\ today \in Nat
      /\ year \in Nat /\ year >= 1970 /\ month \in 1..12
      /\ day \in 1..MonthLength(year, month)
      /\ today = yearDays[year] + monthDays(year, month - 1) + day - 1
      /\ yearDays[year] \in Nat
  BY StepCalendarInv DEF CountInv, CalendarInv, TypeOK, NextDay
<1>2. /\ month - 1 \in 0..11 /\ monthDays(year, month - 1) \in Nat
      /\ MonthLength(year, month) \in 28..31 /\ day \in Nat
  <2>1. month - 1 \in 0..11
    BY <1>1
  <2>2. monthDays(year, month - 1) \in Nat
    <3> DEFINE m == month - 1
    <3>1. m \in 0..11 /\ year \in Nat
      BY <1>1, <2>1
    <3> HIDE DEF m
    <3>2. monthDays(year, m) \in Nat
      BY <3>1, MonthsAreNumbers
    <3> QED BY <3>2 DEF m
  <2>3. MonthLength(year, month) \in 28..31
    BY <1>1, MonthIsShort
  <2> QED BY <1>1, <2>1, <2>2, <2>3
<1>3. CASE day < MonthLength(year, month)
  <2>1. day' = day + 1 /\ UNCHANGED <<year, month>>
    BY <1>1, <1>2, <1>3 DEF NextDay
  <2> QED BY <1>1, <1>2, <2>1 DEF CountInv
<1>4. CASE day = MonthLength(year, month) /\ month < 12
  <2>1. day' = 1 /\ month' = month + 1 /\ year' = year /\ month - 1 \in 0..10
    BY <1>1, <1>2, <1>4 DEF NextDay
  <2>2. monthDays(year, month) = monthDays(year, month - 1) + MonthLength(year, month)
    <3>1. month \in 1..11
      BY <1>1, <1>4
    <3> QED BY <1>1, <3>1, MonthGrows
  <2>3. month' - 1 = month
    BY <1>1, <2>1
  <2> QED BY <1>1, <1>2, <1>4, <2>1, <2>2, <2>3 DEF CountInv
<1>5. CASE day = MonthLength(year, month) /\ month = 12
  <2>1. day' = 1 /\ month' = 1 /\ year' = year + 1 /\ day = 31
    BY <1>1, <1>5 DEF NextDay, MonthLength
  <2>2. yearDays[year + 1] = yearDays[year] + (IF Leap(year) THEN 366 ELSE 365)
    BY <1>1, YearGrows
  <2>3. /\ monthDays(year, 11) + 31 = IF Leap(year) THEN 366 ELSE 365
        /\ monthDays(year + 1, 0) = 0
    BY <1>1, MonthsOfYear
  <2>4. month - 1 = 11 /\ month' - 1 = 0
    BY <1>5, <2>1
  <2> QED BY <1>1, <1>2, <2>1, <2>2, <2>3, <2>4 DEF CountInv
<1>6. \/ day < MonthLength(year, month)
      \/ day = MonthLength(year, month) /\ month < 12
      \/ day = MonthLength(year, month) /\ month = 12
  BY <1>1, <1>2
<1> QED BY <1>3, <1>4, <1>5, <1>6

\* A candle's start in seconds is the number of days since 1970 and the time of
\* day, through every month, leap day and turn of a century (lines 91-117).
THEOREM SecondsAreCounted == Spec => []SecondsCountDays
<1>1. CountInv => SecondsCountDays
  BY DEF CountInv, SecondsCountDays, mkgmtime
<1> QED BY <1>1, InitCountInv, StepCountInv, PTL DEF Spec
=============================================================================
