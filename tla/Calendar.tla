------------------------------ MODULE Calendar ------------------------------
(***************************************************************************)
(* The conversions of a candle's date (utils.cpp): into seconds since 1970 *)
(* (mkgmtime, by which history is paged) and into Zorro's variant time     *)
(* (systemTimeToVariantTimeMs, which the ticks handed to Zorro carry).      *)
(*                                                                         *)
(* The state is a date that moves on day by day through the Gregorian      *)
(* calendar, with the number of days since 1970-01-01; both conversions    *)
(* are compared with that count.  A time is a pair of whole days and a     *)
(* remainder, seconds for mkgmtime and milliseconds for the variant time:  *)
(* the code adds the two up, in 64 bits and in a double that keeps         *)
(* milliseconds.                                                           *)
(***************************************************************************)
EXTENDS Integers, Sequences

CONSTANTS
    LastYear,   \* bound on the years walked through; a time text has four digits
    Times       \* times of day tried: <<hour, minute, second>>

ASSUME CalendarAssumption ==
    /\ LastYear \in 0..9998
    /\ Times \subseteq (0..23) \X (0..59) \X (0..59)

VARIABLES year, month, day, today

vars == <<year, month, day, today>>

-----------------------------------------------------------------------------
(* The reference: the Gregorian calendar, one day after the other.         *)

Leap(y) == y % 400 = 0 \/ (y % 4 = 0 /\ y % 100 # 0)

MonthLength(y, m) ==
    IF m = 2 THEN IF Leap(y) THEN 29 ELSE 28
    ELSE IF m \in {4, 6, 9, 11} THEN 30 ELSE 31

TypeOK ==
    /\ year \in Nat /\ year >= 1970
    /\ month \in 1..12
    /\ day \in 1..MonthLength(year, month)
    /\ today \in Nat

Init == year = 1970 /\ month = 1 /\ day = 1 /\ today = 0

NextDay ==
    /\ year <= LastYear
    /\ today' = today + 1
    /\ \/ /\ day < MonthLength(year, month)
          /\ day' = day + 1
          /\ UNCHANGED <<year, month>>
       \/ /\ day = MonthLength(year, month) /\ month < 12
          /\ day' = 1 /\ month' = month + 1
          /\ UNCHANGED year
       \/ /\ day = MonthLength(year, month) /\ month = 12
          /\ day' = 1 /\ month' = 1 /\ year' = year + 1

Spec == Init /\ [][NextDay]_vars

-----------------------------------------------------------------------------
(* mkgmtime                                                                *)

\* A slip of isLeapYear: the rule of the fourth centuries is missing.
JulianLeapYear(y) == y % 4 = 0 /\ y % 100 # 0

isLeapYear(y) == y % 4 = 0 /\ (y % 100 # 0 \/ y % 400 = 0)

DAYS_OF_MONTH == <<31, 28, 31, 30, 31, 30, 31, 31, 30, 31, 30, 31>>

\* The days of the years from 1970 to y - 1.
yearDays[y \in Nat] ==
    IF y <= 1970 THEN 0
    ELSE yearDays[y - 1] + (IF isLeapYear(y - 1) THEN 366 ELSE 365)

\* The days of the months of year y before tmMon, which counts from 0.
monthDays(y, tmMon) ==
    LET days[m \in 0..11] ==
            IF m = 0 THEN 0
            ELSE days[m - 1] + DAYS_OF_MONTH[m]
                 + (IF m - 1 = 1 /\ isLeapYear(y) THEN 1 ELSE 0)
    IN  days[tmMon]

mkgmtime(y, tmMon, d, time) ==
    [days    |-> yearDays[y] + monthDays(y, tmMon) + d - 1,
     seconds |-> time[1] * 3600 + time[2] * 60 + time[3]]

-----------------------------------------------------------------------------
(* systemTimeToVariantTimeMs                                               *)

\* A slip of Quotient: division that rounds down.
FloorQuotient(a, b) == a \div b

\* Integer division as C does it, towards zero.
Quotient(a, b) == IF a >= 0 THEN a \div b ELSE -((-a) \div b)

variantDay(y, m, d) ==
    LET m12 == Quotient(m - 14, 12)
    IN  Quotient(1461 * (y + 4800 + m12), 4)
        + Quotient(367 * (m - 2 - 12 * m12), 12)
        - Quotient(3 * Quotient(y + 4900 + m12, 100), 4)
        + d - 32075 - 1757585 - 657434

\* The fraction is added away from the epoch: before 1899-12-30 it is negative.
systemTimeToVariantTimeMs(y, m, d, time, msec) ==
    LET sign == IF variantDay(y, m, d) < 0 THEN -1 ELSE 1
    IN  [days  |-> variantDay(y, m, d),
         msecs |-> sign * (msec + time[3] * 1000 + time[2] * 60000 + time[1] * 3600000)]

-----------------------------------------------------------------------------
(* Properties.                                                             *)

\* The day of Zorro's variant time on which 1970-01-01 falls; convertTime of
\* ftx.cpp subtracts it (line 46).
Epoch == 25569

\* A candle's start in seconds is the number of days since 1970 and the time of
\* day, through every month, leap day and turn of a century (lines 91-117).
SecondsCountDays ==
    \A t \in Times :
        mkgmtime(year, month - 1, day, t) =
            [days |-> today, seconds |-> t[1] * 3600 + t[2] * 60 + t[3]]

\* Consecutive dates have consecutive variant days, which convertTime takes back
\* to the days since 1970, and the time of day is added as milliseconds
\* (lines 41-54; ftx.cpp:45-47).
VariantCountsDays ==
    \A t \in Times :
        systemTimeToVariantTimeMs(year, month, day, t, 0) =
            [days  |-> today + Epoch,
             msecs |-> (t[1] * 3600 + t[2] * 60 + t[3]) * 1000]
=============================================================================
