------------------------------ MODULE Temporal ------------------------------
(***************************************************************************)
(* Calendar dates and times of tpt-strata/src/temporal.rs.                 *)
(*                                                                         *)
(* A date is a number of days from 1970-01-01, a timestamp a number of     *)
(* microseconds from its midnight.  Rust divides towards zero; the code    *)
(* shifts a negative dividend first, so that it divides down.              *)
(***************************************************************************)
EXTENDS Integers

CONSTANTS
  Micros        \* microseconds in a second

ASSUME MicrosAssumption == Micros \in Nat \ {0}

\* A date is <<year, month, day>>, a time <<hour, minute, second, microsecond>>.

\* Division towards zero.
Quotient(a, b) == IF a >= 0 THEN a \div b ELSE -((-a) \div b)

\* Which cycle of so many years or days.
Era(a, cycle) == Quotient(IF a >= 0 THEN a ELSE a - (cycle - 1), cycle)

\* The day of a year that starts on the first of March; its months from 0.
DayOfYear(mp, d) == (153 * mp + 2) \div 5 + d - 1
DayOfEra(yoe, doy) == yoe * 365 + yoe \div 4 - yoe \div 100 + doy

\* Mutant: January and February are of the year they are in.
DaysFromCivilYear(y, m, d) ==
  LET era == Era(y, 400)
      yoe == y - era * 400
  IN  era * 146097 + DayOfEra(yoe, DayOfYear((m + 9) % 12, d)) - 719468

DaysFromCivil(y, m, d) ==
  LET year == IF m <= 2 THEN y - 1 ELSE y
      era == Era(year, 400)
      yoe == year - era * 400
  IN  era * 146097 + DayOfEra(yoe, DayOfYear((m + 9) % 12, d)) - 719468

YearOfEra(doe) == (doe - doe \div 1460 + doe \div 36524 - doe \div 146096) \div 365

CivilFromDays(day) ==
  LET z == day + 719468
      era == Era(z, 146097)
      doe == z - era * 146097
      yoe == YearOfEra(doe)
      doy == doe - DayOfEra(yoe, 0)
      mp == (5 * doy + 2) \div 153
      m == IF mp < 10 THEN mp + 3 ELSE mp - 9
      y == yoe + era * 400
  IN  <<IF m <= 2 THEN y + 1 ELSE y, m, doy - (153 * mp + 2) \div 5 + 1>>

IsLeap(y) == (y % 4 = 0 /\ y % 100 # 0) \/ y % 400 = 0

DaysInMonth(y, m) ==
  CASE m \in {1, 3, 5, 7, 8, 10, 12} -> 31
    [] m \in {4, 6, 9, 11}           -> 30
    [] OTHER                         -> IF IsLeap(y) THEN 29 ELSE 28

\* `parse_ymd`, of a year of four digits and a month and a day of two.
IsDate(y, m, d) == y \in 0..9999 /\ m \in 1..12 /\ d # 0 /\ d <= DaysInMonth(y, m)

-----------------------------------------------------------------------------
PerDay == 86400 * Micros

\* `parse_hms_micros`
IsTime(h, mi, s) == h <= 23 /\ mi <= 59 /\ s <= 59
MicrosOfDay(h, mi, s, f) == ((h * 60 + mi) * 60 + s) * Micros + f

\* `format_timestamp`
DateOfMicros(micros) == CivilFromDays(micros \div PerDay)
TimeOfMicros(micros) ==
  LET rem == micros % PerDay
      secs == rem \div Micros
  IN  <<secs \div 3600, (secs \div 60) % 60, secs % 60, rem % Micros>>
=============================================================================
