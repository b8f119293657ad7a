---------------------------- MODULE TablesProofs ----------------------------
(***************************************************************************)
(* What the tables module rests on, for all inputs: that the two           *)
(* conversions between dates and day numbers are inverse, for every year,  *)
(* and that making, appending, picking and gathering columns keeps their   *)
(* values and NULLs aligned, for columns of any length.  From that, for    *)
(* every document, limit and batch size: that a table is always well typed *)
(* and that a NULL is only ever in a column whose field allows it.         *)
(***************************************************************************)
EXTENDS Tables, Induction

-----------------------------------------------------------------------------
(***************************************************************************)
(* Dates.  A year is that which starts on the first of March, at its place *)
(* in an era of 400 years: 100 * c + 4 * k + j, for the century c of the   *)
(* era, the four years k of the century and the year j of these.           *)
(***************************************************************************)

\* A year is the year yoe of an era, and where in the era that is.
InEra(year, era, yoe) == year = yoe + era * 400
AtPlace(yoe, c, k, j) ==
  c \in 0..3 /\ k \in 0..24 /\ j \in 0..3 /\ yoe = 100 * c + 4 * k + j

\* Day doe of an era is day doy of its year yoe.
IsDayOfEra(doe, yoe, doy) ==
  /\ doe \in Int /\ 0 <= doe /\ doe < 146097
  /\ YearOfEra(doe) = yoe
  /\ doe - DayOfEra(yoe, 0) = doy

IsDay(day, era, doe) == day \in Int /\ day = era * 146097 + doe - 719468

\* Day doy of a year is day d of month mp.
IsDayOf(doy, mp, d) ==
  (5 * doy + 2) \div 153 = mp /\ doy - (153 * mp + 2) \div 5 + 1 = d

\* Day d of month m of a year is its day doy, in month mp from March on.
OnDay(y, m, d, mp, doy) ==
  /\ m \in 1..12 /\ d \in 1..DaysInMonth(y, m)
  /\ mp = (m + 9) % 12 /\ doy = DayOfYear(mp, d)

\* A leap year is the last of its four years and, at the end of a century, of the era.
FitsYear(doy, c, k, j) == doy = 365 => j = 3 /\ (k # 24 \/ c = 3)

\* The shift before the division makes it one towards minus infinity.
LEMMA Eras ==
  ASSUME NEW a \in Int, NEW cycle \in {400, 146097}
  PROVE  Era(a, cycle) = a \div cycle
BY DEF Era, Quotient

\* Where a year is in its era.
LEMMA PlacesInEra ==
  ASSUME NEW year \in Int
  PROVE  \E era \in Int, yoe \in 0..399, c \in 0..3, k \in 0..24, j \in 0..3 :
           /\ InEra(year, era, yoe)
           /\ Era(year, 400) = era
           /\ AtPlace(yoe, c, k, j)
<1> DEFINE era == year \div 400
           yoe == year - 400 * era
<1>1. era \in Int /\ yoe \in 0..399
  OBVIOUS
<1>2. PICK e \in Int, y \in 0..399 : year = 400 * e + y /\ e = era
  BY <1>1
<1>3. PICK c \in 0..3, z \in 0..99 : y = 100 * c + z
  <2>1. y \div 100 \in 0..3 /\ y % 100 \in 0..99 /\ y = 100 * (y \div 100) + (y % 100)
    OBVIOUS
  <2> QED
    BY <2>1
<1>4. PICK k \in 0..24, j \in 0..3 : z = 4 * k + j
  <2>1. z \div 4 \in 0..24 /\ z % 4 \in 0..3 /\ z = 4 * (z \div 4) + (z % 4)
    OBVIOUS
  <2> QED
    BY <2>1
<1>5. Era(year, 400) = e
  <2>1. Era(year, 400) = era
    BY Eras
  <2> QED
    BY <1>2, <2>1
<1>6. AtPlace(y, c, k, j)
  BY <1>3, <1>4 DEF AtPlace
<1>7. InEra(year, e, y)
  BY <1>2 DEF InEra
<1> HIDE DEF era, yoe
<1> QED
  BY <1>5, <1>6, <1>7

\* The days of an era up to a day of a year.
LEMMA DaysBefore ==
  ASSUME NEW yoe, NEW c, NEW k, NEW j, AtPlace(yoe, c, k, j), NEW doy \in Int
  PROVE  DayOfEra(yoe, doy) = 36524 * c + 1461 * k + 365 * j + doy
<1>1. c \in 0..3 /\ k \in 0..24 /\ j \in 0..3 /\ yoe = 100 * c + 4 * k + j
  BY DEF AtPlace
<1>2. yoe \div 4 = 25 * c + k
  BY <1>1
<1>3. yoe \div 100 = c
  <2>1. 4 * k + j >= 0 /\ 4 * k + j < 100
    BY <1>1
  <2> QED
    BY <1>1, <2>1
<1> QED
  BY <1>1, <1>2, <1>3 DEF DayOfEra

\* The year of a day of an era.
LEMMA Years ==
  ASSUME NEW yoe, NEW c, NEW k, NEW j, AtPlace(yoe, c, k, j),
         NEW doy \in 0..365, FitsYear(doy, c, k, j)
  PROVE  IsDayOfEra(DayOfEra(yoe, doy), yoe, doy)
<1> DEFINE doe == DayOfEra(yoe, doy)
<1>1. /\ c \in 0..3 /\ k \in 0..24 /\ j \in 0..3 /\ yoe = 100 * c + 4 * k + j
      /\ doy = 365 => j = 3 /\ (k # 24 \/ c = 3)
  BY DEF AtPlace, FitsYear
<1>2. doe = 36524 * c + 1461 * k + 365 * j + doy
  BY DaysBefore
<1>3. doe - DayOfEra(yoe, 0) = doy
  BY <1>1 DEF DayOfEra
<1> HIDE DEF doe
<1> DEFINE rest == 1461 * k + 365 * j + doy
           carry == IF 24 * c + k + 365 * j + doy >= 1460 THEN 1 ELSE 0
           last == IF rest = 36524 THEN 1 ELSE 0
<1>4. rest \in Int /\ 0 <= rest /\ rest <= 36524 /\ (rest = 36524 => c = 3)
  BY <1>1
<1>5. /\ c \in 0..3 /\ doe = 36524 * c + rest /\ doe \in Int
      /\ 0 <= doe /\ doe < 146097
  BY <1>1, <1>2, <1>4
<1>6. doe \div 1460 = 25 * c + k + carry
  BY <1>1, <1>2
<1>7. doe \div 36524 = c + last
  <2> HIDE DEF rest
  <2>1. CASE rest = 36524
    BY <1>5, <2>1
  <2>2. CASE rest # 36524
    BY <1>4, <1>5, <2>2
  <2> QED
    BY <2>1, <2>2
<1>8. doe \div 146096 = last
  <2> HIDE DEF rest
  <2>1. CASE rest = 36524
    BY <1>4, <1>5, <2>1
  <2>2. CASE rest # 36524
    BY <1>4, <1>5, <2>2
  <2> QED
    BY <2>1, <2>2
<1>9. doy - carry \in 0..364
  BY <1>1
<1>10. /\ carry \in Int /\ last \in Int
      /\ doe - (25 * c + k + carry) + (c + last) - last
           = 365 * yoe + (doy - carry)
  BY <1>1, <1>2
<1>11. YearOfEra(doe) = (365 * yoe + (doy - carry)) \div 365
  <2> HIDE DEF carry, last
  <2> QED
    BY <1>6, <1>7, <1>8, <1>10 DEF YearOfEra
<1>12. (365 * yoe + (doy - carry)) \div 365 = yoe
  <2> DEFINE spare == doy - carry
  <2>1. yoe \in Int /\ spare \in Int /\ 0 <= spare /\ spare < 365
    BY <1>1, <1>9
  <2> HIDE DEF spare
  <2>2. (365 * yoe + spare) \div 365 = yoe
    BY <2>1
  <2> QED
    BY <2>2 DEF spare
<1>13. YearOfEra(doe) = yoe
  BY <1>11, <1>12
<1> HIDE DEF rest, carry, last
<1>14. IsDayOfEra(doe, yoe, doy)
  BY <1>3, <1>5, <1>13 DEF IsDayOfEra
<1> QED
  BY <1>14 DEF doe

\* The month and the day of a day of the year.
LEMMA Months ==
  ASSUME NEW y \in Int, NEW m, NEW d, NEW mp, NEW doy, OnDay(y, m, d, mp, doy)
  PROVE  /\ doy \in 0..365
         /\ IsDayOf(doy, mp, d)
         /\ doy = 365 => m = 2 /\ IsLeap(y)
BY SMTT(60) DEF OnDay, DayOfYear, DaysInMonth, IsDayOf

\* The day a leap year adds is in the last of four years.
LEMMA LeapDay ==
  ASSUME NEW era \in Int, NEW yoe, NEW c, NEW k, NEW j, AtPlace(yoe, c, k, j),
         NEW y \in Int, InEra(y - 1, era, yoe), IsLeap(y)
  PROVE  j = 3 /\ (k # 24 \/ c = 3)
<1>1. c \in 0..3 /\ k \in 0..24 /\ j \in 0..3 /\ y = 400 * era + 100 * c + 4 * k + j + 1
  BY DEF AtPlace, InEra
<1>2. y % 4 = (j + 1) % 4
  BY <1>1
<1>3. y % 400 = 0 => c = 3 /\ k = 24 /\ j = 3
  BY <1>1
<1>4. k = 24 /\ j = 3 => y % 100 = 0
  BY <1>1
<1> QED
  BY <1>1, <1>2, <1>3, <1>4 DEF IsLeap

\* The date of day doy of a year of an era.
LEMMA FromParts ==
  ASSUME NEW year, NEW era \in Int, NEW yoe \in Int, InEra(year, era, yoe),
         NEW doy \in Int, NEW doe, IsDayOfEra(doe, yoe, doy),
         NEW mp \in 0..11, NEW d \in Int, IsDayOf(doy, mp, d),
         NEW day, IsDay(day, era, doe)
  PROVE  CivilFromDays(day) =
           <<IF mp < 10 THEN year ELSE year + 1,
             IF mp < 10 THEN mp + 3 ELSE mp - 9, d>>
<1> DEFINE z == day + 719468
<1>1. doe \in Int /\ 0 <= doe /\ doe < 146097 /\ YearOfEra(doe) = yoe
  BY DEF IsDayOfEra
<1>2. doe - DayOfEra(yoe, 0) = doy
  BY DEF IsDayOfEra
<1>3. z = 146097 * era + doe /\ z \in Int
  BY <1>1 DEF IsDay
<1> HIDE DEF z
<1>4. z \div 146097 = era /\ z - era * 146097 = doe
  BY <1>1, <1>3
<1>5. Era(z, 146097) = era
  BY <1>3, <1>4, Eras
<1> DEFINE doy2 == doe - DayOfEra(yoe, 0)
           mp2 == (5 * doy2 + 2) \div 153
           m == IF mp2 < 10 THEN mp2 + 3 ELSE mp2 - 9
           y == yoe + era * 400
<1>6. CivilFromDays(day) =
        <<IF m <= 2 THEN y + 1 ELSE y, m, doy2 - (153 * mp2 + 2) \div 5 + 1>>
  BY <1>1, <1>4, <1>5 DEF CivilFromDays, z
<1>7. doy2 = doy /\ mp2 = mp /\ y = year
  BY <1>2 DEF IsDayOf, InEra
<1>8. IF mp < 10 THEN m = mp + 3 /\ m > 2 ELSE m = mp - 9 /\ m <= 2
  BY <1>7
<1> HIDE DEF doy2, mp2, m, y
<1> QED
  BY <1>6, <1>7, <1>8 DEF IsDayOf

\* A date of the calendar is read back from its day number, in any year: before 1970,
\* at the turns of centuries and on leap days alike.
THEOREM DatesReadBack ==
  ASSUME NEW y \in Int, NEW m \in 1..12, NEW d \in 1..DaysInMonth(y, m)
  PROVE  CivilFromDays(DaysFromCivil(y, m, d)) = <<y, m, d>>
<1> DEFINE year == IF m <= 2 THEN y - 1 ELSE y
           mp == (m + 9) % 12
           doy == DayOfYear(mp, d)
           day == DaysFromCivil(y, m, d)
<1>1. year \in Int /\ y = IF m <= 2 THEN year + 1 ELSE year
  OBVIOUS
<1>2. /\ mp \in 0..11 /\ mp = (m + 9) % 12
      /\ mp < 10 => m = mp + 3 /\ m > 2
      /\ mp >= 10 => m = mp - 9 /\ m <= 2
  OBVIOUS
<1>3. d \in Int /\ doy \in Int /\ doy = DayOfYear(mp, d)
  <2>1. d \in Int
    BY DEF DaysInMonth
  <2>2. mp \in Int
    OBVIOUS
  <2> HIDE DEF mp
  <2> QED
    BY <2>1, <2>2 DEF DayOfYear
<1>4. day = Era(year, 400) * 146097 + DayOfEra(year - Era(year, 400) * 400, doy) - 719468
  BY DEF DaysFromCivil
<1> HIDE DEF year, mp, doy, day
<1>5. PICK era \in Int, yoe \in 0..399, c \in 0..3, k \in 0..24, j \in 0..3 :
        /\ InEra(year, era, yoe)
        /\ Era(year, 400) = era
        /\ AtPlace(yoe, c, k, j)
  BY <1>1, PlacesInEra
<1>6. doy \in 0..365 /\ IsDayOf(doy, mp, d) /\ (doy = 365 => m = 2 /\ IsLeap(y))
  <2>1. OnDay(y, m, d, mp, doy)
    BY <1>2, <1>3 DEF OnDay
  <2> QED
    BY <2>1, Months
<1>7. FitsYear(doy, c, k, j)
  <2>1. ASSUME doy = 365
        PROVE  j = 3 /\ (k # 24 \/ c = 3)
    <3>1. InEra(y - 1, era, yoe) /\ IsLeap(y)
      BY <1>1, <1>5, <1>6, <2>1
    <3> QED
      BY <1>5, <3>1, LeapDay
  <2> QED
    BY <2>1 DEF FitsYear
<1>8. year - Era(year, 400) * 400 = yoe
  BY <1>5 DEF InEra
<1> DEFINE doe == DayOfEra(yoe, doy)
<1>9. IsDayOfEra(doe, yoe, doy)
  BY <1>5, <1>6, <1>7, Years
<1>10. day = era * 146097 + doe - 719468
  BY <1>4, <1>5, <1>8
<1> HIDE DEF doe
<1>11. IsDay(day, era, doe)
  BY <1>10, <1>9 DEF IsDayOfEra, IsDay
<1>12. era \in Int /\ yoe \in Int /\ InEra(year, era, yoe) /\ mp \in 0..11
  BY <1>2, <1>5
<1>13. CivilFromDays(day) = <<IF mp < 10 THEN year ELSE year + 1,
                              IF mp < 10 THEN mp + 3 ELSE mp - 9, d>>
  BY <1>3, <1>6, <1>9, <1>11, <1>12, FromParts
<1>14. y = IF mp < 10 THEN year ELSE year + 1
  BY <1>1, <1>2
<1>15. m = IF mp < 10 THEN mp + 3 ELSE mp - 9
  BY <1>2
<1> QED
  BY <1>13, <1>14, <1>15 DEF day

\* The year of an era that a day of it is in.
LEMMA YearOfDay ==
  ASSUME NEW doe \in Int, 0 <= doe, doe < 146097
  PROVE  \E yoe, c, k, j, doy : /\ AtPlace(yoe, c, k, j) /\ FitsYear(doy, c, k, j)
                               /\ doy \in 0..365 /\ DayOfEra(yoe, doy) = doe
<1>1. PICK c \in Int, rest \in Int :
        /\ 0 <= c /\ c <= 3 /\ doe = 36524 * c + rest
        /\ 0 <= rest /\ rest <= 36524 /\ (rest = 36524 => c = 3)
  <2>1. CASE doe < 146096
    <3>1. /\ doe \div 36524 \in Int /\ doe % 36524 \in Int
          /\ 0 <= doe \div 36524 /\ doe \div 36524 <= 3
          /\ 0 <= doe % 36524 /\ doe % 36524 < 36524
          /\ doe = 36524 * (doe \div 36524) + (doe % 36524)
      BY <2>1
    <3> QED
      BY <3>1
  <2>2. CASE doe >= 146096
    <3>1. doe = 36524 * 3 + 36524
      BY <2>2
    <3> QED
      BY <3>1
  <2> QED
    BY <2>1, <2>2
<1>2. PICK k \in Int, rest2 \in Int :
        /\ 0 <= k /\ k <= 24 /\ rest = 1461 * k + rest2 /\ 0 <= rest2 /\ rest2 < 1461
  <2>1. /\ rest \div 1461 \in Int /\ rest % 1461 \in Int
        /\ 0 <= rest \div 1461 /\ rest \div 1461 <= 24
        /\ 0 <= rest % 1461 /\ rest % 1461 < 1461
        /\ rest = 1461 * (rest \div 1461) + (rest % 1461)
    BY <1>1
  <2> QED
    BY <2>1
<1>3. PICK j \in Int, doy \in Int :
        /\ 0 <= j /\ j <= 3 /\ rest2 = 365 * j + doy
        /\ 0 <= doy /\ doy <= 365 /\ (doy = 365 => j = 3)
  <2>1. CASE rest2 < 1460
    <3>1. /\ rest2 \div 365 \in Int /\ rest2 % 365 \in Int
          /\ 0 <= rest2 \div 365 /\ rest2 \div 365 <= 3
          /\ 0 <= rest2 % 365 /\ rest2 % 365 < 365
          /\ rest2 = 365 * (rest2 \div 365) + (rest2 % 365)
      BY <1>2, <2>1
    <3> QED
      BY <3>1
  <2>2. CASE rest2 >= 1460
    <3>1. rest2 = 365 * 3 + 365
      BY <1>2, <2>2
    <3> QED
      BY <3>1
  <2> QED
    BY <2>1, <2>2
<1> DEFINE yoe == 100 * c + 4 * k + j
<1>4. AtPlace(yoe, c, k, j) /\ doy \in 0..365
  BY <1>1, <1>2, <1>3 DEF AtPlace
<1>5. FitsYear(doy, c, k, j)
  BY <1>1, <1>2, <1>3 DEF FitsYear
<1> HIDE DEF yoe
<1>6. DayOfEra(yoe, doy) = 36524 * c + 1461 * k + 365 * j + doy
  BY <1>4, DaysBefore
<1>7. DayOfEra(yoe, doy) = doe
  BY <1>1, <1>2, <1>3, <1>6
<1> QED
  BY <1>4, <1>5, <1>7

\* Every day number is that of a date of the calendar, which by DatesReadBack is the one
\* it is shown as: no two days are shown alike, and none as a date that cannot be read.
THEOREM DaysAreDates ==
  ASSUME NEW day \in Int
  PROVE  \E y \in Int, m \in 1..12 : \E d \in 1..DaysInMonth(y, m) :
           DaysFromCivil(y, m, d) = day /\ CivilFromDays(day) = <<y, m, d>>
<1> DEFINE z == day + 719468
           era == z \div 146097
           doe == z - era * 146097
<1>1. /\ era \in Int /\ doe \in Int /\ 0 <= doe /\ doe < 146097
      /\ day = era * 146097 + doe - 719468
  OBVIOUS
<1> HIDE DEF z, era, doe
<1>2. PICK yoe, c, k, j, doy : /\ AtPlace(yoe, c, k, j) /\ FitsYear(doy, c, k, j)
                               /\ doy \in 0..365 /\ DayOfEra(yoe, doy) = doe
  BY <1>1, YearOfDay
<1> DEFINE year == 400 * era + yoe
           mp == (5 * doy + 2) \div 153
           m == IF mp < 10 THEN mp + 3 ELSE mp - 9
           y == IF m <= 2 THEN year + 1 ELSE year
           d == doy - (153 * mp + 2) \div 5 + 1
<1>3. /\ c \in 0..3 /\ k \in 0..24 /\ j \in 0..3 /\ yoe = 100 * c + 4 * k + j
      /\ yoe \in Int /\ 0 <= yoe /\ yoe < 400 /\ doy \in 0..365
  BY <1>2 DEF AtPlace
<1>4. year \in Int /\ Era(year, 400) = era /\ year - era * 400 = yoe
  <2>1. year \in Int /\ year \div 400 = era
    BY <1>1, <1>3
  <2>2. Era(year, 400) = year \div 400
    BY <2>1, Eras
  <2> QED
    BY <1>1, <1>3, <2>1, <2>2
<1>5. /\ mp \in 0..11 /\ m \in 1..12 /\ (m + 9) % 12 = mp
      /\ d \in 1..31 /\ (m \in {4, 6, 9, 11} => d <= 30) /\ (m = 2 => d <= 29)
      /\ (m = 2 /\ d = 29 => doy = 365)
      /\ DayOfYear(mp, d) = doy
  BY SMTT(60), <1>3 DEF DayOfYear
<1> HIDE DEF mp, d, year
<1>6. y \in Int /\ year = IF m <= 2 THEN y - 1 ELSE y
  BY <1>4, <1>5
<1>7. doy = 365 => IsLeap(year + 1)
  <2>1. ASSUME doy = 365
        PROVE  IsLeap(year + 1)
    <3>1. j = 3 /\ (k # 24 \/ c = 3) /\ year + 1 = 400 * era + 100 * c + 4 * k + 4
      BY <1>1, <1>2, <1>3, <2>1 DEF FitsYear, year
    <3>2. (year + 1) % 4 = 0
      BY <1>1, <1>3, <3>1
    <3>3. k # 24 => (year + 1) % 100 # 0
      BY <1>1, <1>3, <3>1
    <3>4. k = 24 => (year + 1) % 400 = 0
      BY <1>1, <1>3, <3>1
    <3> QED
      BY <3>1, <3>2, <3>3, <3>4 DEF IsLeap
  <2> QED
    BY <2>1
<1>8. d \in 1..DaysInMonth(y, m)
  BY <1>5, <1>6, <1>7 DEF DaysInMonth
<1> HIDE DEF m, y
<1>9. DaysFromCivil(y, m, d)
        = Era(year, 400) * 146097 + DayOfEra(year - Era(year, 400) * 400, DayOfYear(mp, d))
          - 719468
  BY <1>5, <1>6 DEF DaysFromCivil
<1>10. DaysFromCivil(y, m, d) = day
  BY <1>1, <1>2, <1>4, <1>5, <1>9
<1>11. CivilFromDays(day) = <<y, m, d>>
  BY <1>5, <1>6, <1>8, <1>10, DatesReadBack
<1> QED
  BY <1>5, <1>6, <1>8, <1>10, <1>11

\* A quotient and a remainder are what they are put together from.
LEMMA Division ==
  ASSUME NEW b \in Int, b > 0, NEW q \in Int, NEW r \in Int, 0 <= r, r < b,
         NEW a \in Int, a = q * b + r
  PROVE  a \div b = q /\ a % b = r
OBVIOUS

\* The date and the time of day of a timestamp are read back from its microseconds,
\* before 1970 too, however many of them make a second.
THEOREM TimestampsReadBack ==
  ASSUME NEW day \in Int, NEW h \in Nat, NEW mi \in Nat, NEW s \in Nat, IsTime(h, mi, s),
         NEW f \in 0..Micros - 1
  PROVE  LET micros == day * PerDay + MicrosOfDay(h, mi, s, f)
         IN  /\ DateOfMicros(micros) = CivilFromDays(day)
             /\ TimeOfMicros(micros) = <<h, mi, s, f>>
<1> DEFINE secs == (h * 60 + mi) * 60 + s
           tod == secs * Micros + f
           micros == day * PerDay + tod
<1>1. Micros \in Int /\ Micros > 0 /\ f \in Int /\ 0 <= f /\ f < Micros
  BY MicrosAssumption
<1>2. secs \in Int /\ 0 <= secs /\ secs <= 86399
  BY DEF IsTime
<1>3. secs \div 3600 = h /\ (secs \div 60) % 60 = mi /\ secs % 60 = s
  BY DEF IsTime
<1>4. MicrosOfDay(h, mi, s, f) = tod
  BY DEF MicrosOfDay
<1> HIDE DEF secs
<1>5. secs * Micros \in Int /\ 0 <= secs * Micros /\ secs * Micros <= 86399 * Micros
  BY <1>1, <1>2
<1>6. PerDay \in Int /\ PerDay > 0 /\ tod \in Int /\ 0 <= tod /\ tod < PerDay
  BY <1>1, <1>5 DEF PerDay
<1>7. tod \div Micros = secs /\ tod % Micros = f
  BY <1>1, <1>2, <1>5, Division
<1> HIDE DEF tod
<1>8. micros \in Int /\ micros = day * PerDay + tod
  BY <1>6
<1> HIDE DEF micros
<1>9. micros \div PerDay = day /\ micros % PerDay = tod
  BY <1>6, <1>8, Division
<1>10. DateOfMicros(micros) = CivilFromDays(day)
  BY <1>9 DEF DateOfMicros
<1>11. TimeOfMicros(micros) = <<h, mi, s, f>>
  BY <1>3, <1>7, <1>9 DEF TimeOfMicros
<1> QED
  BY <1>4, <1>10, <1>11 DEF micros

-----------------------------------------------------------------------------
\* Columns.

\* An option with a value is not the absent one, and its value is what was put in.
LEMMA Options ==
  ASSUME NEW x
  PROVE  Some(x) # None /\ Some(x)[1] = x
BY DEF Some, None

\* What a column has at a row is absent or some value.
LEMMA AtIsOption ==
  ASSUME NEW a, NEW i
  PROVE  At(a, i) = None \/ At(a, i) = Some(At(a, i)[1])
BY Options DEF At

\* A column made of the n rows of another at the indices.
IsTaken(column, a, indices, n) ==
  /\ column.type = a.type
  /\ DOMAIN column.values = 1..n
  /\ \A k \in 1..n : At(a, indices[k]) # None => column.values[k] = At(a, indices[k])[1]
  /\ \/ column.valid = None /\ \A k \in 1..n : At(a, indices[k]) # None
     \/ column.valid = Some([k \in 1..n |-> At(a, indices[k]) # None])

\* The values and the validity that `take` writes.
LEMMA TakeWrites ==
  ASSUME NEW a, NEW indices, NEW n \in Nat, indices \in [1..n -> Nat]
  PROVE  IsTaken(Take(a, indices), a, indices, n)
<1> DEFINE values == [k \in 1..n |-> IF At(a, indices[k]) = None THEN Placeholder(a.type)
                                     ELSE At(a, indices[k])[1]]
           valid == [k \in 1..n |-> At(a, indices[k]) # None]
           column == IF FALSE \in ToSet(valid)
                     THEN [NewArray(a.type, values) EXCEPT !.valid = Some(valid)]
                     ELSE NewArray(a.type, values)
<1>1. DOMAIN indices = 1..n
  OBVIOUS
<1>2. Take(a, indices) = column
  BY <1>1 DEF Take
<1>3. \A k \in 1..n : At(a, indices[k]) # None => values[k] = At(a, indices[k])[1]
  OBVIOUS
<1>4. CASE FALSE \in ToSet(valid)
  <2>1. column = [type |-> a.type, values |-> values, valid |-> Some(valid)]
    BY <1>4 DEF NewArray
  <2> HIDE DEF column
  <2> QED
    BY <1>2, <1>3, <2>1 DEF IsTaken
<1>5. CASE FALSE \notin ToSet(valid)
  <2>1. column = [type |-> a.type, values |-> values, valid |-> None]
    BY <1>5 DEF NewArray
  <2>2. \A k \in 1..n : At(a, indices[k]) # None
    BY <1>5 DEF ToSet
  <2> HIDE DEF column
  <2> QED
    BY <1>2, <1>3, <2>1, <2>2 DEF IsTaken
<1> QED
  BY <1>4, <1>5

\* `take`: the k-th row of the picked column is the row that was picked, its value if it has
\* one and NULL if it is NULL or beyond the column, with or without a validity on either side.
THEOREM TakeKeepsRows ==
  ASSUME NEW a, NEW indices, NEW n \in Nat, indices \in [1..n -> Nat], NEW k \in 1..n
  PROVE  At(Take(a, indices), k) = At(a, indices[k])
<1> DEFINE column == Take(a, indices)
           valid == [j \in 1..n |-> At(a, indices[j]) # None]
<1>1. /\ DOMAIN column.values = 1..n
      /\ At(a, indices[k]) # None => column.values[k] = At(a, indices[k])[1]
      /\ \/ column.valid = None /\ At(a, indices[k]) # None
         \/ column.valid = Some(valid)
  <2>1. IsTaken(column, a, indices, n)
    BY TakeWrites
  <2> HIDE DEF column
  <2> QED
    BY ONLY <2>1, k \in 1..n DEF IsTaken
<1> HIDE DEF column
<1>2. DOMAIN valid = 1..n /\ valid[k] = (At(a, indices[k]) # None)
  OBVIOUS
<1> HIDE DEF valid
<1>3. Some(valid)[1] = valid /\ Some(valid) # None
  BY Options
<1>4. At(column, k) = IF At(a, indices[k]) # None THEN Some(column.values[k]) ELSE None
  BY <1>1, <1>2, <1>3 DEF At
<1> QED
  BY <1>1, <1>4, AtIsOption DEF column
-----------------------------------------------------------------------------
\* What is appended to a column.

\* Columns of a type, with values in V.
Columns(type, V) ==
  [type : {type}, values : Seq(V), valid : {None} \cup {Some(v) : v \in Seq(BOOLEAN)}]

\* A column of n rows; a validity, where there is one, tells of every row.
IsColumn(a, type, n, V) ==
  /\ a \in Columns(type, V)
  /\ Len(a.values) = n
  /\ a.valid # None => Len(a.valid[1]) = n

OptionsOf(V) == {None} \cup {Some(v) : v \in V}

\* The parts of a column.
LEMMA ColumnFacts ==
  ASSUME NEW a, NEW type, NEW V, a \in Columns(type, V)
  PROVE  /\ a.type = type /\ a.values \in Seq(V) /\ Len(a.values) \in Nat
         /\ a.valid # None => a.valid = Some(a.valid[1]) /\ a.valid[1] \in Seq(BOOLEAN)
         /\ a = [type |-> type, values |-> a.values, valid |-> a.valid]
<1>1. /\ a.type = type /\ a.values \in Seq(V)
      /\ a.valid \in {None} \cup {Some(v) : v \in Seq(BOOLEAN)}
      /\ a = [type |-> type, values |-> a.values, valid |-> a.valid]
  BY DEF Columns
<1>2. ASSUME a.valid # None
      PROVE  a.valid = Some(a.valid[1]) /\ a.valid[1] \in Seq(BOOLEAN)
  <2>1. PICK v \in Seq(BOOLEAN) : a.valid = Some(v)
    BY <1>1, <1>2
  <2>2. a.valid[1] = v
    BY <2>1, Options
  <2> QED
    BY <2>1, <2>2
<1> QED
  BY <1>1, <1>2

\* What a column has at each row.
LEMMA AtIs ==
  ASSUME NEW a, NEW type, NEW V, NEW n \in Nat, IsColumn(a, type, n, V), NEW i
  PROVE  /\ At(a, i) = IF i \in 1..n /\ (a.valid = None \/ a.valid[1][i]) THEN Some(a.values[i])
                       ELSE None
         /\ i \in 1..n => a.values[i] \in V
         /\ At(a, i) \in OptionsOf(V)
<1>1. /\ a.values \in Seq(V) /\ Len(a.values) = n
      /\ a.valid # None => a.valid[1] \in Seq(BOOLEAN) /\ Len(a.valid[1]) = n
  BY ColumnFacts DEF IsColumn
<1>2. /\ DOMAIN a.values = 1..n
      /\ a.valid # None => DOMAIN a.valid[1] = 1..n
  BY <1>1
<1>3. At(a, i) = IF i \in 1..n /\ (a.valid = None \/ a.valid[1][i]) THEN Some(a.values[i]) ELSE None
  BY <1>2 DEF At
<1>4. i \in 1..n => a.values[i] \in V
  BY <1>1
<1> QED
  BY <1>3, <1>4 DEF OptionsOf

\* A validity of n valid rows.
LEMMA AllValidIs ==
  ASSUME NEW n \in Nat
  PROVE  /\ AllValid(n) \in Seq(BOOLEAN) /\ Len(AllValid(n)) = n
         /\ \A i \in 1..n : AllValid(n)[i] = TRUE
<1>1. AllValid(n) = [i \in 1..n |-> TRUE]
  BY DEF AllValid
<1>2. AllValid(n) \in [1..n -> BOOLEAN]
  BY <1>1
<1>3. AllValid(n) \in Seq(BOOLEAN)
  BY ONLY <1>2, n \in Nat
<1>4. Len(AllValid(n)) = n
  BY ONLY <1>2, n \in Nat
<1> QED
  BY <1>1, <1>3, <1>4

\* A validity of one row more.
LEMMA AppendBit ==
  ASSUME NEW bits \in Seq(BOOLEAN), NEW bit \in BOOLEAN, NEW n, Len(bits) = n
  PROVE  /\ Append(bits, bit) \in Seq(BOOLEAN) /\ Len(Append(bits, bit)) = n + 1
         /\ \A i \in 1..n : Append(bits, bit)[i] = bits[i]
         /\ Append(bits, bit)[n + 1] = bit
BY AppendProperties

\* Sequence u is s, of n elements, and then t, of m.
IsBehind(u, s, n, t, m, V) ==
  /\ u \in Seq(V) /\ Len(u) = n + m
  /\ \A i \in 1..n : u[i] = s[i]
  /\ \A k \in 1..m : u[n + k] = t[k]

LEMMA ConcatIsBehind ==
  ASSUME NEW V, NEW s \in Seq(V), NEW t \in Seq(V), NEW n \in Nat, NEW m \in Nat,
         Len(s) = n, Len(t) = m
  PROVE  IsBehind(s \o t, s, n, t, m, V)
<1> DEFINE u == s \o t
<1>1. /\ u \in Seq(V) /\ Len(u) = n + m
      /\ \A i \in 1..(n + m) : u[i] = IF i <= n THEN s[i] ELSE t[i - n]
  BY ConcatProperties
<1> HIDE DEF u
<1>2. \A i \in 1..n : u[i] = s[i]
  <2>1. \A i \in 1..n : i \in 1..(n + m) /\ i <= n
    OBVIOUS
  <2> QED
    BY ONLY <1>1, <2>1
<1>3. \A k \in 1..m : u[n + k] = t[k]
  <2>1. \A k \in 1..m : n + k \in 1..(n + m) /\ ~(n + k <= n) /\ (n + k) - n = k
    OBVIOUS
  <2> QED
    BY ONLY <1>1, <2>1
<1> QED
  BY ONLY <1>1, <1>2, <1>3 DEF u, IsBehind

\* A slice of a sequence.
IsSlice(u, s, start, len, V) ==
  /\ u \in Seq(V) /\ Len(u) = len
  /\ \A k \in 1..len : u[k] = s[start + k - 1]

LEMMA SubSeqIsSlice ==
  ASSUME NEW V, NEW s \in Seq(V), NEW start \in Nat \ {0}, NEW len \in Nat, start + len - 1 <= Len(s)
  PROVE  IsSlice(SubSeq(s, start, start + len - 1), s, start, len, V)
<1> DEFINE last == start + len - 1
           u == SubSeq(s, start, last)
<1>1. start \in Int /\ last \in Int /\ last - start + 1 = len /\ (start <= last <=> len # 0)
  OBVIOUS
<1>2. \A i \in start..last : s[i] \in V
  <2>1. \A i \in start..last : i \in 1..Len(s)
    OBVIOUS
  <2> HIDE DEF last
  <2> QED
    BY ONLY <2>1, s \in Seq(V)
<1> HIDE DEF last
<1>3. /\ u \in Seq(V) /\ Len(u) = IF start <= last THEN last - start + 1 ELSE 0
      /\ \A k \in 1..(last - start + 1) : u[k] = s[start + k - 1]
  BY ONLY <1>1, <1>2, SubSeqProperties
<1> HIDE DEF u
<1>4. IsSlice(u, s, start, len, V)
  BY ONLY <1>1, <1>3, len \in Nat DEF IsSlice
<1> QED
  BY ONLY <1>4 DEF u, last

\* A validity with valid rows behind it.
IsMoreValid(bits, old, n, len) ==
  /\ bits \in Seq(BOOLEAN) /\ Len(bits) = n + len
  /\ \A i \in 1..n : bits[i] = old[i]
  /\ \A k \in 1..len : bits[n + k] = TRUE

LEMMA MoreValid ==
  ASSUME NEW n \in Nat, NEW len \in Nat, NEW old \in Seq(BOOLEAN), Len(old) = n
  PROVE  IsMoreValid(old \o AllValid(len), old, n, len)
<1> DEFINE new == AllValid(len)
           bits == old \o new
<1>1. new \in Seq(BOOLEAN) /\ Len(new) = len /\ \A k \in 1..len : new[k] = TRUE
  BY AllValidIs
<1> HIDE DEF new
<1>2. IsBehind(bits, old, n, new, len, BOOLEAN)
  BY <1>1, ConcatIsBehind
<1> HIDE DEF bits
<1> QED
  BY ONLY <1>1, <1>2 DEF IsBehind, IsMoreValid, bits, new

\* Column b is a with one row more.
HasPushed(b, a, type, V, option) ==
  /\ b \in Columns(type, V)
  /\ b.values = Append(a.values, IF option = None THEN Placeholder(type) ELSE option[1])
  /\ option # None => option = Some(option[1]) /\ option[1] \in V
  /\ option = None =>
       b.valid = Some(Append(IF a.valid = None THEN AllValid(Len(a.values)) ELSE a.valid[1], FALSE))
  /\ option # None => b.valid = (IF a.valid = None THEN None ELSE Some(Append(a.valid[1], TRUE)))

\* What a push writes.
LEMMA PushType ==
  ASSUME NEW type, NEW V, Placeholder(type) \in V, NEW a \in Columns(type, V),
         NEW option \in OptionsOf(V)
  PROVE  HasPushed(Push(a, option), a, type, V, option)
<1>1. /\ a.type = type /\ a.values \in Seq(V) /\ Len(a.values) \in Nat
      /\ a.valid # None => a.valid[1] \in Seq(BOOLEAN)
      /\ a = [type |-> type, values |-> a.values, valid |-> a.valid]
  BY ColumnFacts
<1>2. CASE option = None
  <2> DEFINE bits == IF a.valid = None THEN AllValid(Len(a.values)) ELSE a.valid[1]
             values == Append(a.values, Placeholder(type))
             valid == Some(Append(bits, FALSE))
  <2>1. Push(a, option) = [type |-> type, values |-> values, valid |-> valid]
    BY <1>1, <1>2 DEF Push, PushNull
  <2>2. bits \in Seq(BOOLEAN)
    BY <1>1, AllValidIs
  <2> HIDE DEF bits
  <2>3. Append(bits, FALSE) \in Seq(BOOLEAN)
    BY <2>2
  <2>4. values \in Seq(V)
    BY <1>1
  <2>5. valid \in {None} \cup {Some(v) : v \in Seq(BOOLEAN)}
    BY <2>3
  <2>6. Push(a, option) \in Columns(type, V)
    <3> HIDE DEF values, valid
    <3> QED
      BY <2>1, <2>4, <2>5 DEF Columns
  <2> QED
    BY <1>2, <2>1, <2>6 DEF bits, HasPushed
<1>3. CASE option # None
  <2>1. PICK v \in V : option = Some(v)
    BY <1>3 DEF OptionsOf
  <2>2. option[1] = v
    BY <2>1, Options
  <2> DEFINE values == Append(a.values, v)
             valid == IF a.valid = None THEN None ELSE Some(Append(a.valid[1], TRUE))
  <2>3. Push(a, option) = [type |-> type, values |-> values, valid |-> valid]
    BY <1>1, <1>3, <2>2 DEF Push, PushValue
  <2>4. values \in Seq(V)
    BY <1>1
  <2>5. valid \in {None} \cup {Some(b) : b \in Seq(BOOLEAN)}
    <3>1. a.valid # None => Append(a.valid[1], TRUE) \in Seq(BOOLEAN)
      BY <1>1
    <3> QED
      BY <3>1
  <2>6. Push(a, option) \in Columns(type, V)
    <3> HIDE DEF values, valid
    <3> QED
      BY <2>3, <2>4, <2>5 DEF Columns
  <2>7. Push(a, option).values = values /\ Push(a, option).valid = valid
    <3> HIDE DEF values, valid
    <3> QED
      BY <2>3
  <2>8. option = Some(option[1]) /\ option[1] \in V /\ values = Append(a.values, option[1])
    BY <2>1, <2>2
  <2> QED
    BY ONLY <1>3, <2>6, <2>7, <2>8 DEF HasPushed
<1> QED
  BY <1>2, <1>3

\* Column b is a, of n rows, with the options behind it.
Appends(b, a, type, n, V, options) ==
  /\ IsColumn(b, type, n + Len(options), V)
  /\ \A i \in 1..n : At(b, i) = At(a, i)
  /\ \A j \in 1..Len(options) : At(b, n + j) = options[j]

\* A value or a NULL is pushed: the rows before stay as they are, also when the validity
\* begins with this NULL.
LEMMA PushKeepsRows ==
  ASSUME NEW type, NEW V, Placeholder(type) \in V, NEW n \in Nat, NEW a, IsColumn(a, type, n, V),
         NEW option \in OptionsOf(V)
  PROVE  /\ IsColumn(Push(a, option), type, n + 1, V)
         /\ \A i \in 1..n : At(Push(a, option), i) = At(a, i)
         /\ At(Push(a, option), n + 1) = option
<1> DEFINE b == Push(a, option)
<1>1. /\ b \in Columns(type, V)
      /\ b.values = Append(a.values, IF option = None THEN Placeholder(type) ELSE option[1])
      /\ option # None => option = Some(option[1]) /\ option[1] \in V
      /\ option = None => b.valid = Some(Append(IF a.valid = None THEN AllValid(Len(a.values))
                                                ELSE a.valid[1], FALSE))
      /\ option # None => b.valid = (IF a.valid = None THEN None ELSE Some(Append(a.valid[1], TRUE)))
  <2>1. a \in Columns(type, V)
    BY DEF IsColumn
  <2>2. HasPushed(b, a, type, V, option)
    BY ONLY <2>1, Placeholder(type) \in V, option \in OptionsOf(V), PushType
  <2> HIDE DEF b
  <2> QED
    BY ONLY <2>2 DEF HasPushed
<1>2. /\ a.values \in Seq(V) /\ Len(a.values) = n
      /\ a.valid # None => a.valid[1] \in Seq(BOOLEAN) /\ Len(a.valid[1]) = n
  BY ColumnFacts DEF IsColumn
<1> HIDE DEF b
<1>3. /\ Len(b.values) = n + 1
      /\ \A i \in 1..n : b.values[i] = a.values[i]
      /\ b.values[n + 1] = IF option = None THEN Placeholder(type) ELSE option[1]
  <2> DEFINE x == IF option = None THEN Placeholder(type) ELSE option[1]
  <2>1. x \in V
    BY <1>1
  <2> HIDE DEF x
  <2> QED
    BY <1>1, <1>2, <2>1 DEF x
<1>4. CASE option = None
  <2> DEFINE bits == IF a.valid = None THEN AllValid(Len(a.values)) ELSE a.valid[1]
  <2>1. /\ bits \in Seq(BOOLEAN) /\ Len(bits) = n
        /\ \A i \in 1..n : bits[i] <=> (a.valid = None \/ a.valid[1][i])
    BY <1>2, AllValidIs
  <2> HIDE DEF bits
  <2>2. b.valid = Some(Append(bits, FALSE))
    BY <1>1, <1>4 DEF bits
  <2>3. b.valid # None /\ b.valid[1] = Append(bits, FALSE)
    BY <2>2, Options
  <2>4. /\ Len(b.valid[1]) = n + 1
        /\ \A i \in 1..n : b.valid[1][i] = bits[i]
        /\ b.valid[1][n + 1] = FALSE
    <3>1. /\ Len(Append(bits, FALSE)) = n + 1
          /\ \A i \in 1..n : Append(bits, FALSE)[i] = bits[i]
          /\ Append(bits, FALSE)[n + 1] = FALSE
      BY ONLY <2>1, AppendBit
    <3> QED
      BY ONLY <2>3, <3>1
  <2>5. IsColumn(b, type, n + 1, V)
    BY <1>1, <1>3, <2>4 DEF IsColumn
  <2>6. ASSUME NEW i \in 1..n
        PROVE  At(b, i) = At(a, i)
    <3>1. At(a, i) = IF a.valid = None \/ a.valid[1][i] THEN Some(a.values[i]) ELSE None
      BY AtIs
    <3>2. n + 1 \in Nat /\ i \in 1..(n + 1)
      OBVIOUS
    <3>3. At(b, i) = IF b.valid = None \/ b.valid[1][i] THEN Some(b.values[i]) ELSE None
      BY <2>5, <3>2, AtIs
    <3> QED
      BY <1>3, <2>1, <2>3, <2>4, <3>1, <3>3
  <2>7. At(b, n + 1) = option
    <3>1. n + 1 \in Nat /\ n + 1 \in 1..(n + 1)
      OBVIOUS
    <3> QED
      BY <1>4, <2>3, <2>4, <2>5, <3>1, AtIs
  <2> QED
    BY <2>5, <2>6, <2>7 DEF b
<1>5. CASE option # None
  <2>1. b.valid = IF a.valid = None THEN None ELSE Some(Append(a.valid[1], TRUE))
    BY <1>1, <1>5
  <2>2. /\ b.valid = None <=> a.valid = None
        /\ a.valid # None => b.valid[1] = Append(a.valid[1], TRUE)
    BY <2>1, Options
  <2>3. ASSUME a.valid # None
        PROVE  /\ Len(b.valid[1]) = n + 1
               /\ \A i \in 1..n : b.valid[1][i] = a.valid[1][i]
               /\ b.valid[1][n + 1] = TRUE
    <3> DEFINE bits == a.valid[1]
    <3>1. bits \in Seq(BOOLEAN) /\ Len(bits) = n /\ b.valid[1] = Append(bits, TRUE)
      BY <1>2, <2>2, <2>3
    <3> HIDE DEF bits
    <3>2. /\ Len(Append(bits, TRUE)) = n + 1
          /\ \A i \in 1..n : Append(bits, TRUE)[i] = bits[i]
          /\ Append(bits, TRUE)[n + 1] = TRUE
      BY ONLY <3>1, AppendBit
    <3>3. /\ Len(b.valid[1]) = n + 1
          /\ \A i \in 1..n : b.valid[1][i] = bits[i]
          /\ b.valid[1][n + 1] = TRUE
      BY ONLY <3>1, <3>2
    <3> QED
      BY ONLY <3>3 DEF bits
  <2>4. IsColumn(b, type, n + 1, V)
    BY <1>1, <1>3, <2>2, <2>3 DEF IsColumn
  <2>5. ASSUME NEW i \in 1..n
        PROVE  At(b, i) = At(a, i)
    <3>1. At(a, i) = IF a.valid = None \/ a.valid[1][i] THEN Some(a.values[i]) ELSE None
      BY AtIs
    <3>2. n + 1 \in Nat /\ i \in 1..(n + 1)
      OBVIOUS
    <3>3. At(b, i) = IF b.valid = None \/ b.valid[1][i] THEN Some(b.values[i]) ELSE None
      BY <2>4, <3>2, AtIs
    <3>4. b.values[i] = a.values[i]
      BY ONLY <1>3, i \in 1..n
    <3>5. CASE a.valid = None
      BY ONLY <2>2, <3>1, <3>3, <3>4, <3>5
    <3>6. CASE a.valid # None
      <4>1. b.valid[1][i] = a.valid[1][i]
        BY ONLY <2>3, <3>6, i \in 1..n
      <4> QED
        BY ONLY <2>2, <3>1, <3>3, <3>4, <3>6, <4>1
    <3> QED
      BY ONLY <3>5, <3>6
  <2>6. At(b, n + 1) = option
    <3>1. n + 1 \in Nat /\ n + 1 \in 1..(n + 1)
      OBVIOUS
    <3>2. At(b, n + 1) = IF b.valid = None \/ b.valid[1][n + 1] THEN Some(b.values[n + 1]) ELSE None
      BY <2>4, <3>1, AtIs
    <3> QED
      BY <1>1, <1>3, <1>5, <2>2, <2>3, <3>2
  <2> QED
    BY <2>4, <2>5, <2>6 DEF b
<1> QED
  BY <1>4, <1>5

\* Options are pushed one after the other.
LEMMA PushAllKeepsRows ==
  ASSUME NEW type, NEW V, Placeholder(type) \in V, NEW n \in Nat, NEW a, IsColumn(a, type, n, V),
         NEW options \in Seq(OptionsOf(V))
  PROVE  Appends(PushAll(a, options), a, type, n, V, options)
<1> DEFINE m == Len(options)
           Body(f) == [k \in 0..m |-> IF k = 0 THEN a ELSE Push(f[k - 1], options[k])]
           pushed == CHOOSE f : f = Body(f)
           X == Columns(type, V)
           Step == [k \in 1..m |-> [c \in X |-> Push(c, options[k])]]
<1>1. m \in Nat /\ m \in 0..m /\ a \in X /\ \A k \in 1..m : options[k] \in OptionsOf(V)
  BY DEF IsColumn
<1>2. Step \in [1..m -> [X -> X]]
  <2>1. \A k \in 1..m : \A c \in X : Push(c, options[k]) \in X
    <3> HIDE DEF X, m
    <3> QED
      BY <1>1, PushType DEF HasPushed, X
  <2> HIDE DEF X, m
  <2> QED
    BY <2>1
<1>3. PICK c \in [0..m -> X] : c[0] = a /\ \A k \in 1..m : c[k] = Step[k][c[k - 1]]
  <2> HIDE DEF m, X, Step
  <2>1. \E c \in [0..m -> X] : Follows(c, m, a, Step)
    BY <1>1, <1>2, Recursion
  <2> QED
    BY <2>1 DEF Follows
<1>4. ASSUME NEW k \in 1..m
      PROVE  k - 1 \in 0..m /\ c[k] = Push(c[k - 1], options[k])
  <2>1. k - 1 \in 0..m
    BY <1>1
  <2>2. c[k - 1] \in X
    BY <2>1
  <2> HIDE DEF m, X
  <2> QED
    BY <1>3, <2>1, <2>2
<1>5. c = Body(c)
  <2> HIDE DEF m, X, Step
  <2>1. c = [k \in 0..m |-> c[k]]
    OBVIOUS
  <2>2. ASSUME NEW k \in 0..m
        PROVE  c[k] = IF k = 0 THEN a ELSE Push(c[k - 1], options[k])
    <3>1. k # 0 => k \in 1..m
      BY <1>1
    <3> QED
      BY <1>3, <1>4, <3>1
  <2> QED
    BY <2>1, <2>2
<1>6. pushed = Body(pushed)
  <2> HIDE DEF Body, m
  <2> QED
    BY <1>5
<1>7. PushAll(a, options) = pushed[m]
  BY DEF PushAll
<1>8. /\ pushed[0] = a
      /\ \A k \in 1..m : pushed[k] = Push(pushed[k - 1], options[k])
  <2> HIDE DEF pushed, m
  <2> QED
    BY <1>1, <1>6
<1> HIDE DEF pushed, Step
<1> DEFINE Good(k) == /\ IsColumn(pushed[k], type, n + k, V)
                      /\ \A i \in 1..n : At(pushed[k], i) = At(a, i)
                      /\ \A j \in 1..k : At(pushed[k], n + j) = options[j]
           T == {k \in 0..m : Good(k)}
<1>9. 0 \in T
  <2>1. n + 0 = n /\ 0 \in 0..m
    BY <1>1
  <2> HIDE DEF m
  <2>2. IsColumn(pushed[0], type, n + 0, V)
    BY <1>8, <2>1
  <2>3. Good(0)
    BY <1>8, <2>2
  <2> HIDE DEF Good
  <2> QED
    BY <2>1, <2>3
<1>10. Inductive(T, 0, m)
  <2> SUFFICES ASSUME NEW k \in 0..(m - 1), k \in T
               PROVE  k + 1 \in T
    BY DEF Inductive
  <2>1. k + 1 \in 1..m /\ k + 1 \in 0..m /\ (k + 1) - 1 = k /\ n + k \in Nat /\ (n + k) + 1 = n + (k + 1)
    BY <1>1
  <2>2. Good(k)
    OBVIOUS
  <2>3. pushed[k + 1] = Push(pushed[k], options[k + 1]) /\ options[k + 1] \in OptionsOf(V)
    <3> HIDE DEF m
    <3> QED
      BY <1>1, <1>8, <2>1
  <2>4. /\ IsColumn(pushed[k + 1], type, (n + k) + 1, V)
        /\ \A i \in 1..(n + k) : At(pushed[k + 1], i) = At(pushed[k], i)
        /\ At(pushed[k + 1], (n + k) + 1) = options[k + 1]
    BY <2>1, <2>2, <2>3, PushKeepsRows
  <2>5. \A i \in 1..n : At(pushed[k + 1], i) = At(a, i)
    <3>1. \A i \in 1..n : i \in 1..(n + k)
      BY <2>1
    <3> QED
      BY <2>2, <2>4, <3>1
  <2>6. ASSUME NEW j \in 1..(k + 1)
        PROVE  At(pushed[k + 1], n + j) = options[j]
    <3>1. CASE j = k + 1
      BY <2>1, <2>4, <3>1
    <3>2. CASE j # k + 1
      <4>1. j \in 1..k /\ n + j \in 1..(n + k)
        BY <1>1, <3>2
      <4> QED
        BY <2>2, <2>4, <4>1
    <3> QED
      BY <3>1, <3>2
  <2>7. Good(k + 1)
    BY <2>1, <2>4, <2>5, <2>6
  <2> HIDE DEF Good
  <2> QED
    BY <2>1, <2>7
<1>11. Good(m)
  <2>1. 0 \in Int /\ m \in Int /\ m \in 0..m
    BY <1>1
  <2>2. m \in T
    <3> HIDE DEF T, m
    <3> QED
      BY <1>9, <1>10, <2>1, IntervalInduction
  <2> HIDE DEF Good, m
  <2> QED
    BY <2>2
<1> QED
  BY <1>7, <1>11 DEF Appends

\* A column is empty to begin with.
LEMMA NewColumn ==
  ASSUME NEW type, NEW V
  PROVE  IsColumn(NewArray(type, <<>>), type, 0, V)
<1>1. NewArray(type, <<>>) = [type |-> type, values |-> <<>>, valid |-> None]
  BY DEF NewArray
<1>2. <<>> \in Seq(V) /\ Len(<<>>) = 0
  BY EmptySeq
<1> DEFINE a == NewArray(type, <<>>)
           empty == <<>>
<1> HIDE DEF a, empty
<1>3. a = [type |-> type, values |-> empty, valid |-> None] /\ empty \in Seq(V) /\ Len(empty) = 0
  BY ONLY <1>1, <1>2 DEF a, empty
<1>4. a \in Columns(type, V)
  BY ONLY <1>3 DEF Columns
<1>5. IsColumn(a, type, 0, V)
  BY ONLY <1>3, <1>4 DEF IsColumn
<1> QED
  BY ONLY <1>5 DEF a

\* `from_nulls`: row k is the k-th option, a value or a NULL.
THEOREM FromNullsKeepsOptions ==
  ASSUME NEW type, NEW V, Placeholder(type) \in V, NEW options \in Seq(OptionsOf(V))
  PROVE  /\ IsColumn(FromNulls(type, options), type, Len(options), V)
         /\ \A k \in 1..Len(options) : At(FromNulls(type, options), k) = options[k]
<1> DEFINE a == NewArray(type, <<>>)
           b == FromNulls(type, options)
<1>1. IsColumn(a, type, 0, V)
  BY NewColumn
<1>2. b = PushAll(a, options)
  BY DEF FromNulls
<1> HIDE DEF a, b
<1>3. Appends(b, a, type, 0, V, options)
  BY <1>1, <1>2, PushAllKeepsRows
<1>4. Len(options) \in Nat /\ \A k \in 1..Len(options) : 0 + k = k
  OBVIOUS
<1> QED
  BY <1>3, <1>4 DEF Appends, b

\* `append_range` appends the rows of the range, as a slice or one after the other.
LEMMA AppendRangeKeepsRows ==
  ASSUME NEW type, NEW V, Placeholder(type) \in V,
         NEW m \in Nat, NEW a, IsColumn(a, type, m, V),
         NEW n \in Nat, NEW out, IsColumn(out, type, n, V),
         NEW start \in Nat \ {0}, NEW len \in Nat, start + len - 1 <= m
  PROVE  Appends(AppendRange(a, start, len, out), out, type, n, V,
                 [k \in 1..len |-> At(a, start + k - 1)])
<1> DEFINE options == [k \in 1..len |-> At(a, start + k - 1)]
           b == AppendRange(a, start, len, out)
<1>1. options \in Seq(OptionsOf(V)) /\ Len(options) = len
  <2>1. \A k \in 1..len : At(a, start + k - 1) \in OptionsOf(V)
    BY AtIs
  <2> QED
    BY <2>1
<1>2. /\ a.values \in Seq(V) /\ Len(a.values) = m
      /\ out.type = type /\ out.values \in Seq(V) /\ Len(out.values) = n
      /\ out.valid # None => out.valid[1] \in Seq(BOOLEAN) /\ Len(out.valid[1]) = n
      /\ out = [type |-> type, values |-> out.values, valid |-> out.valid]
  BY ColumnFacts DEF IsColumn
<1>3. CASE a.valid # None
  <2>1. b = PushAll(out, options)
    BY <1>3 DEF AppendRange
  <2> HIDE DEF options, b
  <2>2. Appends(b, out, type, n, V, options)
    BY <1>1, <2>1, PushAllKeepsRows
  <2> QED
    BY <2>2 DEF options, b
<1>4. CASE a.valid = None
  <2> DEFINE slice == SubSeq(a.values, start, start + len - 1)
             values == out.values \o slice
             bits == out.valid[1] \o AllValid(len)
             valid == IF out.valid = None THEN None ELSE Some(bits)
  <2>1. b = [type |-> type, values |-> values, valid |-> valid]
    BY <1>2, <1>4 DEF AppendRange
  <2>2. /\ slice \in Seq(V) /\ Len(slice) = len
        /\ \A k \in 1..len : slice[k] = a.values[start + k - 1]
    <3>1. a.values \in Seq(V) /\ start + len - 1 <= Len(a.values)
      BY ONLY <1>2, start + len - 1 <= m
    <3>2. IsSlice(slice, a.values, start, len, V)
      BY ONLY <3>1, start \in Nat \ {0}, len \in Nat, SubSeqIsSlice
    <3> HIDE DEF slice
    <3> QED
      BY ONLY <3>2 DEF IsSlice
  <2> HIDE DEF slice
  <2>3. /\ values \in Seq(V) /\ Len(values) = n + len
        /\ \A i \in 1..n : values[i] = out.values[i]
        /\ \A k \in 1..len : values[n + k] = slice[k]
    <3>1. out.values \in Seq(V) /\ Len(out.values) = n
      BY ONLY <1>2
    <3>2. IsBehind(values, out.values, n, slice, len, V)
      BY ONLY <2>2, <3>1, n \in Nat, len \in Nat, ConcatIsBehind
    <3> HIDE DEF values
    <3> QED
      BY ONLY <3>2 DEF IsBehind
  <2>4. ASSUME out.valid # None
        PROVE  /\ bits \in Seq(BOOLEAN) /\ Len(bits) = n + len
               /\ \A i \in 1..n : bits[i] = out.valid[1][i]
               /\ \A k \in 1..len : bits[n + k] = TRUE
    <3>1. out.valid[1] \in Seq(BOOLEAN) /\ Len(out.valid[1]) = n
      BY ONLY <1>2, <2>4
    <3>2. IsMoreValid(bits, out.valid[1], n, len)
      BY ONLY <3>1, MoreValid, n \in Nat, len \in Nat
    <3> HIDE DEF bits
    <3> QED
      BY ONLY <3>2 DEF IsMoreValid
  <2> HIDE DEF values, bits
  <2>5. /\ valid \in {None} \cup {Some(v) : v \in Seq(BOOLEAN)}
        /\ valid = None <=> out.valid = None
        /\ valid # None => valid[1] = bits
    <3>1. CASE out.valid = None
      BY ONLY <3>1
    <3>2. CASE out.valid # None
      <4>1. valid = Some(bits)
        BY ONLY <3>2
      <4> HIDE DEF valid
      <4> QED
        BY ONLY <2>4, <3>2, <4>1, Options
    <3> QED
      BY ONLY <3>1, <3>2
  <2> HIDE DEF valid, b
  <2>6. b.type = type /\ b.values = values /\ b.valid = valid
    BY <2>1
  <2>7. IsColumn(b, type, n + len, V)
    <3>1. b \in Columns(type, V)
      BY <2>1, <2>3, <2>5 DEF Columns
    <3>2. Len(b.values) = n + len
      BY ONLY <2>3, <2>6
    <3>3. ASSUME b.valid # None PROVE Len(b.valid[1]) = n + len
      <4>1. out.valid # None /\ b.valid[1] = bits
        BY ONLY <2>5, <2>6, <3>3
      <4> QED
        BY ONLY <2>4, <4>1
    <3> QED
      BY ONLY <3>1, <3>2, <3>3 DEF IsColumn
  <2>8. ASSUME NEW i \in 1..n
        PROVE  At(b, i) = At(out, i)
    <3>1. n + len \in Nat /\ i \in 1..(n + len)
      OBVIOUS
    <3>2. At(b, i) = IF b.valid = None \/ b.valid[1][i] THEN Some(b.values[i]) ELSE None
      BY <2>7, <3>1, AtIs
    <3>3. At(out, i) = IF out.valid = None \/ out.valid[1][i] THEN Some(out.values[i]) ELSE None
      BY AtIs
    <3>4. b.values[i] = out.values[i]
      BY ONLY <2>3, <2>6, i \in 1..n
    <3>5. CASE out.valid = None
      BY ONLY <2>5, <2>6, <3>2, <3>3, <3>4, <3>5
    <3>6. CASE out.valid # None
      <4>1. b.valid[1][i] = out.valid[1][i] /\ b.valid # None
        BY ONLY <2>4, <2>5, <2>6, <3>6, i \in 1..n
      <4> QED
        BY ONLY <3>2, <3>3, <3>4, <3>6, <4>1
    <3> QED
      BY ONLY <3>5, <3>6
  <2>9. ASSUME NEW k \in 1..len
        PROVE  At(b, n + k) = options[k]
    <3>1. n + len \in Nat /\ n + k \in 1..(n + len) /\ start + k - 1 \in 1..m
      OBVIOUS
    <3>2. At(b, n + k) = IF b.valid = None \/ b.valid[1][n + k] THEN Some(b.values[n + k]) ELSE None
      BY <2>7, <3>1, AtIs
    <3>3. At(a, start + k - 1) = Some(a.values[start + k - 1])
      BY <1>4, <3>1, AtIs
    <3>4. options[k] = At(a, start + k - 1)
      OBVIOUS
    <3> HIDE DEF options
    <3> QED
      BY <2>2, <2>3, <2>4, <2>5, <2>6, <3>2, <3>3, <3>4
  <2> HIDE DEF options
  <2>10. Appends(b, out, type, n, V, options)
    BY <1>1, <2>7, <2>8, <2>9 DEF Appends
  <2> QED
    BY <2>10 DEF options, b
<1> QED
  BY <1>3, <1>4

-----------------------------------------------------------------------------
\* Rows at packed positions.

\* A column's parts in the batches, whose numbers of rows are rows; batches and rows fit in
\* a word with a number to spare.
AreParts(parts, type, V, batches, rows) ==
  /\ batches \in Nat /\ batches < RowBits
  /\ rows \in [1..batches -> Nat]
  /\ \A b \in 1..batches : rows[b] < RowBits /\ IsColumn(parts[b], type, rows[b], V)

\* A word is of a row, or of none.
IsWord(word, batches, rows) ==
  word = NoRow \/ \E b \in 1..batches : \E r \in 1..rows[b] : word = Pack(b - 1, r - 1)

AreWords(words, batches, rows) ==
  \A k \in 1..Len(words) : IsWord(words[k], batches, rows)

\* The value at a word.
Meant(parts, word) ==
  IF word = NoRow THEN None ELSE At(parts[word \div RowBits + 1], (word % RowBits) + 1)

\* A word holds the batch and the place in it, up to one place behind its rows, and is not that of no row.
LEMMA Unpacked ==
  ASSUME NEW b \in Nat, NEW i \in Nat, b + 1 < RowBits, i < RowBits
  PROVE  /\ Pack(b, i) \in Nat /\ Pack(b, i) # NoRow
         /\ Pack(b, i) \div RowBits = b /\ Pack(b, i) % RowBits = i
<1>1. RowBits \in Nat /\ RowBits > 0 /\ RowBits - 2 \in Nat /\ b <= RowBits - 2
  BY ArraysAssumption
<1>2. b * RowBits <= (RowBits - 2) * RowBits /\ b * RowBits \in Nat
  BY <1>1, Times
<1>3. (RowBits - 2) * RowBits = RowBits * RowBits - 2 * RowBits
  BY <1>1
<1>4. Pack(b, i) = b * RowBits + i
  BY DEF Pack
<1>5. Pack(b, i) # NoRow
  <2>1. RowBits * RowBits \in Nat
    BY <1>1
  <2> QED
    BY <1>1, <1>2, <1>3, <1>4, <2>1 DEF NoRow
<1>6. Pack(b, i) \div RowBits = b /\ Pack(b, i) % RowBits = i
  BY <1>1, <1>2, <1>4, Division
<1> QED
  BY <1>2, <1>4, <1>5, <1>6

\* Word k is followed by len - 1 words that follow one another, and then not by the next one.
IsRun(words, k, len) ==
  /\ len \in 1..(Len(words) - k + 1)
  /\ \A j \in 1..(len - 1) : words[k + j] = words[k] + j
  /\ k + len \in DOMAIN words => words[k + len] # words[k] + len

LEMMA RunExists ==
  ASSUME NEW words, NEW X, words \in Seq(X), NEW k \in 1..Len(words)
  PROVE  IsRun(words, k, RunFrom(words, k))
<1> DEFINE n == Len(words)
           D == {d \in 1..(n - k + 1) : k + d \in DOMAIN words => words[k + d] # words[k] + d}
<1>1. n \in Nat /\ k \in 1..n /\ DOMAIN words = 1..n
  OBVIOUS
<1> HIDE DEF n
<1>2. n - k + 1 \in D
  <2>1. n - k + 1 \in 1..(n - k + 1) /\ k + (n - k + 1) \notin 1..n
    BY <1>1
  <2> QED
    BY <1>1, <2>1
<1>3. D \in SUBSET Nat /\ D # {}
  <2>1. D \subseteq 1..(n - k + 1)
    OBVIOUS
  <2>2. 1..(n - k + 1) \subseteq Nat
    BY <1>1
  <2> HIDE DEF D
  <2> QED
    BY ONLY <1>2, <2>1, <2>2
<1>4. PICK len \in D : \A d \in D : len <= d
  <2> HIDE DEF D
  <2> QED
    BY <1>3, LeastNatural
<1>5. ASSUME NEW j \in 1..(len - 1)
      PROVE  words[k + j] = words[k] + j
  <2>1. j \in 1..(n - k + 1) /\ j < len /\ j \in Nat
    BY <1>1, <1>4
  <2>2. j \notin D
    <3> HIDE DEF D
    <3> QED
      BY <1>3, <1>4, <2>1
  <2> QED
    BY <2>1, <2>2
<1>6. IsRun(words, k, len)
  BY <1>4, <1>5 DEF IsRun, n
<1>7. RunFrom(words, k) = CHOOSE d \in 1..(n - k + 1) : IsRun(words, k, d)
  BY DEF RunFrom, IsRun, n
<1>8. len \in 1..(n - k + 1)
  BY <1>4
<1> HIDE DEF D
<1> QED
  BY <1>6, <1>7, <1>8

\* The run from word k on is of rows r, r + 1 and so on of batch b.
StaysInBatch(parts, words, k, b, r, rows) ==
  LET len == RunFrom(words, k)
  IN  /\ len \in 1..(Len(words) - k + 1)
      /\ r + len - 1 <= rows[b]
      /\ \A j \in 1..len : Meant(parts, words[k + j - 1]) = At(parts[b], r + j - 1)

\* A run of words does not leave its batch: the word behind the batch's last row is that of no row at all.
LEMMA RunStays ==
  ASSUME NEW parts, NEW type, NEW V, NEW batches, NEW rows, AreParts(parts, type, V, batches, rows),
         NEW words \in Seq(Nat), AreWords(words, batches, rows),
         NEW k \in 1..Len(words), NEW b \in 1..batches, NEW r \in 1..rows[b],
         words[k] = Pack(b - 1, r - 1)
  PROVE  StaysInBatch(parts, words, k, b, r, rows)
<1> DEFINE len == RunFrom(words, k)
           n == Len(words)
           T == {j \in 0..(len - 1) : r + j <= rows[b]}
<1>1. /\ n \in Nat /\ k \in 1..n /\ len \in 1..(n - k + 1)
      /\ \A j \in 1..(len - 1) : words[k + j] = words[k] + j
  BY RunExists DEF IsRun
<1>2. /\ rows[b] \in Nat /\ rows[b] < RowBits /\ RowBits \in Nat /\ b \in Nat /\ r \in Nat
      /\ batches \in Nat /\ b <= batches /\ batches < RowBits /\ 1 <= b /\ 1 <= r /\ r <= rows[b]
  BY ArraysAssumption DEF AreParts
<1>3. words[k] = (b - 1) * RowBits + (r - 1) /\ (b - 1) * RowBits \in Nat
  BY <1>2 DEF Pack
<1> HIDE DEF len, n
<1>4. ASSUME NEW j \in 0..(len - 1)
      PROVE  words[k + j] = Pack(b - 1, r - 1 + j)
  <2>1. words[k + j] = words[k] + j
    <3>1. CASE j = 0
      BY <1>1, <1>3, <3>1
    <3>2. CASE j # 0
      BY <1>1, <3>2
    <3> QED
      BY <3>1, <3>2
  <2> QED
    BY <1>2, <1>3, <2>1 DEF Pack
<1>5. 0 \in T
  BY <1>1, <1>2
<1>6. Inductive(T, 0, len - 1)
  <2> SUFFICES ASSUME NEW j \in 0..(len - 1 - 1), j \in T
               PROVE  j + 1 \in T
    BY DEF Inductive
  <2>1. j + 1 \in 0..(len - 1) /\ j \in Nat /\ r + j <= rows[b] /\ r - 1 + (j + 1) = r + j /\ r + j \in Nat
        /\ k + (j + 1) \in 1..n
    BY <1>1, <1>2
  <2>2. words[k + (j + 1)] = Pack(b - 1, r + j)
    <3> HIDE DEF T
    <3> QED
      BY <1>4, <2>1
  <2>3. /\ Pack(b - 1, r + j) # NoRow
        /\ Pack(b - 1, r + j) \div RowBits = b - 1 /\ Pack(b - 1, r + j) % RowBits = r + j
    <3>1. b - 1 \in Nat /\ (b - 1) + 1 < RowBits /\ r + j < RowBits
      BY <1>2, <2>1
    <3> QED
      BY <2>1, <3>1, Unpacked
  <2>4. PICK c \in 1..batches : \E i \in 1..rows[c] : words[k + (j + 1)] = Pack(c - 1, i - 1)
    BY <2>1, <2>2, <2>3 DEF AreWords, IsWord, n
  <2>5. PICK i \in 1..rows[c] : words[k + (j + 1)] = Pack(c - 1, i - 1)
    BY <2>4
  <2>6. rows[c] \in Nat /\ rows[c] < RowBits
    BY DEF AreParts
  <2>7. Pack(c - 1, i - 1) \div RowBits = c - 1 /\ Pack(c - 1, i - 1) % RowBits = i - 1
    <3>1. c - 1 \in Nat /\ i - 1 \in Nat /\ (c - 1) + 1 < RowBits /\ i - 1 < RowBits
      BY ONLY <1>2, <2>6, c \in 1..batches, i \in 1..rows[c]
    <3> QED
      BY <3>1, Unpacked
  <2>8. c - 1 = b - 1 /\ i - 1 = r + j
    BY <2>2, <2>3, <2>5, <2>7
  <2>9. c = b /\ i = r + j + 1
    BY <1>2, <2>1, <2>6, <2>8
  <2> QED
    BY <1>2, <2>1, <2>9
<1>7. \A j \in 0..(len - 1) : j \in T
  <2>1. 0 \in Int /\ len - 1 \in Int
    BY <1>1
  <2> HIDE DEF T
  <2> QED
    BY <1>5, <1>6, <2>1, IntervalInduction
<1>8. r + len - 1 <= rows[b]
  <2>1. len - 1 \in 0..(len - 1) /\ r + (len - 1) = r + len - 1
    BY <1>1, <1>2
  <2> QED
    BY <1>7, <2>1
<1>9. ASSUME NEW j \in 1..len
      PROVE  Meant(parts, words[k + j - 1]) = At(parts[b], r + j - 1)
  <2>1. /\ j - 1 \in 0..(len - 1) /\ k + (j - 1) = k + j - 1 /\ r - 1 + (j - 1) = r + j - 2
        /\ r + j - 2 \in Nat /\ r + j - 2 < RowBits /\ (r + j - 2) + 1 = r + j - 1
        /\ b - 1 \in Nat /\ (b - 1) + 1 < RowBits /\ (b - 1) + 1 = b
    BY <1>1, <1>2, <1>8
  <2>2. words[k + j - 1] = Pack(b - 1, r + j - 2)
    BY <1>4, <2>1
  <2>3. /\ Pack(b - 1, r + j - 2) # NoRow
        /\ Pack(b - 1, r + j - 2) \div RowBits = b - 1 /\ Pack(b - 1, r + j - 2) % RowBits = r + j - 2
    BY <2>1, Unpacked
  <2> QED
    BY <2>1, <2>2, <2>3 DEF Meant
<1> QED
  BY ONLY <1>1, <1>8, <1>9 DEF StaysInBatch, len, n

\* The output of the first words, and the word that is next.
Gathered(parts, type, V, words) ==
  {s \in [next : 1..(Len(words) + 1), out : Columns(type, V)] :
     /\ IsColumn(s.out, type, s.next - 1, V)
     /\ \A i \in 1..(s.next - 1) : At(s.out, i) = Meant(parts, words[i])}

\* A turn of the loop of `gather_positions`.
GatherTurn(parts, words, s) ==
  IF s.next > Len(words) THEN s
  ELSE IF words[s.next] = NoRow THEN [next |-> s.next + 1, out |-> PushNull(s.out)]
  ELSE [next |-> s.next + RunFrom(words, s.next),
        out |-> AppendRange(parts[words[s.next] \div RowBits + 1],
                            (words[s.next] % RowBits) + 1, RunFrom(words, s.next), s.out)]

\* A turn takes one word at least, and writes the values of the words it takes.
LEMMA TurnGathers ==
  ASSUME NEW parts, NEW type, NEW V, Placeholder(type) \in V,
         NEW batches, NEW rows, AreParts(parts, type, V, batches, rows),
         NEW words \in Seq(Nat), AreWords(words, batches, rows),
         NEW s \in Gathered(parts, type, V, words)
  PROVE  /\ GatherTurn(parts, words, s) \in Gathered(parts, type, V, words)
         /\ s.next <= Len(words) => GatherTurn(parts, words, s).next > s.next
<1> DEFINE n == Len(words)
           t == GatherTurn(parts, words, s)
           p == s.next - 1
<1>1. /\ n \in Nat /\ s.next \in 1..(n + 1) /\ p \in 0..n /\ p \in Nat /\ p + 1 = s.next
      /\ IsColumn(s.out, type, p, V)
      /\ \A i \in 1..p : At(s.out, i) = Meant(parts, words[i])
      /\ s.out \in Columns(type, V)
  BY DEF Gathered
<1> HIDE DEF n, t, p
<1>2. CASE s.next > n
  <2>1. t = s
    BY ONLY <1>2 DEF GatherTurn, t, n
  <2>2. ~(s.next <= n)
    BY ONLY <1>1, <1>2
  <2> QED
    BY ONLY <2>1, <2>2, s \in Gathered(parts, type, V, words) DEF t, n
<1>3. CASE s.next <= n /\ words[s.next] = NoRow
  <2>1. t = [next |-> s.next + 1, out |-> Push(s.out, None)]
    BY <1>1, <1>3 DEF GatherTurn, t, n, Push
  <2>2. /\ IsColumn(t.out, type, p + 1, V)
        /\ \A i \in 1..p : At(t.out, i) = At(s.out, i)
        /\ At(t.out, p + 1) = None
    BY <1>1, <2>1, PushKeepsRows DEF OptionsOf
  <2>3. /\ t.next = s.next + 1 /\ t.next - 1 = p + 1 /\ t.next \in 1..(n + 1) /\ t.next > s.next
    BY <1>1, <1>3, <2>1
  <2>4. ASSUME NEW i \in 1..(t.next - 1)
        PROVE  At(t.out, i) = Meant(parts, words[i])
    <3>1. CASE i = p + 1
      BY <1>1, <1>3, <2>2, <3>1 DEF Meant
    <3>2. CASE i # p + 1
      <4>1. i \in 1..p
        BY <1>1, <2>3, <3>2
      <4> QED
        BY <1>1, <2>2, <4>1
    <3> QED
      BY <3>1, <3>2
  <2>5. t \in [next : 1..(n + 1), out : Columns(type, V)]
    BY <2>1, <2>2, <2>3 DEF IsColumn
  <2> QED
    BY <2>2, <2>3, <2>4, <2>5 DEF Gathered, t, n
<1>4. CASE s.next <= n /\ words[s.next] # NoRow
  <2> DEFINE k == s.next
             len == RunFrom(words, k)
  <2>1. k \in 1..n /\ IsWord(words[k], batches, rows)
    BY <1>1, <1>4 DEF AreWords, n
  <2>2. PICK b \in 1..batches : \E r \in 1..rows[b] : words[k] = Pack(b - 1, r - 1)
    BY <1>4, <2>1 DEF IsWord
  <2>3. PICK r \in 1..rows[b] : words[k] = Pack(b - 1, r - 1)
    BY <2>2
  <2>4. /\ rows[b] \in Nat /\ rows[b] < RowBits /\ IsColumn(parts[b], type, rows[b], V)
        /\ batches \in Nat /\ batches < RowBits /\ RowBits \in Nat
    BY ArraysAssumption DEF AreParts
  <2>5. words[k] \div RowBits + 1 = b /\ (words[k] % RowBits) + 1 = r
    <3>1. /\ b - 1 \in Nat /\ r - 1 \in Nat /\ (b - 1) + 1 < RowBits /\ r - 1 < RowBits
          /\ (b - 1) + 1 = b /\ (r - 1) + 1 = r
      BY <2>4
    <3>2. words[k] \div RowBits = b - 1 /\ words[k] % RowBits = r - 1
      BY <2>3, <3>1, Unpacked
    <3> QED
      BY <3>1, <3>2
  <2>6. /\ len \in 1..(n - k + 1) /\ r + len - 1 <= rows[b]
        /\ \A j \in 1..len : Meant(parts, words[k + j - 1]) = At(parts[b], r + j - 1)
    <3>1. k \in 1..Len(words)
      BY <2>1 DEF n
    <3>2. StaysInBatch(parts, words, k, b, r, rows)
      BY ONLY <2>3, <3>1, AreParts(parts, type, V, batches, rows), words \in Seq(Nat),
              AreWords(words, batches, rows), b \in 1..batches, r \in 1..rows[b], RunStays
    <3> QED
      BY ONLY <3>2 DEF StaysInBatch, n
  <2> HIDE DEF len
  <2>7. t = [next |-> k + len, out |-> AppendRange(parts[b], r, len, s.out)]
    BY <1>1, <1>4, <2>5 DEF GatherTurn, t, n, len
  <2> DEFINE options == [j \in 1..len |-> At(parts[b], r + j - 1)]
  <2>8. Appends(t.out, s.out, type, p, V, options)
    <3>1. r \in Nat \ {0} /\ len \in Nat
      BY <1>1, <2>1, <2>4, <2>6
    <3>2. Appends(AppendRange(parts[b], r, len, s.out), s.out, type, p, V, options)
      <4>1. /\ rows[b] \in Nat /\ p \in Nat /\ r + len - 1 <= rows[b]
            /\ IsColumn(parts[b], type, rows[b], V) /\ IsColumn(s.out, type, p, V)
        BY ONLY <1>1, <2>4, <2>6
      <4> QED
        BY ONLY <3>1, <4>1, Placeholder(type) \in V, AppendRangeKeepsRows
    <3> HIDE DEF options
    <3> QED
      BY <2>7, <3>2
  <2>9. Len(options) = len /\ len \in Nat /\ \A j \in 1..len : options[j] = At(parts[b], r + j - 1)
    BY <1>1, <2>1, <2>6
  <2> HIDE DEF options
  <2>10. /\ t.next = k + len /\ t.next - 1 = p + len /\ t.next \in 1..(n + 1) /\ t.next > k
    <3>1. t.next = k + len
      BY ONLY <2>7
    <3>2. n \in Nat /\ p \in Nat /\ k = p + 1 /\ len \in 1..(n - k + 1)
      BY ONLY <1>1, <2>6
    <3> QED
      BY ONLY <3>1, <3>2
  <2>11. /\ IsColumn(t.out, type, p + len, V)
         /\ \A i \in 1..p : At(t.out, i) = At(s.out, i)
         /\ \A j \in 1..len : At(t.out, p + j) = options[j]
    BY <2>8, <2>9 DEF Appends
  <2>12. ASSUME NEW i \in 1..(t.next - 1)
         PROVE  At(t.out, i) = Meant(parts, words[i])
    <3>1. CASE i <= p
      <4>1. i \in 1..p
        BY <1>1, <2>10, <3>1
      <4> QED
        BY <1>1, <2>11, <4>1
    <3>2. CASE i > p
      <4>1. i - p \in 1..len /\ p + (i - p) = i /\ k + (i - p) - 1 = i
        BY <1>1, <2>9, <2>10, <3>2
      <4>2. At(t.out, i) = options[i - p] /\ options[i - p] = At(parts[b], r + (i - p) - 1)
        BY <2>9, <2>11, <4>1
      <4>3. Meant(parts, words[k + (i - p) - 1]) = At(parts[b], r + (i - p) - 1)
        BY <2>6, <4>1
      <4> QED
        BY <4>1, <4>2, <4>3
    <3> QED
      BY <1>1, <2>9, <2>10, <3>1, <3>2
  <2>13. t \in [next : 1..(n + 1), out : Columns(type, V)]
    BY <2>7, <2>10, <2>11 DEF IsColumn
  <2> QED
    BY <2>10, <2>11, <2>12, <2>13 DEF Gathered, t, n
<1> QED
  BY <1>1, <1>2, <1>3, <1>4

\* `gather_positions`, with its runs copied as slices: row k is the row at word k, its value if it has one and
\* NULL if it is NULL or there is no row.
THEOREM GatherKeepsRows ==
  ASSUME NEW parts, NEW type, NEW V, Placeholder(type) \in V,
         NEW batches, NEW rows, AreParts(parts, type, V, batches, rows),
         NEW words \in Seq(Nat), AreWords(words, batches, rows)
  PROVE  /\ IsColumn(GatherPositions(type, parts, words), type, Len(words), V)
         /\ \A k \in 1..Len(words) :
              At(GatherPositions(type, parts, words), k) = Meant(parts, words[k])
<1> DEFINE n == Len(words)
           first == [next |-> 1, out |-> NewArray(type, <<>>)]
           Turn(s) ==
             IF s.next > Len(words) THEN s
             ELSE IF words[s.next] = NoRow THEN [next |-> s.next + 1, out |-> PushNull(s.out)]
             ELSE LET len == RunFrom(words, s.next)
                  IN  [next |-> s.next + len,
                       out |-> AppendRange(parts[words[s.next] \div RowBits + 1],
                                           (words[s.next] % RowBits) + 1, len, s.out)]
           Body(f) == [k \in 0..n |-> IF k = 0 THEN first ELSE Turn(f[k - 1])]
           turns == CHOOSE f : f = Body(f)
           X == Gathered(parts, type, V, words)
           Step == [k \in 1..n |-> [s \in X |-> GatherTurn(parts, words, s)]]
<1>1. n \in Nat /\ n \in 0..n
  OBVIOUS
<1>2. first \in X /\ first.next = 1
  <2>1. IsColumn(first.out, type, 0, V) /\ first.out \in Columns(type, V)
    BY NewColumn DEF IsColumn
  <2>2. first.next = 1 /\ 1 - 1 = 0 /\ 1 \in 1..(n + 1)
    BY <1>1
  <2>3. first = [next |-> first.next, out |-> first.out]
    OBVIOUS
  <2> HIDE DEF first
  <2> QED
    BY <2>1, <2>2, <2>3 DEF Gathered
<1>3. \A s : Turn(s) = GatherTurn(parts, words, s)
  BY DEF GatherTurn
<1> HIDE DEF Turn, first
<1>4. ASSUME NEW s \in X
      PROVE  /\ GatherTurn(parts, words, s) \in X
             /\ s.next <= n => GatherTurn(parts, words, s).next > s.next
  BY TurnGathers
<1>5. Step \in [1..n -> [X -> X]]
  <2> HIDE DEF X, n
  <2> QED
    BY <1>4
<1>6. PICK c \in [0..n -> X] : c[0] = first /\ \A k \in 1..n : c[k] = Step[k][c[k - 1]]
  <2> HIDE DEF n, X, Step
  <2>1. \E c \in [0..n -> X] : Follows(c, n, first, Step)
    BY <1>1, <1>2, <1>5, Recursion
  <2> QED
    BY <2>1 DEF Follows
<1>7. ASSUME NEW k \in 1..n
      PROVE  k - 1 \in 0..n /\ c[k] = Turn(c[k - 1])
  <2>1. k - 1 \in 0..n
    BY <1>1
  <2>2. c[k - 1] \in X
    BY <2>1
  <2> HIDE DEF n, X
  <2>3. c[k] = GatherTurn(parts, words, c[k - 1])
    BY <1>6, <2>2
  <2> QED
    BY <1>3, <2>1, <2>3
<1> HIDE DEF Step
<1>8. c = Body(c)
  <2> HIDE DEF n, X
  <2>1. c = [k \in 0..n |-> c[k]]
    OBVIOUS
  <2>2. ASSUME NEW k \in 0..n
        PROVE  c[k] = IF k = 0 THEN first ELSE Turn(c[k - 1])
    <3>1. k # 0 => k \in 1..n
      BY <1>1
    <3> QED
      BY <1>6, <1>7, <3>1
  <2> QED
    BY <2>1, <2>2
<1>9. turns = Body(turns)
  <2> HIDE DEF Body, n
  <2> QED
    BY <1>8
<1>10. GatherPositions(type, parts, words) = turns[n].out
  BY DEF GatherPositions, Turn, first
<1>11. /\ turns[0] = first
       /\ \A k \in 1..n : turns[k] = GatherTurn(parts, words, turns[k - 1])
  <2> HIDE DEF turns, n
  <2>1. turns[0] = first /\ \A k \in 1..n : turns[k] = Turn(turns[k - 1])
    BY <1>1, <1>9
  <2> QED
    BY <1>3, <2>1
<1> HIDE DEF turns
<1> DEFINE T == {k \in 0..n : turns[k] \in X /\ (turns[k].next > k \/ turns[k].next > n)}
<1>12. 0 \in T
  BY <1>1, <1>2, <1>11
<1>13. Inductive(T, 0, n)
  <2> SUFFICES ASSUME NEW k \in 0..(n - 1), k \in T
               PROVE  k + 1 \in T
    BY DEF Inductive
  <2>1. k + 1 \in 1..n /\ k + 1 \in 0..n /\ (k + 1) - 1 = k
    BY <1>1
  <2>2. turns[k] \in X /\ (turns[k].next > k \/ turns[k].next > n)
    OBVIOUS
  <2>3. turns[k + 1] = GatherTurn(parts, words, turns[k])
    <3> HIDE DEF n
    <3> QED
      BY <1>11, <2>1
  <2>4. turns[k].next \in 1..(n + 1) /\ turns[k + 1].next \in 1..(n + 1)
    BY <1>4, <2>2, <2>3 DEF Gathered
  <2>5. turns[k + 1] \in X
    BY <1>4, <2>2, <2>3
  <2>6. turns[k + 1].next > k + 1 \/ turns[k + 1].next > n
    <3>1. CASE turns[k].next <= n
      <4>1. turns[k + 1].next > turns[k].next
        <5> HIDE DEF n, X
        <5> QED
          BY <1>4, <2>2, <2>3, <3>1
      <4> HIDE DEF X
      <4> QED
        BY <1>1, <2>1, <2>2, <2>4, <3>1, <4>1
    <3>2. CASE turns[k].next > n
      <4>1. turns[k + 1] = turns[k]
        BY <2>3, <3>2 DEF GatherTurn
      <4> QED
        BY <3>2, <4>1
    <3> QED
      BY <1>1, <2>4, <3>1, <3>2
  <2> HIDE DEF X
  <2> QED
    BY <2>1, <2>5, <2>6
<1>14. n \in T
  <2>1. 0 \in Int /\ n \in Int
    BY <1>1
  <2> HIDE DEF T, n
  <2> QED
    BY <1>1, <1>12, <1>13, <2>1, IntervalInduction
<1>15. turns[n].next = n + 1 /\ turns[n] \in X
  <2>1. turns[n] \in X /\ (turns[n].next > n \/ turns[n].next > n)
    <3> HIDE DEF X, n
    <3> QED
      BY <1>14
  <2>2. turns[n].next \in 1..(n + 1)
    BY <2>1 DEF Gathered
  <2> HIDE DEF X
  <2> QED
    BY <1>1, <2>1, <2>2
<1>16. (n + 1) - 1 = n
  BY <1>1
<1> QED
  BY <1>10, <1>15, <1>16 DEF Gathered

-----------------------------------------------------------------------------
\* Tables.

ValuesOf(type, V) == {v \in V : v.t = type}

\* What holds the place of a NULL is among the values.
HasPlaceholders(V) == \A type \in Types : Placeholder(type) \in V

IsField(f) ==
  f = Field(f.name, f.type, f.nullable) /\ f.type \in Types /\ f.nullable \in BOOLEAN

\* The columns of a batch are those of the fields, and a NULL is in a nullable one.
IsBatch(arrays, fields, V) ==
  /\ DOMAIN arrays = DOMAIN fields
  /\ RowCount(arrays) \in Nat
  /\ \A c \in DOMAIN fields :
       /\ IsColumn(arrays[c], fields[c].type, RowCount(arrays), ValuesOf(fields[c].type, V))
       /\ \A r \in 1..RowCount(arrays) : At(arrays[c], r) = None => fields[c].nullable

IsTable(t, V) ==
  /\ t = [fields |-> t.fields, batches |-> t.batches]
  /\ \E X : t.fields \in Seq(X)
  /\ \E X : t.batches \in Seq(X)
  /\ \A c \in DOMAIN t.fields : IsField(t.fields[c])
  /\ \A b \in DOMAIN t.batches : IsBatch(t.batches[b], t.fields, V)

\* A placeholder is of its type.
LEMMA PlaceholderType ==
  ASSUME NEW V, HasPlaceholders(V), NEW type \in Types
  PROVE  Placeholder(type) \in ValuesOf(type, V)
<1>1. Placeholder(type).t = type
  BY DEF Placeholder, Str, Value
<1> QED
  BY <1>1 DEF HasPlaceholders, ValuesOf

\* A table stays one when more values are allowed.
LEMMA MoreValues ==
  ASSUME NEW V, NEW W, V \subseteq W, NEW t, IsTable(t, V)
  PROVE  IsTable(t, W)
<1>1. ASSUME NEW a, NEW type, NEW n, IsColumn(a, type, n, ValuesOf(type, V))
      PROVE  IsColumn(a, type, n, ValuesOf(type, W))
  <2>1. a \in Columns(type, ValuesOf(type, V))
    BY <1>1 DEF IsColumn
  <2>2. a.values \in Seq(ValuesOf(type, W))
    <3>1. a.values \in Seq(ValuesOf(type, V))
      BY <2>1 DEF Columns
    <3>2. ValuesOf(type, V) \subseteq ValuesOf(type, W)
      BY DEF ValuesOf
    <3> QED
      BY <3>1, <3>2
  <2>3. a \in Columns(type, ValuesOf(type, W))
    BY <2>1, <2>2 DEF Columns
  <2> QED
    BY <1>1, <2>3 DEF IsColumn
<1>2. ASSUME NEW b \in DOMAIN t.batches
      PROVE  IsBatch(t.batches[b], t.fields, W)
  <2>1. IsBatch(t.batches[b], t.fields, V)
    BY DEF IsTable
  <2> QED
    BY <1>1, <2>1 DEF IsBatch
<1> QED
  BY <1>2 DEF IsTable

\* The absent table has no columns.
LEMMA NoTableIs == ASSUME NEW V PROVE IsTable(NoTable, V)
<1>1. NoTable = [fields |-> <<>>, batches |-> <<>>]
  BY DEF NoTable
<1>2. <<>> \in Seq({}) /\ DOMAIN <<>> = {}
  OBVIOUS
<1> QED
  BY <1>1, <1>2 DEF IsTable

\* How many rows columns of one length are.
LEMMA RowsOfColumns ==
  ASSUME NEW m \in Nat, NEW n \in Nat, NEW arrays, NEW X, arrays \in [1..m -> X],
         \A c \in 1..m : Len(arrays[c].values) = n
  PROVE  RowCount(arrays) = IF m = 0 THEN 0 ELSE n
<1>1. CASE m = 0
  <2>1. arrays = <<>>
    BY <1>1
  <2> QED
    BY <1>1, <2>1 DEF RowCount
<1>2. CASE m # 0
  <2>1. 1 \in 1..m
    BY <1>2
  <2>2. arrays # <<>>
    BY <2>1
  <2> QED
    BY <1>2, <2>1, <2>2 DEF RowCount
<1> QED
  BY <1>1, <1>2

\* Columns of n rows for the fields.
ColumnsFit(fields, arrays, m, n, V) ==
  /\ \A c \in 1..m : IsField(fields[c])
  /\ \A c \in 1..m :
       /\ IsColumn(arrays[c], fields[c].type, n, ValuesOf(fields[c].type, V))
       /\ \A r \in 1..n : At(arrays[c], r) = None => fields[c].nullable

\* A table with one batch, column by column.
LEMMA OneBatch ==
  ASSUME NEW V, NEW m \in Nat, NEW n \in Nat, NEW fields, NEW X, fields \in [1..m -> X],
         NEW arrays, NEW Y, arrays \in [1..m -> Y], ColumnsFit(fields, arrays, m, n, V)
  PROVE  IsTable(Table(fields, arrays), V)
<1>1. /\ \A c \in 1..m : IsField(fields[c])
      /\ \A c \in 1..m :
           /\ IsColumn(arrays[c], fields[c].type, n, ValuesOf(fields[c].type, V))
           /\ \A r \in 1..n : At(arrays[c], r) = None => fields[c].nullable
  BY DEF ColumnsFit
<1> DEFINE t == Table(fields, arrays)
<1>2. t = [fields |-> fields, batches |-> <<arrays>>]
  BY DEF Table
<1>3. \A c \in 1..m : Len(arrays[c].values) = n
  BY <1>1 DEF IsColumn
<1>4. RowCount(arrays) = IF m = 0 THEN 0 ELSE n
  BY <1>3, RowsOfColumns
<1>5. IsBatch(arrays, fields, V)
  <2>1. DOMAIN arrays = 1..m /\ DOMAIN fields = 1..m
    OBVIOUS
  <2>2. \A c \in 1..m : RowCount(arrays) = n
    BY <1>4
  <2> QED
    BY <1>1, <1>4, <2>1, <2>2 DEF IsBatch
<1>6. fields \in Seq(X) /\ <<arrays>> \in Seq({arrays})
  OBVIOUS
<1>7. \A b \in DOMAIN <<arrays>> : <<arrays>>[b] = arrays
  OBVIOUS
<1> HIDE DEF t
<1>8. t.fields = fields /\ t.batches = <<arrays>> /\ DOMAIN fields = 1..m
  BY <1>2
<1> QED
  BY <1>1, <1>2, <1>5, <1>6, <1>7, <1>8 DEF IsTable, t

\* An option of a type.
IsOption(option, type) == option = None \/ (option = Some(option[1]) /\ option[1].t = type)

\* A table's columns are made of options, which are of the types of the fields and NULL only
\* where that is allowed.
MadeOf(fields, arrays, options, m, n) ==
  /\ \E X : fields \in [1..m -> X]
  /\ \E X : arrays \in [1..m -> X]
  /\ \E X : options \in [1..m -> [1..n -> X]]
  /\ \A c \in 1..m : IsField(fields[c]) /\ arrays[c] = FromNulls(fields[c].type, options[c])
  /\ \A c \in 1..m : \A r \in 1..n :
       IsOption(options[c][r], fields[c].type) /\ (options[c][r] = None => fields[c].nullable)

\* There are values of which it is a table.
BecomesTable(t, V) == \E W : V \subseteq W /\ HasPlaceholders(W) /\ IsTable(t, W)

LEMMA FromOptions ==
  ASSUME NEW V, HasPlaceholders(V), NEW m \in Nat, NEW n \in Nat, NEW fields, NEW options, NEW arrays,
         MadeOf(fields, arrays, options, m, n)
  PROVE  BecomesTable(Table(fields, arrays), V)
<1>1. /\ \E X : fields \in [1..m -> X]
      /\ \E X : arrays \in [1..m -> X]
      /\ \E X : options \in [1..m -> [1..n -> X]]
      /\ \A c \in 1..m : IsField(fields[c]) /\ arrays[c] = FromNulls(fields[c].type, options[c])
      /\ \A c \in 1..m : \A r \in 1..n :
           IsOption(options[c][r], fields[c].type) /\ (options[c][r] = None => fields[c].nullable)
  BY DEF MadeOf
<1>2. PICK X : fields \in [1..m -> X]
  BY <1>1
<1>3. PICK Z : arrays \in [1..m -> Z]
  BY <1>1
<1>4. PICK Y : options \in [1..m -> [1..n -> Y]]
  BY <1>1
<1> DEFINE W == V \cup {options[c][r][1] : c \in 1..m, r \in 1..n}
<1>5. V \subseteq W /\ HasPlaceholders(W)
  BY DEF HasPlaceholders
<1>6. ASSUME NEW c \in 1..m
      PROVE  /\ IsColumn(arrays[c], fields[c].type, n, ValuesOf(fields[c].type, W))
             /\ \A r \in 1..n : At(arrays[c], r) = None => fields[c].nullable
  <2> DEFINE type == fields[c].type
  <2>1. type \in Types
    BY <1>1 DEF IsField
  <2>2. Placeholder(type) \in ValuesOf(type, W)
    BY <1>5, <2>1, PlaceholderType
  <2>3. ASSUME NEW r \in 1..n
        PROVE  options[c][r] \in OptionsOf(ValuesOf(type, W))
    <3>1. options[c][r][1] \in W
      OBVIOUS
    <3>2. IsOption(options[c][r], type)
      BY <1>1
    <3> HIDE DEF W, type
    <3> QED
      BY <3>1, <3>2 DEF IsOption, OptionsOf, ValuesOf
  <2>4. options[c] \in Seq(OptionsOf(ValuesOf(type, W))) /\ Len(options[c]) = n
    <3>1. DOMAIN options[c] = 1..n /\ options[c] \in [1..n -> Y]
      BY <1>4
    <3> HIDE DEF W, type
    <3> QED
      BY <2>3, <3>1
  <2>5. arrays[c] = FromNulls(type, options[c])
    BY <1>1
  <2>6. \A r \in 1..n : options[c][r] = None => fields[c].nullable
    BY <1>1
  <2> DEFINE o == options[c]
             U == ValuesOf(type, W)
  <2>7. o \in Seq(OptionsOf(U)) /\ Len(o) = n /\ Placeholder(type) \in U
    BY <2>2, <2>4
  <2> HIDE DEF W, type, o, U
  <2>8. /\ IsColumn(FromNulls(type, o), type, Len(o), U)
        /\ \A r \in 1..Len(o) : At(FromNulls(type, o), r) = o[r]
    BY ONLY <2>7, FromNullsKeepsOptions
  <2>9. /\ IsColumn(FromNulls(type, o), type, n, U)
        /\ \A r \in 1..n : At(FromNulls(type, o), r) = o[r]
    BY ONLY <2>7, <2>8
  <2> QED
    BY ONLY <2>5, <2>6, <2>9 DEF type, o, U
<1> HIDE DEF W
<1>7. ColumnsFit(fields, arrays, m, n, W)
  BY ONLY <1>1, <1>6 DEF ColumnsFit
<1>8. IsTable(Table(fields, arrays), W)
  BY ONLY <1>2, <1>3, <1>7, m \in Nat, n \in Nat, OneBatch
<1> QED
  BY ONLY <1>5, <1>8 DEF BecomesTable

-----------------------------------------------------------------------------
\* The operators keep tables.

\* The parts of a table.
LEMMA TableFacts ==
  ASSUME NEW V, NEW t, IsTable(t, V)
  PROVE  /\ Len(t.fields) \in Nat /\ DOMAIN t.fields = 1..Len(t.fields)
         /\ Len(t.batches) \in Nat /\ DOMAIN t.batches = 1..Len(t.batches)
         /\ \A c \in DOMAIN t.fields : IsField(t.fields[c]) /\ t.fields[c].type \in Types
         /\ \A b \in DOMAIN t.batches :
              /\ DOMAIN t.batches[b] = DOMAIN t.fields
              /\ RowCount(t.batches[b]) \in Nat
              /\ \A c \in DOMAIN t.fields :
                   /\ IsColumn(t.batches[b][c], t.fields[c].type, RowCount(t.batches[b]),
                               ValuesOf(t.fields[c].type, V))
                   /\ \A r \in 1..RowCount(t.batches[b]) :
                        At(t.batches[b][c], r) = None => t.fields[c].nullable
<1>1. Len(t.fields) \in Nat /\ DOMAIN t.fields = 1..Len(t.fields)
  <2>1. PICK X : t.fields \in Seq(X)
    BY DEF IsTable
  <2> QED
    BY <2>1
<1>2. Len(t.batches) \in Nat /\ DOMAIN t.batches = 1..Len(t.batches)
  <2>1. PICK X : t.batches \in Seq(X)
    BY DEF IsTable
  <2> QED
    BY <2>1
<1>3. \A c \in DOMAIN t.fields : IsField(t.fields[c]) /\ t.fields[c].type \in Types
  BY DEF IsTable, IsField
<1>4. \A b \in DOMAIN t.batches : IsBatch(t.batches[b], t.fields, V)
  BY DEF IsTable
<1> QED
  BY <1>1, <1>2, <1>3, <1>4 DEF IsBatch

\* A position is a batch and a row in it.
LEMMA PositionsAre ==
  ASSUME NEW V, NEW t, IsTable(t, V)
  PROVE  /\ Len(Positions(t)) \in Nat /\ DOMAIN Positions(t) = 1..Len(Positions(t))
         /\ \A k \in DOMAIN Positions(t) :
              /\ Positions(t)[k][1] \in DOMAIN t.batches
              /\ Positions(t)[k][2] \in 1..RowCount(t.batches[Positions(t)[k][1]])
<1> DEFINE B == Len(t.batches)
           n(b) == RowCount(t.batches[b])
           X == {x \in (1..B) \X Nat : x[2] \in 1..n(x[1])}
           ss == [b \in DOMAIN t.batches |-> [r \in 1..n(b) |-> <<b, r>>]]
<1>1. B \in Nat /\ DOMAIN t.batches = 1..B /\ \A b \in 1..B : n(b) \in Nat
  BY TableFacts
<1> HIDE DEF B, n
<1>2. \A b \in 1..B : \A r \in 1..n(b) : <<b, r>> \in X
  BY <1>1
<1>3. ss \in Seq(Seq(X))
  <2>1. \A b \in 1..B : [r \in 1..n(b) |-> <<b, r>>] \in Seq(X)
    <3> HIDE DEF X
    <3> QED
      BY <1>1, <1>2
  <2> HIDE DEF X
  <2> QED
    BY <1>1, <2>1
<1>4. Positions(t) = FlattenSeq(ss)
  BY DEF Positions, n
<1> HIDE DEF ss
<1>5. Positions(t) \in Seq(X)
  BY <1>3, <1>4, FlattenType
<1>6. \A k \in DOMAIN Positions(t) : Positions(t)[k] \in X
  <2> HIDE DEF X
  <2> QED
    BY <1>5
<1> QED
  BY <1>1, <1>5, <1>6 DEF n

\* `take` keeps a column one.
LEMMA TakeColumn ==
  ASSUME NEW type, NEW V, Placeholder(type) \in V, NEW n \in Nat, NEW a, IsColumn(a, type, n, V),
         NEW indices \in Seq(Nat)
  PROVE  IsColumn(Take(a, indices), type, Len(indices), V)
<1> DEFINE m == Len(indices)
           values == [k \in 1..m |-> IF At(a, indices[k]) = None THEN Placeholder(a.type)
                                     ELSE At(a, indices[k])[1]]
           valid == [k \in 1..m |-> At(a, indices[k]) # None]
           column == IF FALSE \in ToSet(valid)
                     THEN [NewArray(a.type, values) EXCEPT !.valid = Some(valid)]
                     ELSE NewArray(a.type, values)
<1>1. DOMAIN indices = 1..m /\ m \in Nat /\ a.type = type
  BY ColumnFacts DEF IsColumn
<1>2. Take(a, indices) = column
  BY <1>1 DEF Take
<1>3. values \in Seq(V) /\ Len(values) = m
  <2>1. ASSUME NEW i, At(a, i) # None
        PROVE  At(a, i)[1] \in V
    <3>1. PICK v \in V : At(a, i) = Some(v)
      BY <2>1, AtIs DEF OptionsOf
    <3> QED
      BY <3>1, Options
  <2>2. \A k \in 1..m : values[k] \in V
    BY <1>1, <2>1
  <2> QED
    BY <1>1, <2>2
<1>4. valid \in Seq(BOOLEAN) /\ Len(valid) = m
  BY <1>1
<1>5. \/ column = [type |-> type, values |-> values, valid |-> None]
      \/ column = [type |-> type, values |-> values, valid |-> Some(valid)]
  BY <1>1 DEF NewArray
<1> HIDE DEF column, values, valid
<1>6. column \in Columns(type, V) /\ column.values = values
      /\ (column.valid = None \/ column.valid = Some(valid))
  BY <1>3, <1>4, <1>5 DEF Columns
<1> QED
  BY <1>2, <1>3, <1>4, <1>6, Options DEF IsColumn

\* A filter keeps the fields, and NULLs where they may be.
LEMMA FilteredIs ==
  ASSUME NEW V, HasPlaceholders(V), NEW t, IsTable(t, V), NEW passing
  PROVE  IsTable(Filtered(t, passing), V)
<1> DEFINE F == t.fields
           n(b) == RowCount(t.batches[b])
           S(b) == {r \in 1..n(b) : <<b, r>> \in passing}
           rows(b) == Ascending(S(b), n(b))
           arrays(b) == [c \in DOMAIN t.batches[b] |-> Take(t.batches[b][c], rows(b))]
           batches == [b \in DOMAIN t.batches |-> arrays(b)]
           u == Filtered(t, passing)
<1>1. /\ Len(F) \in Nat /\ DOMAIN F = 1..Len(F)
      /\ Len(t.batches) \in Nat /\ DOMAIN t.batches = 1..Len(t.batches)
      /\ \A c \in DOMAIN F : F[c].type \in Types
  BY TableFacts
<1>2. t = [fields |-> F, batches |-> t.batches]
  BY DEF IsTable
<1>3. u = [fields |-> F, batches |-> batches]
  <2>1. u = [t EXCEPT !.batches = batches]
    BY DEF Filtered
  <2> HIDE DEF batches, u
  <2> QED
    BY ONLY <1>2, <2>1
<1>4. ASSUME NEW b \in DOMAIN t.batches
      PROVE  IsBatch(arrays(b), F, V)
  <2>1. /\ DOMAIN t.batches[b] = DOMAIN F /\ n(b) \in Nat
        /\ \A c \in DOMAIN F :
             /\ IsColumn(t.batches[b][c], F[c].type, n(b), ValuesOf(F[c].type, V))
             /\ \A r \in 1..n(b) : At(t.batches[b][c], r) = None => F[c].nullable
    BY TableFacts
  <2> HIDE DEF n
  <2>2. Lists(rows(b), S(b) \cap 1..n(b))
    BY <2>1, AscendingLists
  <2>3. /\ rows(b) \in Seq(Nat) /\ Len(rows(b)) \in Nat /\ DOMAIN rows(b) = 1..Len(rows(b))
        /\ \A k \in 1..Len(rows(b)) : rows(b)[k] \in 1..n(b)
    <3> HIDE DEF rows, S
    <3> QED
      BY <2>2 DEF Lists
  <2> DEFINE m == Len(rows(b))
  <2> HIDE DEF rows
  <2>4. ASSUME NEW c \in DOMAIN F
        PROVE  /\ IsColumn(arrays(b)[c], F[c].type, m, ValuesOf(F[c].type, V))
               /\ \A k \in 1..m : At(arrays(b)[c], k) = None => F[c].nullable
    <3> DEFINE a == t.batches[b][c]
               W == ValuesOf(F[c].type, V)
    <3>1. arrays(b)[c] = Take(a, rows(b))
      BY <2>1
    <3>2. Placeholder(F[c].type) \in W
      BY <1>1, PlaceholderType
    <3>3. IsColumn(a, F[c].type, n(b), W)
      BY <2>1
    <3> HIDE DEF W
    <3>4. IsColumn(Take(a, rows(b)), F[c].type, m, W)
      BY <2>1, <2>3, <3>2, <3>3, TakeColumn
    <3>5. ASSUME NEW k \in 1..m
          PROVE  At(Take(a, rows(b)), k) = None => F[c].nullable
      <4>1. rows(b) \in [1..m -> Nat] /\ m \in Nat
        BY <2>3
      <4>2. At(Take(a, rows(b)), k) = At(a, rows(b)[k])
        BY <4>1, TakeKeepsRows
      <4> QED
        BY <2>1, <2>3, <4>2
    <3> HIDE DEF arrays
    <3> QED
      BY <3>1, <3>4, <3>5 DEF W
  <2>5. arrays(b) \in [1..Len(F) -> {arrays(b)[c] : c \in 1..Len(F)}]
    BY <1>1, <2>1
  <2>6. \A c \in 1..Len(F) : Len(arrays(b)[c].values) = m
    <3> HIDE DEF arrays
    <3> QED
      BY <1>1, <2>4 DEF IsColumn
  <2> HIDE DEF arrays
  <2>7. RowCount(arrays(b)) = IF Len(F) = 0 THEN 0 ELSE m
    BY <1>1, <2>3, <2>5, <2>6, RowsOfColumns
  <2>8. DOMAIN arrays(b) = DOMAIN F /\ \A c \in DOMAIN F : RowCount(arrays(b)) = m
    BY <1>1, <2>5, <2>7
  <2> QED
    BY <2>3, <2>4, <2>7, <2>8 DEF IsBatch
<1>5. batches \in Seq({arrays(b) : b \in DOMAIN t.batches})
  <2> HIDE DEF arrays
  <2> QED
    BY <1>1
<1>6. \A b \in DOMAIN t.batches : batches[b] = arrays(b)
  <2> HIDE DEF arrays
  <2> QED
    OBVIOUS
<1>7. DOMAIN batches = DOMAIN t.batches
  OBVIOUS
<1> HIDE DEF batches, u, arrays
<1>8. u.fields = F /\ u.batches = batches
  BY <1>3
<1> QED
  BY <1>3, <1>4, <1>5, <1>6, <1>7, <1>8 DEF IsTable, u

\* The rows in another order, or some of them, make a table of one batch.
LEMMA SortedIs ==
  ASSUME NEW V, HasPlaceholders(V), NEW t, IsTable(t, V),
         NEW n \in Nat, NEW order, DOMAIN order = 1..n,
         \A k \in 1..n : order[k][1] \in DOMAIN t.batches
                         /\ order[k][2] \in 1..RowCount(t.batches[order[k][1]])
  PROVE  BecomesTable(Sorted(t, order), V)
<1> DEFINE F == t.fields
           m == Len(F)
           opt(c, k) == At(t.batches[order[k][1]][c], order[k][2])
           options == [c \in 1..m |-> [k \in 1..n |-> opt(c, k)]]
           arrays == [c \in 1..m |-> Gather(F[c].type, Parts(t, c), order)]
<1>1. /\ m \in Nat /\ DOMAIN F = 1..m
      /\ \A c \in 1..m : IsField(F[c])
      /\ \A b \in DOMAIN t.batches : RowCount(t.batches[b]) \in Nat
  BY TableFacts
<1>2. Sorted(t, order) = Table(F, arrays)
  BY <1>1 DEF Sorted
<1>3. ASSUME NEW c \in 1..m
      PROVE  arrays[c] = FromNulls(F[c].type, options[c])
  <2>1. \A k \in 1..n : At(Parts(t, c)[order[k][1]], order[k][2]) = opt(c, k)
    BY DEF Parts
  <2>2. Gather(F[c].type, Parts(t, c), order) = FromNulls(F[c].type, [k \in 1..n |-> opt(c, k)])
    <3> HIDE DEF opt
    <3> QED
      BY <2>1 DEF Gather
  <2> HIDE DEF opt
  <2> QED
    BY <2>2
<1>4. ASSUME NEW c \in 1..m, NEW k \in 1..n
      PROVE  IsOption(opt(c, k), F[c].type) /\ (opt(c, k) = None => F[c].nullable)
  <2> DEFINE b == order[k][1]
             W == ValuesOf(F[c].type, V)
  <2>1. /\ b \in DOMAIN t.batches /\ order[k][2] \in 1..RowCount(t.batches[b])
        /\ RowCount(t.batches[b]) \in Nat
    BY <1>1
  <2>2. /\ IsColumn(t.batches[b][c], F[c].type, RowCount(t.batches[b]), W)
        /\ At(t.batches[b][c], order[k][2]) = None => F[c].nullable
    <3> HIDE DEF b
    <3> QED
      BY <1>1, <2>1, TableFacts
  <2>3. opt(c, k) \in OptionsOf(W)
    <3> HIDE DEF W
    <3> QED
      BY <2>1, <2>2, AtIs
  <2>4. IsOption(opt(c, k), F[c].type)
    <3> HIDE DEF opt
    <3>1. CASE opt(c, k) = None
      BY <3>1 DEF IsOption
    <3>2. CASE opt(c, k) # None
      <4>1. PICK v \in W : opt(c, k) = Some(v)
        BY <2>3, <3>2 DEF OptionsOf
      <4>2. opt(c, k)[1] = v /\ v.t = F[c].type
        BY <4>1, Options DEF ValuesOf
      <4> QED
        BY <4>1, <4>2 DEF IsOption
    <3> QED
      BY <3>1, <3>2
  <2> QED
    BY <2>2, <2>4
<1>5. options \in [1..m -> [1..n -> {opt(c, k) : c \in 1..m, k \in 1..n}]]
  <2> HIDE DEF opt, m
  <2> QED
    OBVIOUS
<1>6. \A c \in 1..m : \A k \in 1..n : options[c][k] = opt(c, k)
  <2> HIDE DEF opt, m
  <2> QED
    OBVIOUS
<1>7. F \in [1..m -> {F[c] : c \in 1..m}] /\ arrays \in [1..m -> {arrays[c] : c \in 1..m}]
  <2>1. \E X : F \in Seq(X)
    BY DEF IsTable
  <2>2. F = [c \in 1..m |-> F[c]]
    BY <2>1
  <2> HIDE DEF F, m
  <2> QED
    BY <2>2
<1> HIDE DEF opt, options, arrays, F, m
<1>8. \A c \in 1..m : \A k \in 1..n :
        IsOption(options[c][k], F[c].type) /\ (options[c][k] = None => F[c].nullable)
  BY <1>4, <1>6
<1>9. MadeOf(F, arrays, options, m, n)
  <2>1. (\E X : F \in [1..m -> X]) /\ (\E X : arrays \in [1..m -> X])
    BY ONLY <1>7
  <2>2. \E X : options \in [1..m -> [1..n -> X]]
    <3> DEFINE Y == {opt(c, k) : c \in 1..m, k \in 1..n}
    <3>1. options \in [1..m -> [1..n -> Y]]
      BY ONLY <1>5
    <3> HIDE DEF Y
    <3> QED
      BY ONLY <3>1
  <2>3. \A c \in 1..m : IsField(F[c]) /\ arrays[c] = FromNulls(F[c].type, options[c])
    BY ONLY <1>1, <1>3
  <2> QED
    BY ONLY <1>8, <2>1, <2>2, <2>3 DEF MadeOf
<1> QED
  BY ONLY <1>1, <1>2, <1>9, HasPlaceholders(V), n \in Nat, FromOptions

\* Batches and rows fit in a word: fewer of them than the half of a word can tell apart.
Packs(t) ==
  /\ Len(t.batches) < RowBits
  /\ \A b \in DOMAIN t.batches : RowCount(t.batches[b]) < RowBits

\* A word is of a row of the table, or of none in an outer join.
IsRowWord(word, t, outer) ==
  \/ word = NoRow /\ outer
  \/ \E b \in DOMAIN t.batches : \E r \in 1..RowCount(t.batches[b]) : word = Pack(b - 1, r - 1)

\* What the word of a row stands for.
LEMMA WordOfRow ==
  ASSUME NEW V, NEW t, IsTable(t, V), Packs(t),
         NEW b \in DOMAIN t.batches, NEW r \in 1..RowCount(t.batches[b])
  PROVE  /\ Pack(b - 1, r - 1) \in Nat /\ Pack(b - 1, r - 1) # NoRow
         /\ \A parts : Meant(parts, Pack(b - 1, r - 1)) = At(parts[b], r)
<1>1. /\ Len(t.batches) \in Nat /\ DOMAIN t.batches = 1..Len(t.batches)
      /\ RowCount(t.batches[b]) \in Nat
  BY TableFacts
<1>2. Len(t.batches) < RowBits /\ RowCount(t.batches[b]) < RowBits /\ RowBits \in Nat
  BY ArraysAssumption DEF Packs
<1>3. /\ b - 1 \in Nat /\ r - 1 \in Nat /\ (b - 1) + 1 < RowBits /\ r - 1 < RowBits
      /\ (b - 1) + 1 = b /\ (r - 1) + 1 = r
  BY ONLY <1>1, <1>2, b \in DOMAIN t.batches, r \in 1..RowCount(t.batches[b])
<1>4. /\ Pack(b - 1, r - 1) \in Nat /\ Pack(b - 1, r - 1) # NoRow
      /\ Pack(b - 1, r - 1) \div RowBits = b - 1 /\ Pack(b - 1, r - 1) % RowBits = r - 1
  BY ONLY <1>3, Unpacked
<1> QED
  BY ONLY <1>3, <1>4 DEF Meant

\* A join's side has the rows of the words; where it is padded, the columns are nullable.
LEMMA JoinedIs ==
  ASSUME NEW V, HasPlaceholders(V), NEW t, IsTable(t, V), Packs(t), NEW outer \in BOOLEAN,
         NEW n \in Nat, NEW words, NEW X, words \in [1..n -> X],
         \A k \in 1..n : IsRowWord(words[k], t, outer)
  PROVE  IsTable(Joined(t, words, outer), V)
<1> DEFINE F == t.fields
           m == Len(F)
           G == [c \in 1..m |-> [F[c] EXCEPT !.nullable = @ \/ outer]]
           arrays == [c \in 1..m |-> GatherPositions(F[c].type, Parts(t, c), words)]
           B == Len(t.batches)
           rows == [b \in 1..B |-> RowCount(t.batches[b])]
<1>1. /\ m \in Nat /\ DOMAIN F = 1..m
      /\ \A c \in 1..m : IsField(F[c]) /\ F[c].type \in Types
      /\ B \in Nat /\ DOMAIN t.batches = 1..B
      /\ \A b \in 1..B : /\ RowCount(t.batches[b]) \in Nat
                         /\ \A c \in 1..m :
                              /\ IsColumn(t.batches[b][c], F[c].type, RowCount(t.batches[b]),
                                          ValuesOf(F[c].type, V))
                              /\ \A r \in 1..RowCount(t.batches[b]) :
                                   At(t.batches[b][c], r) = None => F[c].nullable
  BY TableFacts
<1>2. Joined(t, words, outer) = Table(G, arrays)
  BY <1>1 DEF Joined
<1>3. ASSUME NEW c \in 1..m
      PROVE  /\ IsField(G[c]) /\ G[c].type = F[c].type
             /\ G[c].nullable = (F[c].nullable \/ outer)
  <2> DEFINE f == F[c]
  <2>1. f = [name |-> f.name, type |-> f.type, nullable |-> f.nullable] /\ f.type \in Types
        /\ f.nullable \in BOOLEAN
    BY <1>1 DEF IsField, Field
  <2>2. G[c] = [f EXCEPT !.nullable = f.nullable \/ outer]
    OBVIOUS
  <2> HIDE DEF f, G
  <2>3. G[c] = [name |-> f.name, type |-> f.type, nullable |-> f.nullable \/ outer]
    BY ONLY <2>1, <2>2
  <2>4. G[c].name = f.name /\ G[c].type = f.type /\ G[c].nullable = (f.nullable \/ outer)
    BY ONLY <2>3
  <2> QED
    BY ONLY <2>1, <2>3, <2>4, outer \in BOOLEAN DEF IsField, Field, f
<1>4. words \in Seq(Nat) /\ Len(words) = n /\ AreWords(words, B, rows)
  <2>1. ASSUME NEW k \in 1..n
        PROVE  words[k] \in Nat /\ IsWord(words[k], B, rows)
    <3>1. CASE words[k] = NoRow
      <4>1. NoRow \in Nat
        <5>1. RowBits \in Nat /\ RowBits >= 1 /\ RowBits * RowBits >= 1 /\ RowBits * RowBits \in Nat
          BY ArraysAssumption, Times
        <5> QED
          BY ONLY <5>1 DEF NoRow
      <4> QED
        BY ONLY <3>1, <4>1 DEF IsWord
    <3>2. ASSUME NEW b \in DOMAIN t.batches, NEW r \in 1..RowCount(t.batches[b]),
                 words[k] = Pack(b - 1, r - 1)
          PROVE  words[k] \in Nat /\ IsWord(words[k], B, rows)
      <4>1. words[k] \in Nat
        BY <3>2, WordOfRow
      <4>2. b \in 1..B /\ r \in 1..rows[b]
        BY <1>1
      <4> QED
        BY ONLY <3>2, <4>1, <4>2 DEF IsWord
    <3>3. IsRowWord(words[k], t, outer)
      OBVIOUS
    <3> QED
      BY ONLY <3>1, <3>2, <3>3 DEF IsRowWord
  <2>2. words \in Seq(Nat) /\ Len(words) = n
    <3>1. words \in [1..n -> Nat]
      BY ONLY <2>1, words \in [1..n -> X]
    <3> QED
      BY ONLY <3>1, n \in Nat
  <2> HIDE DEF B, rows
  <2> QED
    BY <2>1, <2>2 DEF AreWords
<1>5. ASSUME NEW c \in 1..m
      PROVE  /\ IsColumn(arrays[c], G[c].type, n, ValuesOf(G[c].type, V))
             /\ \A k \in 1..n : At(arrays[c], k) = None => G[c].nullable
  <2> DEFINE type == F[c].type
             parts == Parts(t, c)
             W == ValuesOf(type, V)
             a == GatherPositions(type, parts, words)
  <2>1. AreParts(parts, type, W, B, rows)
    <3>1. B < RowBits /\ rows \in [1..B -> Nat]
      BY <1>1 DEF Packs
    <3>2. \A b \in 1..B : rows[b] < RowBits /\ IsColumn(parts[b], type, rows[b], W)
      BY <1>1 DEF Packs, Parts
    <3> HIDE DEF B, rows, parts, type, W
    <3> QED
      BY <1>1, <3>1, <3>2 DEF AreParts
  <2>2. Placeholder(type) \in W
    BY <1>1, PlaceholderType
  <2>3. /\ IsColumn(a, type, n, W)
        /\ \A k \in 1..n : At(a, k) = Meant(parts, words[k])
    <3> HIDE DEF B, rows, parts, type, W
    <3> QED
      BY <1>4, <2>1, <2>2, GatherKeepsRows
  <2>4. ASSUME NEW k \in 1..n, At(a, k) = None
        PROVE  G[c].nullable
    <3>1. IsRowWord(words[k], t, outer) /\ Meant(parts, words[k]) = None
      BY <2>3, <2>4
    <3>2. CASE outer
      BY <1>3, <3>2
    <3>3. ASSUME NEW b \in DOMAIN t.batches, NEW r \in 1..RowCount(t.batches[b]),
                 words[k] = Pack(b - 1, r - 1)
          PROVE  G[c].nullable
      <4>1. Meant(parts, words[k]) = At(parts[b], r)
        <5> HIDE DEF parts
        <5> QED
          BY <3>3, WordOfRow
      <4>2. parts[b] = t.batches[b][c]
        BY DEF Parts
      <4>3. F[c].nullable
        BY <1>1, <3>1, <4>1, <4>2
      <4> QED
        BY <1>3, <4>3
    <3> QED
      BY ONLY <3>1, <3>2, <3>3 DEF IsRowWord
  <2>5. arrays[c] = a /\ G[c].type = type
    BY <1>3
  <2> HIDE DEF a, type, W, G, arrays
  <2> QED
    BY ONLY <2>3, <2>4, <2>5 DEF W
<1>6. /\ G \in [1..m -> {G[c] : c \in 1..m}]
      /\ arrays \in [1..m -> {arrays[c] : c \in 1..m}]
  OBVIOUS
<1> HIDE DEF G, arrays, m
<1>7. ColumnsFit(G, arrays, m, n, V)
  BY ONLY <1>3, <1>5 DEF ColumnsFit
<1> QED
  BY ONLY <1>1, <1>2, <1>6, <1>7, n \in Nat, OneBatch

\* A batch fits other fields of the same types, at least as nullable.
LEMMA WiderBatch ==
  ASSUME NEW V, NEW arrays, NEW F, NEW G, IsBatch(arrays, F, V), DOMAIN G = DOMAIN F,
         \A c \in DOMAIN F : G[c].type = F[c].type /\ (F[c].nullable => G[c].nullable)
  PROVE  IsBatch(arrays, G, V)
BY DEF IsBatch

\* The batches of both tables, of the same names and types, under fields as nullable as either's.
LEMMA ConcatIs ==
  ASSUME NEW V, NEW t, IsTable(t, V), NEW u, IsTable(u, V), SameShape(t, u)
  PROVE  IsTable(Concat(t, u), V)
<1> DEFINE F == t.fields
           H == u.fields
           m == Len(F)
           G == [c \in 1..m |-> [F[c] EXCEPT !.nullable = F[c].nullable \/ H[c].nullable]]
           B == Len(t.batches)
           C == Len(u.batches)
           all == t.batches \o u.batches
<1>1. /\ m \in Nat /\ DOMAIN F = 1..m /\ DOMAIN H = 1..m
      /\ \A c \in 1..m : IsField(F[c]) /\ IsField(H[c]) /\ H[c].type = F[c].type
      /\ B \in Nat /\ C \in Nat /\ DOMAIN t.batches = 1..B /\ DOMAIN u.batches = 1..C
  BY TableFacts DEF SameShape
<1>2. Concat(t, u) = [fields |-> G, batches |-> all]
  BY <1>1 DEF Concat
<1>3. ASSUME NEW c \in 1..m
      PROVE  /\ IsField(G[c]) /\ G[c].type = F[c].type
             /\ G[c].nullable = (F[c].nullable \/ H[c].nullable)
  <2> DEFINE f == F[c]
             h == H[c].nullable
  <2>1. f = [name |-> f.name, type |-> f.type, nullable |-> f.nullable] /\ f.type \in Types
        /\ f.nullable \in BOOLEAN /\ h \in BOOLEAN
    BY <1>1 DEF IsField, Field
  <2>2. G[c] = [f EXCEPT !.nullable = f.nullable \/ h]
    OBVIOUS
  <2> HIDE DEF f, G, h
  <2>3. G[c] = [name |-> f.name, type |-> f.type, nullable |-> f.nullable \/ h]
    BY ONLY <2>1, <2>2
  <2>4. G[c].name = f.name /\ G[c].type = f.type /\ G[c].nullable = (f.nullable \/ h)
    BY ONLY <2>3
  <2> QED
    BY ONLY <2>1, <2>3, <2>4 DEF IsField, Field, f, h
<1>4. /\ \A b \in 1..B : IsBatch(t.batches[b], F, V)
      /\ \A b \in 1..C : IsBatch(u.batches[b], H, V)
  BY <1>1 DEF IsTable
<1>5. DOMAIN G = 1..m
  OBVIOUS
<1> HIDE DEF G
<1>6. /\ \A b \in 1..B : IsBatch(t.batches[b], G, V)
      /\ \A b \in 1..C : IsBatch(u.batches[b], G, V)
  <2>1. \A c \in 1..m : G[c].type = F[c].type /\ (F[c].nullable => G[c].nullable)
    BY ONLY <1>3
  <2>2. \A c \in 1..m : G[c].type = H[c].type /\ (H[c].nullable => G[c].nullable)
    BY ONLY <1>1, <1>3
  <2> HIDE DEF B, C, F, H, m
  <2> QED
    BY ONLY <1>1, <1>4, <1>5, <2>1, <2>2, WiderBatch
<1>7. \E Y : t.batches \in Seq(Y) /\ u.batches \in Seq(Y)
  <2>1. PICK X : t.batches \in Seq(X)
    BY DEF IsTable
  <2>2. PICK Y : u.batches \in Seq(Y)
    BY DEF IsTable
  <2>3. t.batches \in Seq(X \cup Y) /\ u.batches \in Seq(X \cup Y)
    BY ONLY <2>1, <2>2
  <2> QED
    BY ONLY <2>3
<1>8. PICK Y : IsBehind(all, t.batches, B, u.batches, C, Y)
  <2>1. PICK Y : t.batches \in Seq(Y) /\ u.batches \in Seq(Y)
    BY <1>7
  <2>2. IsBehind(all, t.batches, B, u.batches, C, Y)
    BY ONLY <1>1, <2>1, ConcatIsBehind
  <2> QED
    BY ONLY <2>2
<1> HIDE DEF all, B, C
<1>9. /\ all \in Seq(Y) /\ DOMAIN all = 1..(B + C)
      /\ \A b \in 1..(B + C) : IsBatch(all[b], G, V)
  <2>1. all \in Seq(Y) /\ Len(all) = B + C
    BY ONLY <1>8 DEF IsBehind
  <2>2. DOMAIN all = 1..(B + C)
    BY ONLY <2>1
  <2>3. ASSUME NEW b \in 1..(B + C)
        PROVE  IsBatch(all[b], G, V)
    <3>1. CASE b <= B
      <4>1. b \in 1..B
        BY ONLY <1>1, <3>1, b \in 1..(B + C)
      <4>2. all[b] = t.batches[b]
        BY ONLY <1>8, <4>1 DEF IsBehind
      <4> QED
        BY ONLY <1>6, <4>1, <4>2
    <3>2. CASE ~(b <= B)
      <4>1. b - B \in 1..C /\ B + (b - B) = b
        BY ONLY <1>1, <3>2, b \in 1..(B + C)
      <4>2. all[B + (b - B)] = u.batches[b - B]
        BY ONLY <1>8, <4>1 DEF IsBehind
      <4> QED
        BY ONLY <1>6, <4>1, <4>2
    <3> QED
      BY ONLY <3>1, <3>2
  <2> QED
    BY ONLY <2>1, <2>2, <2>3
<1>10. \E X : G \in Seq(X)
  <2> DEFINE X == {G[c] : c \in 1..m}
  <2>1. G = [c \in 1..m |-> G[c]]
    BY ONLY DEF G
  <2>2. G \in [1..m -> X]
    BY ONLY <2>1
  <2> HIDE DEF X, m
  <2>3. G \in Seq(X)
    BY ONLY <1>1, <2>2
  <2> QED
    BY ONLY <2>3
<1> DEFINE w == Concat(t, u)
<1>11. w = [fields |-> G, batches |-> all]
  BY <1>2
<1> HIDE DEF w
<1>12. w.fields = G /\ w.batches = all /\ w = [fields |-> w.fields, batches |-> w.batches]
  BY ONLY <1>11
<1>13. IsTable(w, V)
  BY ONLY <1>3, <1>5, <1>9, <1>10, <1>12 DEF IsTable
<1> QED
  BY ONLY <1>13 DEF w

-----------------------------------------------------------------------------
\* The readers make tables.

IsList(s) == \E X : s \in Seq(X)

LEMMA ListFacts ==
  ASSUME NEW s, IsList(s)
  PROVE  Len(s) \in Nat /\ DOMAIN s = 1..Len(s) /\ s \in [1..Len(s) -> {s[i] : i \in 1..Len(s)}]
<1>1. PICK X : s \in Seq(X)
  BY DEF IsList
<1>2. Len(s) \in Nat /\ DOMAIN s = 1..Len(s)
  BY ONLY <1>1
<1>3. s = [i \in 1..Len(s) |-> s[i]]
  BY ONLY <1>1
<1> QED
  BY ONLY <1>2, <1>3

LEMMA LongerList ==
  ASSUME NEW s, IsList(s), NEW x
  PROVE  /\ IsList(Append(s, x)) /\ Len(Append(s, x)) = Len(s) + 1
         /\ \A i \in 1..Len(s) : Append(s, x)[i] = s[i]
         /\ Append(s, x)[Len(s) + 1] = x
<1>1. PICK X : s \in Seq(X)
  BY DEF IsList
<1>2. s \in Seq(X \cup {x}) /\ x \in X \cup {x}
  BY ONLY <1>1
<1> DEFINE Y == X \cup {x}
<1> HIDE DEF Y
<1>3. Append(s, x) \in Seq(Y)
  BY ONLY <1>2, AppendProperties DEF Y
<1> QED
  BY ONLY <1>2, <1>3, AppendProperties DEF IsList, Y

\* A function on 1..n is made of lists of its values.
LEMMA FunctionTypes ==
  ASSUME NEW m \in Nat, NEW n \in Nat, NEW f, f = [c \in 1..m |-> f[c]],
         \A c \in 1..m : f[c] = [r \in 1..n |-> f[c][r]]
  PROVE  \E X : f \in [1..m -> [1..n -> X]]
<1> DEFINE Y == {f[c][r] : c \in 1..m, r \in 1..n}
<1>1. \A c \in 1..m : \A r \in 1..n : f[c][r] \in Y
  OBVIOUS
<1> HIDE DEF Y
<1>2. \A c \in 1..m : f[c] \in [1..n -> Y]
  BY <1>1
<1>3. f \in [1..m -> [1..n -> Y]]
  BY ONLY <1>2, f = [c \in 1..m |-> f[c]]
<1> QED
  BY ONLY <1>3

\* The types the readers find.
ReadTypes == {"i64", "f64", "bool", "str"}

\* What is parsed as a type is of it; any text is a string.
LEMMA ParseIs ==
  ASSUME NEW type \in ReadTypes, NEW s
  PROVE  IsOption(ParseAs(type, s), type) /\ (type = "str" => ParseAs(type, s) # None)
<1>1. ASSUME NEW n, NEW x
      PROVE  IsOption(Some(Value(type, n, x)), type) /\ Some(Value(type, n, x)) # None
  <2>1. Some(Value(type, n, x))[1] = Value(type, n, x) /\ Some(Value(type, n, x)) # None
    BY Options
  <2>2. Value(type, n, x).t = type
    BY DEF Value
  <2> QED
    BY ONLY <2>1, <2>2 DEF IsOption
<1>2. IsOption(None, type)
  BY DEF IsOption
<1>3. CASE type = "str"
  <2>1. ParseAs(type, s) = Some(Value(type, <<>>, s))
    BY ONLY <1>3 DEF ParseAs, Str
  <2> QED
    BY ONLY <1>1, <2>1
<1>4. CASE type # "str"
  <2> DEFINE c == IF Len(s) = 1 THEN s[1] ELSE Blank
  <2>1. \/ ParseAs(type, s) = None
        \/ ParseAs(type, s) = Some(Value("i64", c.n, <<>>)) /\ type = "i64"
        \/ ParseAs(type, s) = Some(Value("f64", <<10 * c.n[1]>>, <<>>)) /\ type = "f64"
        \/ ParseAs(type, s) = Some(Value("f64", c.n, <<>>)) /\ type = "f64"
        \/ ParseAs(type, s) = Some(Value("bool", <<1>>, <<>>)) /\ type = "bool"
        \/ ParseAs(type, s) = Some(Value("bool", <<0>>, <<>>)) /\ type = "bool"
    <3> HIDE DEF c
    <3> QED
      BY ONLY <1>4, type \in ReadTypes DEF ParseAs, ReadTypes, c
  <2> HIDE DEF c
  <2> QED
    BY ONLY <1>1, <1>2, <1>4, <2>1
<1> QED
  BY ONLY <1>3, <1>4

\* `infer_type`: every text of the column is one of the type.
LEMMA InferredFits ==
  ASSUME NEW cells
  PROVE  /\ InferType(cells) \in ReadTypes
         /\ InferType(cells) # "str" =>
              \A i \in DOMAIN cells : cells[i] # None => ParseAs(InferType(cells), Trim(cells[i][1])) # None
<1> DEFINE all == {Trim(s) : s \in Texts(cells)}
           Fits(type) == all # {} /\ \A s \in all : Parses(type, s)
           inferred == CASE Fits("i64") -> "i64"
                         [] ~Fits("i64") /\ Fits("f64") -> "f64"
                         [] Fits("bool") -> "bool"
                         [] OTHER -> "str"
<1>1. InferType(cells) = inferred
  BY DEF InferType
<1>2. ASSUME NEW type, Fits(type), NEW i \in DOMAIN cells, cells[i] # None
      PROVE  ParseAs(type, Trim(cells[i][1])) # None
  <2>1. cells[i][1] \in Texts(cells)
    BY <1>2 DEF Texts
  <2>2. Trim(cells[i][1]) \in all
    BY <2>1
  <2> HIDE DEF all
  <2> QED
    BY <1>2, <2>2 DEF Parses
<1> HIDE DEF Fits
<1>3. inferred \in ReadTypes /\ (inferred # "str" => Fits(inferred))
  BY ONLY DEF ReadTypes
<1> HIDE DEF inferred
<1> QED
  BY ONLY <1>1, <1>2, <1>3

\* A CSV whose lines are of one length makes a table.
LEMMA CsvIs ==
  ASSUME NEW V, HasPlaceholders(V), NEW records, IsList(records),
         \A i \in 1..Len(records) : IsList(records[i]), ~CsvRefused(records)
  PROVE  BecomesTable(CsvTable(records), V)
<1> DEFINE m == Len(records[1])
           n == Len(records) - 1
           cells == [c \in 1..m |-> Cells(Tail(records), c)]
           types == [c \in 1..m |-> InferType(cells[c])]
           Fields == [c \in 1..m |-> Field(records[1][c][1], types[c], Nullable(cells[c]))]
           option(c, r) == IF cells[c][r] = None THEN None
                           ELSE ParseAs(types[c], IF types[c] = "str" THEN cells[c][r][1]
                                                  ELSE Trim(cells[c][r][1]))
           options == [c \in 1..m |-> [r \in 1..n |-> option(c, r)]]
           arrays == [c \in 1..m |-> ColumnArray(types[c], cells[c])]
<1>1. /\ Len(records) \in Nat /\ records # <<>> /\ n \in Nat
      /\ DOMAIN Tail(records) = 1..n
  <2>1. PICK X : records \in Seq(X)
    BY DEF IsList
  <2>2. records # <<>>
    BY DEF CsvRefused
  <2> QED
    BY ONLY <2>1, <2>2
<1>2. m \in Nat /\ DOMAIN records[1] = 1..m
  <2>1. 1 \in 1..Len(records)
    BY <1>1
  <2> QED
    BY <2>1, ListFacts
<1> HIDE DEF m, n
<1>3. \A c \in 1..m : cells[c] = [r \in 1..n |-> Tail(records)[r][c]] /\ DOMAIN cells[c] = 1..n
  BY <1>1 DEF Cells
<1>4. CsvTable(records) = Table(Fields, arrays)
  BY <1>2 DEF CsvTable
<1> HIDE DEF cells
<1>5. ASSUME NEW c \in 1..m
      PROVE  /\ Fields[c].type = types[c] /\ types[c] \in ReadTypes
             /\ Fields[c].nullable = Nullable(cells[c]) /\ IsField(Fields[c])
  <2>1. types[c] \in ReadTypes /\ ReadTypes \subseteq Types
    BY InferredFits DEF ReadTypes, Types
  <2>2. Nullable(cells[c]) \in BOOLEAN
    BY DEF Nullable
  <2>3. Fields[c] = Field(records[1][c][1], types[c], Nullable(cells[c]))
    OBVIOUS
  <2> HIDE DEF types, Fields
  <2>4. Fields[c].name = records[1][c][1] /\ Fields[c].type = types[c]
        /\ Fields[c].nullable = Nullable(cells[c])
    BY ONLY <2>3 DEF Field
  <2> QED
    BY ONLY <2>1, <2>2, <2>3, <2>4 DEF IsField
<1>6. ASSUME NEW c \in 1..m
      PROVE  arrays[c] = FromNulls(types[c], options[c])
  <2>1. ColumnArray(types[c], cells[c]) = FromNulls(types[c], [r \in DOMAIN cells[c] |-> option(c, r)])
    BY DEF ColumnArray
  <2> QED
    BY <1>3, <2>1
<1>7. ASSUME NEW c \in 1..m, NEW r \in 1..n
      PROVE  IsOption(option(c, r), types[c]) /\ (option(c, r) = None => Nullable(cells[c]))
  <2>1. types[c] \in ReadTypes
    BY <1>5
  <2>2. CASE cells[c][r] = None
    BY <1>3, <2>2 DEF IsOption, Nullable
  <2>3. CASE cells[c][r] # None
    <3>1. option(c, r) = ParseAs(types[c], IF types[c] = "str" THEN cells[c][r][1]
                                           ELSE Trim(cells[c][r][1]))
      BY <2>3
    <3>2. IsOption(option(c, r), types[c]) /\ (types[c] = "str" => option(c, r) # None)
      <4> HIDE DEF option, types
      <4> QED
        BY ONLY <2>1, <3>1, ParseIs
    <3>3. types[c] # "str" => option(c, r) # None
      <4>1. InferType(cells[c]) # "str" => ParseAs(InferType(cells[c]), Trim(cells[c][r][1])) # None
        BY <1>3, <2>3, InferredFits
      <4>2. types[c] = InferType(cells[c])
        OBVIOUS
      <4> HIDE DEF option, types
      <4> QED
        BY ONLY <3>1, <4>1, <4>2
    <3> QED
      BY ONLY <3>2, <3>3
  <2> QED
    BY ONLY <2>2, <2>3
<1>8. \A c \in 1..m : \A r \in 1..n : options[c][r] = option(c, r)
  <2> HIDE DEF option
  <2> QED
    OBVIOUS
<1>9. \E X : options \in [1..m -> [1..n -> X]]
  <2>1. options = [c \in 1..m |-> options[c]] /\ \A c \in 1..m : options[c] = [r \in 1..n |-> options[c][r]]
    <3> HIDE DEF option
    <3> QED
      OBVIOUS
  <2> HIDE DEF options
  <2> QED
    BY ONLY <1>1, <1>2, <2>1, FunctionTypes
<1>10. (\E X : Fields \in [1..m -> X]) /\ (\E X : arrays \in [1..m -> X])
  <2>1. Fields \in [1..m -> {Fields[c] : c \in 1..m}] /\ arrays \in [1..m -> {arrays[c] : c \in 1..m}]
    <3> HIDE DEF types
    <3> QED
      OBVIOUS
  <2> HIDE DEF Fields, arrays
  <2> QED
    BY ONLY <2>1
<1> HIDE DEF types, Fields, option, options, arrays
<1>11. MadeOf(Fields, arrays, options, m, n)
  <2>1. \A c \in 1..m : \A r \in 1..n :
          IsOption(options[c][r], Fields[c].type) /\ (options[c][r] = None => Fields[c].nullable)
    BY ONLY <1>5, <1>7, <1>8
  <2>2. \A c \in 1..m : IsField(Fields[c]) /\ arrays[c] = FromNulls(Fields[c].type, options[c])
    BY ONLY <1>5, <1>6
  <2> QED
    BY ONLY <1>9, <1>10, <2>1, <2>2 DEF MadeOf
<1> QED
  BY ONLY <1>1, <1>2, <1>4, <1>11, HasPlaceholders(V), FromOptions

\* The entries of JSON records.
JsonEntries == [key : Strings, value : JsonElements]

\* What a record has under a name, if anything.
LEMMA FoundIs ==
  ASSUME NEW record \in Seq(JsonEntries), NEW name
  PROVE  \/ JsonFound(record, name) = None
         \/ \E v \in JsonElements : JsonFound(record, name) = Some(v)
<1> DEFINE I == {i \in 1..Len(record) : record[i].key = name}
           least == CHOOSE i \in I : \A j \in I : i <= j
<1>1. JsonFound(record, name) = IF (IF I # {} THEN least ELSE 0) = 0 THEN None
                                ELSE Some(record[IF I # {} THEN least ELSE 0].value)
  BY DEF JsonFound, SelectInSeq, Min
<1>2. CASE I = {}
  BY <1>1, <1>2
<1>3. CASE I # {}
  <2>1. I \in SUBSET Nat
    OBVIOUS
  <2>2. PICK i \in I : \A j \in I : i <= j
    <3> HIDE DEF I
    <3> QED
      BY ONLY <1>3, <2>1, LeastNatural
  <2>3. least \in I
    <3> HIDE DEF I
    <3> QED
      BY ONLY <2>2
  <2>4. least \in 1..Len(record) /\ least # 0
    <3>1. \A j \in I : j \in 1..Len(record)
      OBVIOUS
    <3> HIDE DEF I, least
    <3> QED
      BY ONLY <2>3, <3>1
  <2> HIDE DEF I, least
  <2>5. JsonFound(record, name) = Some(record[least].value)
    BY ONLY <1>1, <1>3, <2>4
  <2>6. record[least] \in JsonEntries
    BY ONLY <2>4, record \in Seq(JsonEntries)
  <2>7. record[least].value \in JsonElements
    BY ONLY <2>6 DEF JsonEntries
  <2> QED
    BY ONLY <2>5, <2>7
<1> QED
  BY ONLY <1>2, <1>3

\* A scalar JSON value, or none.
JsonScalars == {v \in JsonElements : v.k \in {"bool", "number", "str"}}
IsJsonCell(cell) == cell = None \/ (cell = Some(cell[1]) /\ cell[1] \in JsonScalars)

\* The names under which records have values are listed.
LEMMA NamesAreListed ==
  ASSUME NEW records \in Seq(Seq(JsonEntries))
  PROVE  IsList(JsonNames(records))
<1> DEFINE entries == FlattenSeq(records)
           n == Len(entries)
           More(before, k) == IF entries[k].key \in ToSet(before) THEN before
                              ELSE Append(before, entries[k].key)
           Body(f) == [k \in 0..n |-> IF k = 0 THEN <<>>
                                      ELSE LET before == f[k - 1]
                                           IN  IF entries[k].key \in ToSet(before) THEN before
                                               ELSE Append(before, entries[k].key)]
           names == CHOOSE f : f = Body(f)
           X == Seq(Strings)
           Step == [k \in 1..n |-> [before \in X |-> More(before, k)]]
<1>1. entries \in Seq(JsonEntries) /\ n \in Nat
  <2>1. entries \in Seq(JsonEntries)
    BY FlattenType
  <2> QED
    BY <2>1
<1>2. \A k \in 1..n : entries[k].key \in Strings
  <2>1. \A k \in 1..n : entries[k] \in JsonEntries
    BY <1>1
  <2> QED
    BY ONLY <2>1 DEF JsonEntries
<1>3. <<>> \in X
  BY EmptySeq
<1> HIDE DEF entries, n
<1>4. Step \in [1..n -> [X -> X]]
  <2>1. ASSUME NEW k \in 1..n, NEW before \in X
        PROVE  More(before, k) \in X
    <3>1. Append(before, entries[k].key) \in X
      BY ONLY <1>2, k \in 1..n, before \in X, AppendProperties
    <3> HIDE DEF X
    <3> QED
      BY ONLY <3>1, before \in X
  <2> HIDE DEF X, More
  <2> QED
    BY ONLY <2>1
<1>5. PICK c \in [0..n -> X] : c[0] = <<>> /\ \A k \in 1..n : c[k] = Step[k][c[k - 1]]
  <2> HIDE DEF X, Step
  <2>1. \E c \in [0..n -> X] : Follows(c, n, <<>>, Step)
    BY ONLY <1>1, <1>3, <1>4, Recursion
  <2> QED
    BY ONLY <2>1 DEF Follows
<1>6. c = Body(c)
  <2>1. c = [k \in 0..n |-> c[k]]
    OBVIOUS
  <2>2. ASSUME NEW k \in 0..n
        PROVE  c[k] = IF k = 0 THEN <<>> ELSE More(c[k - 1], k)
    <3>1. CASE k = 0
      BY <1>5, <3>1
    <3>2. CASE k # 0
      <4>1. k \in 1..n /\ k - 1 \in 0..n
        BY ONLY <1>1, <3>2, k \in 0..n
      <4>2. c[k - 1] \in X
        BY ONLY <4>1, c \in [0..n -> X]
      <4>3. c[k] = Step[k][c[k - 1]]
        BY ONLY <1>5, <4>1
      <4> HIDE DEF X, More
      <4>4. Step[k][c[k - 1]] = More(c[k - 1], k)
        BY ONLY <4>1, <4>2
      <4> QED
        BY ONLY <3>2, <4>3, <4>4
    <3> QED
      BY ONLY <3>1, <3>2
  <2> HIDE DEF X
  <2> QED
    BY ONLY <2>1, <2>2
<1>7. names = Body(names)
  <2> HIDE DEF Body
  <2> QED
    BY ONLY <1>6
<1>8. JsonNames(records) = names[n]
  BY DEF JsonNames, n, entries
<1>9. /\ names[0] = <<>>
      /\ \A k \in 1..n : names[k] = More(names[k - 1], k)
  <2> HIDE DEF names
  <2>1. 0 \in 0..n /\ \A k \in 1..n : k \in 0..n /\ k # 0
    BY ONLY <1>1
  <2>2. \A k \in 0..n : names[k] = IF k = 0 THEN <<>> ELSE More(names[k - 1], k)
    BY ONLY <1>7
  <2> HIDE DEF More
  <2> QED
    BY ONLY <2>1, <2>2
<1> HIDE DEF names, Body, Step
<1> DEFINE T == {k \in 0..n : names[k] \in X}
<1>10. 0 \in T
  <2>1. 0 \in 0..n /\ names[0] \in X
    BY ONLY <1>1, <1>3, <1>9
  <2> HIDE DEF X
  <2> QED
    BY ONLY <2>1
<1>11. Inductive(T, 0, n)
  <2> SUFFICES ASSUME NEW k \in 0..(n - 1), k \in T
               PROVE  k + 1 \in T
    BY DEF Inductive
  <2>1. k + 1 \in 1..n /\ k + 1 \in 0..n /\ (k + 1) - 1 = k /\ names[k] \in X
    BY <1>1
  <2>2. names[k + 1] = More(names[k], k + 1)
    <3> HIDE DEF More, T, X
    <3> QED
      BY ONLY <1>9, <2>1
  <2>3. Append(names[k], entries[k + 1].key) \in X
    BY ONLY <1>2, <2>1, AppendProperties
  <2> HIDE DEF X
  <2> QED
    BY ONLY <2>1, <2>2, <2>3
<1>12. n \in T
  <2>1. 0 \in Int /\ n \in Int /\ n \in 0..n
    BY ONLY <1>1
  <2> HIDE DEF T
  <2> QED
    BY ONLY <1>10, <1>11, <2>1, IntervalInduction
<1> QED
  BY ONLY <1>8, <1>12 DEF IsList

\* The type is one of all the values of a JSON column.
FitsJson(type, cells) ==
  /\ type \in ReadTypes
  /\ \A i \in DOMAIN cells : cells[i] # None =>
       /\ type = "bool" => cells[i][1].k = "bool"
       /\ type \in {"i64", "f64"} => cells[i][1].k = "number"
       /\ type # "str" => ParseAs(type, cells[i][1].text) # None

LEMMA JsonTypeFits ==
  ASSUME NEW cells, \A i \in DOMAIN cells : IsJsonCell(cells[i]), NEW type, type = JsonType(cells)
  PROVE  FitsJson(type, cells)
<1> DEFINE present == Texts(cells)
           Are(kind) == present # {} /\ \A v \in present : v.k = kind
           Fit(t) == Are("number") /\ \A v \in present : Parses(t, v.text)
           found == CASE Are("bool") -> "bool"
                      [] Fit("i64") -> "i64"
                      [] ~Fit("i64") /\ Fit("f64") -> "f64"
                      [] OTHER -> "str"
<1>1. type = found
  BY DEF JsonType
<1>2. \A i \in DOMAIN cells : cells[i] # None => cells[i][1] \in present
  BY DEF Texts
<1>3. \A v \in present : v \in JsonScalars
  BY DEF Texts, IsJsonCell
<1>4. ASSUME NEW v \in JsonScalars, v.k = "bool"
      PROVE  ParseAs("bool", v.text) # None
  <2>1. v.text = <<Sym("true")>> \/ v.text = <<Sym("false")>>
    BY ONLY <1>4 DEF JsonScalars, JsonElements
  <2>2. ParseAs("bool", <<Sym("true")>>) = Some(Value("bool", <<1>>, <<>>))
    <3>1. Len(<<Sym("true")>>) = 1 /\ <<Sym("true")>>[1] = Sym("true") /\ Sym("true").c = "true"
      BY DEF Sym, Char
    <3> QED
      BY ONLY <3>1 DEF ParseAs
  <2>3. ParseAs("bool", <<Sym("false")>>) = Some(Value("bool", <<0>>, <<>>))
    <3>1. Len(<<Sym("false")>>) = 1 /\ <<Sym("false")>>[1] = Sym("false") /\ Sym("false").c = "false"
      BY DEF Sym, Char
    <3> QED
      BY ONLY <3>1 DEF ParseAs
  <2> QED
    BY ONLY <2>1, <2>2, <2>3, Options
<1> HIDE DEF present
<1>5. \/ found = "bool" /\ Are("bool")
      \/ found = "i64" /\ Fit("i64")
      \/ found = "f64" /\ Fit("f64")
      \/ found = "str"
  <2> HIDE DEF Are, Fit
  <2> QED
    OBVIOUS
<1> HIDE DEF found
<1> QED
  BY ONLY <1>1, <1>2, <1>3, <1>4, <1>5 DEF FitsJson, ReadTypes, Parses

\* JSON records of scalars make a table.
LEMMA JsonIs ==
  ASSUME NEW V, HasPlaceholders(V), NEW records \in Seq(Seq(JsonEntries)), ~JsonRefused(records)
  PROVE  BecomesTable(JsonTable(records), V)
<1> DEFINE names == JsonNames(records)
           m == Len(names)
           n == Len(records)
           cells == [c \in 1..m |-> JsonCells(records, names[c])]
           types == [c \in 1..m |-> JsonType(cells[c])]
           Fields == [c \in 1..m |-> Field(names[c], types[c], Nullable(cells[c]))]
           Kinds(type) == CASE type = "bool" -> {"bool"} [] type \in {"i64", "f64"} -> {"number"}
                            [] OTHER -> {"bool", "number", "str"}
           option(c, r) == IF cells[c][r] # None /\ cells[c][r][1].k \in Kinds(types[c])
                           THEN ParseAs(types[c], cells[c][r][1].text) ELSE None
           options == [c \in 1..m |-> [r \in 1..n |-> option(c, r)]]
           arrays == [c \in 1..m |-> ArrayFor(types[c], cells[c])]
<1>1. n \in Nat /\ DOMAIN records = 1..n /\ m \in Nat /\ DOMAIN names = 1..m
  BY NamesAreListed, ListFacts
<1> HIDE DEF m, n, names
<1>2. JsonTable(records) = Table(Fields, arrays)
  BY <1>1 DEF JsonTable, names
<1>3. ASSUME NEW c \in 1..m
      PROVE  DOMAIN cells[c] = 1..n /\ \A r \in 1..n : IsJsonCell(cells[c][r])
  <2> DEFINE Found(r) == JsonFound(records[r], names[c])
  <2>1. cells[c] = [r \in 1..n |-> IF Found(r) = None \/ Found(r)[1].k = "null" THEN None ELSE Found(r)]
    BY <1>1 DEF JsonCells
  <2>2. ASSUME NEW r \in 1..n
        PROVE  IsJsonCell(IF Found(r) = None \/ Found(r)[1].k = "null" THEN None ELSE Found(r))
    <3>1. Found(r) = None \/ \E v \in JsonElements : Found(r) = Some(v)
      <4>1. records[r] \in Seq(JsonEntries)
        BY <1>1
      <4> QED
        BY ONLY <4>1, FoundIs
    <3>2. Found(r) # None => Found(r)[1].k # "nested"
      BY <1>1 DEF JsonRefused, names
    <3> HIDE DEF Found
    <3>3. CASE Found(r) = None \/ Found(r)[1].k = "null"
      BY ONLY <3>3 DEF IsJsonCell
    <3>4. CASE ~(Found(r) = None \/ Found(r)[1].k = "null")
      <4>1. PICK v \in JsonElements : Found(r) = Some(v)
        BY ONLY <3>1, <3>4
      <4>2. Found(r)[1] = v
        BY ONLY <4>1, Options
      <4>3. v.k \in {"null", "bool", "number", "str", "nested"}
        BY DEF JsonElements
      <4>4. v \in JsonScalars
        BY ONLY <3>2, <3>4, <4>2, <4>3, v \in JsonElements DEF JsonScalars
      <4>5. IsJsonCell(Found(r))
        BY ONLY <4>1, <4>2, <4>4 DEF IsJsonCell
      <4> QED
        BY ONLY <3>4, <4>5
    <3> QED
      BY ONLY <3>3, <3>4
  <2> HIDE DEF cells, Found
  <2> QED
    BY ONLY <2>1, <2>2
<1> HIDE DEF cells
<1>4. ASSUME NEW c \in 1..m
      PROVE  /\ types[c] \in ReadTypes
             /\ \A r \in 1..n : cells[c][r] # None =>
                  /\ types[c] = "bool" => cells[c][r][1].k = "bool"
                  /\ types[c] \in {"i64", "f64"} => cells[c][r][1].k = "number"
                  /\ types[c] # "str" => ParseAs(types[c], cells[c][r][1].text) # None
  <2>1. types[c] = JsonType(cells[c])
    OBVIOUS
  <2>2. DOMAIN cells[c] = 1..n /\ \A i \in DOMAIN cells[c] : IsJsonCell(cells[c][i])
    BY <1>3
  <2> DEFINE column == cells[c]
             type == types[c]
  <2> HIDE DEF column, type
  <2>3. FitsJson(type, column)
    BY ONLY <2>1, <2>2, JsonTypeFits DEF column, type
  <2>4. DOMAIN column = 1..n
    BY ONLY <2>2 DEF column
  <2> QED
    BY ONLY <2>3, <2>4 DEF FitsJson, column, type
<1>5. ASSUME NEW c \in 1..m
      PROVE  /\ Fields[c].type = types[c]
             /\ Fields[c].nullable = Nullable(cells[c]) /\ IsField(Fields[c])
  <2>1. types[c] \in ReadTypes /\ ReadTypes \subseteq Types
    BY <1>4 DEF ReadTypes, Types
  <2>2. Nullable(cells[c]) \in BOOLEAN
    BY DEF Nullable
  <2>3. Fields[c] = Field(names[c], types[c], Nullable(cells[c]))
    OBVIOUS
  <2> HIDE DEF types, Fields
  <2>4. Fields[c].name = names[c] /\ Fields[c].type = types[c]
        /\ Fields[c].nullable = Nullable(cells[c])
    BY ONLY <2>3 DEF Field
  <2> QED
    BY ONLY <2>1, <2>2, <2>3, <2>4 DEF IsField
<1>6. ASSUME NEW c \in 1..m
      PROVE  arrays[c] = FromNulls(types[c], options[c])
  <2>1. ArrayFor(types[c], cells[c]) = FromNulls(types[c], [r \in DOMAIN cells[c] |-> option(c, r)])
    BY DEF ArrayFor
  <2> QED
    BY <1>3, <2>1
<1>7. ASSUME NEW c \in 1..m, NEW r \in 1..n
      PROVE  IsOption(option(c, r), types[c]) /\ (option(c, r) = None => Nullable(cells[c]))
  <2>1. CASE cells[c][r] = None
    BY <1>3, <2>1 DEF IsOption, Nullable
  <2>2. CASE cells[c][r] # None
    <3>1. types[c] \in ReadTypes
      BY <1>4
    <3>2. cells[c][r][1].k \in {"bool", "number", "str"}
      BY <1>3, <2>2 DEF IsJsonCell, JsonScalars
    <3>3. /\ types[c] = "bool" => cells[c][r][1].k = "bool"
          /\ types[c] \in {"i64", "f64"} => cells[c][r][1].k = "number"
          /\ types[c] # "str" => ParseAs(types[c], cells[c][r][1].text) # None
      BY <1>4, <2>2
    <3> HIDE DEF types
    <3>4. cells[c][r][1].k \in Kinds(types[c])
      BY ONLY <3>1, <3>2, <3>3 DEF ReadTypes
    <3> HIDE DEF Kinds
    <3>5. option(c, r) = ParseAs(types[c], cells[c][r][1].text)
      BY ONLY <2>2, <3>4
    <3> HIDE DEF option
    <3>6. IsOption(option(c, r), types[c]) /\ (types[c] = "str" => option(c, r) # None)
      BY ONLY <3>1, <3>5, ParseIs
    <3> QED
      BY ONLY <3>3, <3>5, <3>6
  <2> QED
    BY ONLY <2>1, <2>2
<1>8. \A c \in 1..m : \A r \in 1..n : options[c][r] = option(c, r)
  <2> HIDE DEF option
  <2> QED
    OBVIOUS
<1>9. \E X : options \in [1..m -> [1..n -> X]]
  <2>1. options = [c \in 1..m |-> options[c]] /\ \A c \in 1..m : options[c] = [r \in 1..n |-> options[c][r]]
    <3> HIDE DEF option
    <3> QED
      OBVIOUS
  <2> HIDE DEF options
  <2> QED
    BY ONLY <1>1, <2>1, FunctionTypes
<1>10. (\E X : Fields \in [1..m -> X]) /\ (\E X : arrays \in [1..m -> X])
  <2>1. Fields \in [1..m -> {Fields[c] : c \in 1..m}] /\ arrays \in [1..m -> {arrays[c] : c \in 1..m}]
    <3> HIDE DEF types
    <3> QED
      OBVIOUS
  <2> HIDE DEF Fields, arrays
  <2> QED
    BY ONLY <2>1
<1> HIDE DEF types, Fields, Kinds, option, options, arrays
<1>11. MadeOf(Fields, arrays, options, m, n)
  <2>1. \A c \in 1..m : \A r \in 1..n :
          IsOption(options[c][r], Fields[c].type) /\ (options[c][r] = None => Fields[c].nullable)
    BY ONLY <1>5, <1>7, <1>8
  <2>2. \A c \in 1..m : IsField(Fields[c]) /\ arrays[c] = FromNulls(Fields[c].type, options[c])
    BY ONLY <1>5, <1>6
  <2> QED
    BY ONLY <1>9, <1>10, <2>1, <2>2 DEF MadeOf
<1> QED
  BY ONLY <1>1, <1>2, <1>11, HasPlaceholders(V), FromOptions

\* The type of a column of values is that of the first one that is not NULL.
LEMMA RowsTypeIs ==
  ASSUME NEW n \in Nat, NEW values \in [1..n -> Values], RowsType(values) # "null"
  PROVE  RowsType(values) \in Types
<1> DEFINE I == {i \in 1..Len(values) : values[i] # Null}
           least == CHOOSE i \in I : \A j \in I : i <= j
           first == IF I # {} THEN least ELSE 0
<1>1. Len(values) = n
  OBVIOUS
<1>2. RowsType(values) = IF first = 0 THEN "null" ELSE values[first].t
  BY DEF RowsType, SelectInSeq, Min
<1>3. first # 0 /\ I # {}
  BY <1>2
<1>4. first \in I
  <2>1. I \in SUBSET Nat
    OBVIOUS
  <2>2. PICK i \in I : \A j \in I : i <= j
    <3> HIDE DEF I
    <3> QED
      BY ONLY <1>3, <2>1, LeastNatural
  <2> HIDE DEF I
  <2>3. least \in I
    BY ONLY <2>2
  <2> QED
    BY ONLY <1>3, <2>3
<1>5. \A j \in I : values[j] \in Values /\ values[j] # Null
  BY <1>1
<1> HIDE DEF I, first
<1>6. values[first] \in Values \ {Null} /\ RowsType(values) = values[first].t
  BY ONLY <1>2, <1>3, <1>4, <1>5
<1> QED
  BY ONLY <1>6 DEF Values

\* Rows of values of one length, of one type to a column, make a table.
LEMMA RowsAre ==
  ASSUME NEW V, HasPlaceholders(V), NEW names \in Seq(Strings), NEW rows \in Seq(Seq(Values)),
         ~RowsRefused(names, rows)
  PROVE  BecomesTable(RowsTable(names, rows), V)
<1> DEFINE m == Len(names)
           n == Len(rows)
           values == [c \in 1..m |-> Cells(rows, c)]
           types == [c \in 1..m |-> RowsType(values[c])]
           nullable(c) == Null \in ToSet(values[c])
           Fields == [c \in 1..m |-> Field(names[c], types[c], nullable(c))]
           option(c, r) == IF values[c][r].t = types[c] THEN Some(values[c][r]) ELSE None
           options == [c \in 1..m |-> [r \in 1..n |-> option(c, r)]]
           arrays == [c \in 1..m |-> FromNulls(types[c], options[c])]
<1>1. n \in Nat /\ DOMAIN rows = 1..n /\ m \in Nat /\ DOMAIN names = 1..m
  OBVIOUS
<1> HIDE DEF m, n
<1>2. RowsTable(names, rows) = Table(Fields, arrays)
  BY <1>1 DEF RowsTable
<1>3. ASSUME NEW c \in 1..m
      PROVE  /\ values[c] \in [1..n -> Values]
             /\ \A r \in 1..n : values[c][r] = rows[r][c]
  <2>1. values[c] = [r \in 1..n |-> rows[r][c]]
    BY <1>1 DEF Cells
  <2>2. ASSUME NEW r \in 1..n
        PROVE  rows[r] \in Seq(Values) /\ Len(rows[r]) = m
    <3>1. r \in DOMAIN rows
      BY <1>1
    <3>2. rows[r] \in Seq(Values)
      BY ONLY <3>1, rows \in Seq(Seq(Values))
    <3>3. Len(rows[r]) = m
      BY ONLY <3>1, ~RowsRefused(names, rows) DEF RowsRefused, m
    <3> QED
      BY ONLY <3>2, <3>3
  <2>3. \A r \in 1..n : rows[r][c] \in Values
    <3> HIDE DEF values
    <3> QED
      BY ONLY <2>2, c \in 1..m
  <2> HIDE DEF values
  <2> QED
    BY ONLY <2>1, <2>3
<1>4. ASSUME NEW c \in 1..m
      PROVE  /\ types[c] \in Types
             /\ \A r \in 1..n : values[c][r].t \in {"null", types[c]}
  <2>1. types[c] = RowsType(Cells(rows, c)) /\ types[c] = RowsType(values[c])
    OBVIOUS
  <2>2. types[c] # "null" /\ \A r \in 1..n : rows[r][c].t \in {"null", types[c]}
    <3> HIDE DEF types, values
    <3> QED
      BY <1>1, <2>1 DEF RowsRefused
  <2> HIDE DEF types, values
  <2> QED
    BY ONLY <1>1, <1>3, <2>1, <2>2, RowsTypeIs
<1> HIDE DEF values
<1>5. ASSUME NEW c \in 1..m
      PROVE  /\ Fields[c].type = types[c]
             /\ Fields[c].nullable = nullable(c) /\ IsField(Fields[c])
  <2>1. types[c] \in Types /\ nullable(c) \in BOOLEAN
    BY <1>4
  <2>2. Fields[c] = Field(names[c], types[c], nullable(c))
    OBVIOUS
  <2> HIDE DEF types, Fields, nullable
  <2>3. Fields[c].name = names[c] /\ Fields[c].type = types[c] /\ Fields[c].nullable = nullable(c)
    BY ONLY <2>2 DEF Field
  <2> QED
    BY ONLY <2>1, <2>2, <2>3 DEF IsField
<1>6. ASSUME NEW c \in 1..m, NEW r \in 1..n
      PROVE  IsOption(option(c, r), types[c]) /\ (option(c, r) = None => nullable(c))
  <2>1. CASE values[c][r].t = types[c]
    <3>1. option(c, r) = Some(values[c][r])
      BY <2>1
    <3>2. option(c, r)[1] = values[c][r] /\ option(c, r) # None
      BY <3>1, Options
    <3> HIDE DEF option, types
    <3> QED
      BY ONLY <2>1, <3>1, <3>2 DEF IsOption
  <2>2. CASE values[c][r].t # types[c]
    <3>1. values[c][r].t = "null" /\ values[c][r] \in Values
      BY <1>3, <1>4, <2>2
    <3>2. values[c][r] = Null
      BY ONLY <3>1 DEF Values, Types
    <3>3. nullable(c)
      BY <1>3, <3>2 DEF ToSet
    <3>4. option(c, r) = None
      BY <2>2
    <3> QED
      BY <3>3, <3>4 DEF IsOption
  <2> QED
    BY ONLY <2>1, <2>2
<1>7. \A c \in 1..m : \A r \in 1..n : options[c][r] = option(c, r)
  <2> HIDE DEF option
  <2> QED
    OBVIOUS
<1>8. \E X : options \in [1..m -> [1..n -> X]]
  <2>1. options = [c \in 1..m |-> options[c]] /\ \A c \in 1..m : options[c] = [r \in 1..n |-> options[c][r]]
    <3> HIDE DEF option
    <3> QED
      OBVIOUS
  <2> HIDE DEF options
  <2> QED
    BY ONLY <1>1, <2>1, FunctionTypes
<1> HIDE DEF options
<1>9. (\E X : Fields \in [1..m -> X]) /\ (\E X : arrays \in [1..m -> X])
  <2>1. Fields \in [1..m -> {Fields[c] : c \in 1..m}] /\ arrays \in [1..m -> {arrays[c] : c \in 1..m}]
    <3> HIDE DEF types, nullable
    <3> QED
      OBVIOUS
  <2> HIDE DEF Fields, arrays
  <2> QED
    BY ONLY <2>1
<1>10. \A c \in 1..m : arrays[c] = FromNulls(types[c], options[c])
  <2> HIDE DEF types
  <2> QED
    OBVIOUS
<1> HIDE DEF types, nullable, Fields, option, arrays
<1>11. MadeOf(Fields, arrays, options, m, n)
  <2>1. \A c \in 1..m : \A r \in 1..n :
          IsOption(options[c][r], Fields[c].type) /\ (options[c][r] = None => Fields[c].nullable)
    BY ONLY <1>5, <1>6, <1>7
  <2>2. \A c \in 1..m : IsField(Fields[c]) /\ arrays[c] = FromNulls(Fields[c].type, options[c])
    BY ONLY <1>5, <1>10
  <2> QED
    BY ONLY <1>8, <1>9, <2>1, <2>2 DEF MadeOf
<1> QED
  BY ONLY <1>1, <1>2, <1>11, HasPlaceholders(V), FromOptions

-----------------------------------------------------------------------------
\* The invariant.

\* The reader's record and its records are lists.
IsReader(r) ==
  \E at, field, quoted, in_quotes, record, records :
    /\ r = [at |-> at, field |-> field, quoted |-> quoted, in_quotes |-> in_quotes,
            record |-> record, records |-> records]
    /\ IsList(record) /\ IsList(records)
    /\ \A i \in 1..Len(records) : IsList(records[i])

\* Two tables of the same values.
AreTables(t, u) == \E V : HasPlaceholders(V) /\ IsTable(t, V) /\ IsTable(u, V)

TablesInv ==
  /\ doc \in Docs
  /\ stage \in {"reading", "build", "ready", "error"}
  /\ IsReader(reader)
  /\ AreTables(table, imported)

\* The table's batches, and the rows of a batch, are fewer than 2^32, what a word of a join
\* can hold.
Packable == Packs(table)

\* What is read changes in few places.
LEMMA ReaderParts ==
  ASSUME NEW r, IsReader(r), NEW x, NEW y
  PROVE  /\ IsReader([r EXCEPT !.at = x]) /\ IsReader([r EXCEPT !.field = x])
         /\ IsReader([r EXCEPT !.in_quotes = x])
         /\ IsReader([r EXCEPT !.in_quotes = x, !.quoted = y])
         /\ IsReader(Pushed(r, x)) /\ IsReader(Finished(r)) /\ IsReader(Ended(r))
<1>1. PICK at, field, quoted, in_quotes, record, records :
        /\ r = [at |-> at, field |-> field, quoted |-> quoted, in_quotes |-> in_quotes,
                record |-> record, records |-> records]
        /\ IsList(record) /\ IsList(records)
        /\ \A i \in 1..Len(records) : IsList(records[i])
  BY DEF IsReader
<1> DEFINE Reader(a, f, q, i, s, ss) ==
             [at |-> a, field |-> f, quoted |-> q, in_quotes |-> i, record |-> s, records |-> ss]
<1>2. ASSUME NEW a, NEW f, NEW q, NEW i, NEW s, NEW ss, IsList(s), IsList(ss),
             \A k \in 1..Len(ss) : IsList(ss[k])
      PROVE  IsReader(Reader(a, f, q, i, s, ss))
  BY ONLY <1>2 DEF IsReader
<1>3. r = Reader(at, field, quoted, in_quotes, record, records)
  BY ONLY <1>1
<1>4. /\ [r EXCEPT !.at = x] = Reader(x, field, quoted, in_quotes, record, records)
      /\ [r EXCEPT !.field = x] = Reader(at, x, quoted, in_quotes, record, records)
      /\ [r EXCEPT !.in_quotes = x] = Reader(at, field, quoted, x, record, records)
      /\ [r EXCEPT !.in_quotes = x, !.quoted = y] = Reader(at, field, y, x, record, records)
  <2>1. [r EXCEPT !.at = x] = Reader(x, field, quoted, in_quotes, record, records)
    BY ONLY <1>3
  <2>2. [r EXCEPT !.field = x] = Reader(at, x, quoted, in_quotes, record, records)
    BY ONLY <1>3
  <2>3. [r EXCEPT !.in_quotes = x] = Reader(at, field, quoted, x, record, records)
    BY ONLY <1>3
  <2> DEFINE opened == [r EXCEPT !.in_quotes = x]
  <2>4. [r EXCEPT !.in_quotes = x, !.quoted = y] = [opened EXCEPT !.quoted = y]
    OBVIOUS
  <2>5. opened = Reader(at, field, quoted, x, record, records)
    BY ONLY <2>3
  <2> HIDE DEF opened
  <2>6. [opened EXCEPT !.quoted = y] = Reader(at, field, y, x, record, records)
    BY ONLY <2>5
  <2> QED
    BY ONLY <2>1, <2>2, <2>3, <2>4, <2>6
<1>5. Pushed(r, x) = Reader(at, Append(field, x), quoted, in_quotes, record, records)
  BY ONLY <1>3 DEF Pushed
<1> DEFINE cell == IF field = <<>> /\ ~quoted THEN None ELSE Some(field)
           done == Append(record, cell)
<1>6. Finished(r) = Reader(at, <<>>, FALSE, in_quotes, done, records)
  <2>1. Finished(r) = [r EXCEPT !.record = done, !.field = <<>>, !.quoted = FALSE]
    BY ONLY <1>3 DEF Finished
  <2> HIDE DEF done
  <2> QED
    BY ONLY <1>3, <2>1
<1>7. IsList(done)
  BY <1>1, LongerList
<1> HIDE DEF done
<1> DEFINE more == Append(records, done)
<1>8. Ended(r) = Reader(at, <<>>, FALSE, in_quotes, <<>>, more)
  <2> DEFINE WithRecords(g, t) == [g EXCEPT !.records = t]
             WithRecord(g, t) == [g EXCEPT !.record = t]
  <2>1. Finished(r).record = done /\ r.records = records
    BY ONLY <1>3, <1>6
  <2>2. Ended(r) = WithRecord(WithRecords(Finished(r), more), <<>>)
    BY ONLY <2>1 DEF Ended
  <2>3. \A a, f, q, i, s, ss, t :
          /\ WithRecords(Reader(a, f, q, i, s, ss), t) = Reader(a, f, q, i, s, t)
          /\ WithRecord(Reader(a, f, q, i, s, ss), t) = Reader(a, f, q, i, t, ss)
    OBVIOUS
  <2> DEFINE no == FALSE
             empty == <<>>
  <2>4. Finished(r) = Reader(at, empty, no, in_quotes, done, records)
    BY ONLY <1>6
  <2>5. Ended(r) = WithRecord(WithRecords(Finished(r), more), empty)
    BY ONLY <2>2
  <2>6. SUFFICES Ended(r) = Reader(at, empty, no, in_quotes, empty, more)
    OBVIOUS
  <2> HIDE DEF more, Reader, WithRecords, WithRecord, no, empty
  <2>7. WithRecords(Finished(r), more) = Reader(at, empty, no, in_quotes, done, more)
    BY ONLY <2>3, <2>4
  <2> QED
    BY ONLY <2>3, <2>5, <2>7
<1>9. IsList(more) /\ \A k \in 1..Len(more) : IsList(more[k])
  <2>1. /\ IsList(more) /\ Len(more) = Len(records) + 1
        /\ \A i \in 1..Len(records) : more[i] = records[i]
        /\ more[Len(records) + 1] = done
    BY <1>1, LongerList
  <2>2. Len(records) \in Nat
    BY <1>1, ListFacts
  <2> HIDE DEF more
  <2>3. ASSUME NEW k \in 1..Len(more)
        PROVE  IsList(more[k])
    <3>1. CASE k = Len(records) + 1
      BY ONLY <1>7, <2>1, <3>1
    <3>2. CASE k # Len(records) + 1
      <4>1. k \in 1..Len(records)
        BY ONLY <2>1, <2>2, <3>2, k \in 1..Len(more)
      <4> QED
        BY ONLY <1>1, <2>1, <4>1
    <3> QED
      BY ONLY <3>1, <3>2
  <2> QED
    BY ONLY <2>1, <2>3
<1>10. IsList(<<>>)
  BY EmptySeq DEF IsList
<1> HIDE DEF Reader, more
<1>11. IsList(record) /\ IsList(records) /\ \A i \in 1..Len(records) : IsList(records[i])
  BY ONLY <1>1
<1>12. IsReader([r EXCEPT !.at = x]) /\ IsReader([r EXCEPT !.field = x])
  BY ONLY <1>2, <1>4, <1>11
<1>13. IsReader([r EXCEPT !.in_quotes = x]) /\ IsReader([r EXCEPT !.in_quotes = x, !.quoted = y])
  BY ONLY <1>2, <1>4, <1>11
<1>14. IsReader(Pushed(r, x))
  BY ONLY <1>2, <1>5, <1>11
<1>15. IsReader(Finished(r))
  BY ONLY <1>2, <1>6, <1>7, <1>11
<1>16. IsReader(Ended(r))
  BY ONLY <1>2, <1>8, <1>9, <1>10
<1> QED
  BY ONLY <1>12, <1>13, <1>14, <1>15, <1>16

LEMMA FreshReader == IsReader(Fresh)
<1>1. <<>> \in Seq({}) /\ Len(<<>>) = 0
  BY EmptySeq
<1>2. IsList(<<>>)
  BY <1>1 DEF IsList
<1> DEFINE empty == <<>>
<1>3. Fresh = [at |-> 1, field |-> empty, quoted |-> FALSE, in_quotes |-> FALSE,
               record |-> empty, records |-> empty]
  BY DEF Fresh
<1>4. IsList(empty) /\ Len(empty) = 0 /\ \A i \in 1..Len(empty) : IsList(empty[i])
  BY ONLY <1>1, <1>2
<1> HIDE DEF empty
<1> QED
  BY ONLY <1>3, <1>4 DEF IsReader

\* A table is put beside another one.
LEMMA BesideTable ==
  ASSUME NEW t, NEW u, NEW V, HasPlaceholders(V), IsTable(u, V), BecomesTable(t, V)
  PROVE  AreTables(t, u) /\ AreTables(t, t)
<1>1. PICK W : V \subseteq W /\ HasPlaceholders(W) /\ IsTable(t, W)
  BY DEF BecomesTable
<1>2. IsTable(u, W)
  BY <1>1, MoreValues
<1> QED
  BY <1>1, <1>2 DEF AreTables

\* The documents' rows and records.
LEMMA DocumentFacts ==
  ASSUME doc \in Docs
  PROVE  /\ doc.kind = "json" => doc.records \in Seq(Seq(JsonEntries))
         /\ doc.kind = "rows" => doc.names \in Seq(Strings) /\ doc.rows \in Seq(Seq(Values))
<1>1. IsDocument(doc)
  BY TablesAssumption
<1> QED
  BY <1>1 DEF IsDocument, JsonEntries

\* The first state.
LEMMA TablesInit == Init => TablesInv
<1> SUFFICES ASSUME Init PROVE TablesInv
  OBVIOUS
<1> DEFINE V == {Placeholder(type) : type \in Types}
<1>1. HasPlaceholders(V)
  BY DEF HasPlaceholders
<1> HIDE DEF V
<1>2. AreTables(table, imported)
  <2>1. table = NoTable /\ imported = NoTable
    BY DEF Init
  <2> QED
    BY <1>1, <2>1, NoTableIs DEF AreTables
<1>3. doc \in Docs /\ reader = Fresh /\ stage \in {"reading", "build"}
  BY DEF Init
<1> QED
  BY <1>2, <1>3, FreshReader DEF TablesInv

\* A step of the reader changes no table.
LEMMA ReadingKeeps ==
  ASSUME TablesInv,
         \/ PushQuote \/ CloseQuote \/ PushQuoted \/ OpenQuote \/ EndField \/ DropReturn \/ EndLine
         \/ PushOther \/ EndText
  PROVE  TablesInv'
<1>1. /\ IsReader(reader) /\ doc \in Docs /\ stage \in {"reading", "build", "ready", "error"}
      /\ AreTables(table, imported)
  BY DEF TablesInv
<1>2. IsReader(Past(1)) /\ IsReader(Past(2))
  BY <1>1, ReaderParts DEF Past
<1>3. ASSUME NEW r, IsReader(r), Read(r)
      PROVE  TablesInv'
  <2>1. reader' = r /\ doc' = doc /\ stage' = stage /\ table' = table /\ imported' = imported
    BY <1>3 DEF Read
  <2> QED
    BY ONLY <1>1, <1>3, <2>1 DEF TablesInv
<1>4. CASE PushQuote
  <2>1. Read(Pushed(Past(2), Quote))
    BY <1>4 DEF PushQuote
  <2> QED
    BY <1>2, <1>3, <2>1, ReaderParts
<1>5. CASE CloseQuote
  <2>1. Read([Past(1) EXCEPT !.in_quotes = FALSE])
    BY <1>5 DEF CloseQuote
  <2> QED
    BY <1>2, <1>3, <2>1, ReaderParts
<1>6. CASE PushQuoted
  <2>1. Read(Pushed(Past(1), Here))
    BY <1>6 DEF PushQuoted
  <2> QED
    BY <1>2, <1>3, <2>1, ReaderParts
<1>7. CASE OpenQuote
  <2>1. Read([Past(1) EXCEPT !.in_quotes = TRUE, !.quoted = TRUE])
    BY <1>7 DEF OpenQuote
  <2> QED
    BY <1>2, <1>3, <2>1, ReaderParts
<1>8. CASE EndField
  <2>1. Read(Finished(Past(1)))
    BY <1>8 DEF EndField
  <2> QED
    BY <1>2, <1>3, <2>1, ReaderParts
<1>9. CASE DropReturn
  <2>1. Read(Past(1))
    BY <1>9 DEF DropReturn
  <2> QED
    BY <1>2, <1>3, <2>1
<1>10. CASE EndLine
  <2>1. Read(Ended(Past(1))) \/ Read(Past(1))
    BY <1>10 DEF EndLine
  <2> QED
    BY <1>2, <1>3, <2>1, ReaderParts
<1>11. CASE PushOther
  <2>1. Read(Pushed(Past(1), Here))
    BY <1>11 DEF PushOther
  <2> QED
    BY <1>2, <1>3, <2>1, ReaderParts
<1>12. CASE EndText
  <2>1. /\ reader' = Ended(reader) \/ reader' = reader
        /\ doc' = doc /\ stage' \in {"error", "build"} /\ table' = table /\ imported' = imported
    BY <1>12 DEF EndText
  <2>2. IsReader(Ended(reader))
    BY <1>1, ReaderParts
  <2> QED
    BY ONLY <1>1, <2>1, <2>2 DEF TablesInv
<1> QED
  BY <1>4, <1>5, <1>6, <1>7, <1>8, <1>9, <1>10, <1>11, <1>12

\* A table is made or refused.
LEMMA BuildingKeeps ==
  ASSUME TablesInv, BuildCsv \/ BuildJson \/ BuildRows
  PROVE  TablesInv'
<1>1. /\ IsReader(reader) /\ doc \in Docs /\ AreTables(table, imported)
  BY DEF TablesInv
<1>2. PICK V : HasPlaceholders(V) /\ IsTable(table, V) /\ IsTable(imported, V)
  BY <1>1 DEF AreTables
<1>3. ASSUME doc' = doc, reader' = Fresh, stage' \in {"error", "ready"}, AreTables(table', imported')
      PROVE  TablesInv'
  BY ONLY <1>1, <1>3, FreshReader DEF TablesInv
<1>4. CASE BuildCsv
  <2> DEFINE t == CsvTable(reader.records)
             refused == CsvRefused(reader.records)
  <2>1. /\ doc' = doc /\ reader' = Fresh /\ stage' \in {"error", "ready"}
        /\ \/ table' = table /\ imported' = imported
           \/ ~refused /\ table' = t /\ (imported' = imported \/ imported' = t)
    <3> HIDE DEF t, refused
    <3>1. Made(refused, t)
      BY ONLY <1>4 DEF BuildCsv, t, refused
    <3> QED
      BY ONLY <3>1 DEF Made
  <2>2. ~refused => BecomesTable(t, V)
    <3>1. IsList(reader.records) /\ \A i \in 1..Len(reader.records) : IsList(reader.records[i])
      BY ONLY <1>1 DEF IsReader
    <3> QED
      BY ONLY <1>2, <3>1, CsvIs
  <2> HIDE DEF t, refused
  <2>3. AreTables(table', imported')
    BY ONLY <1>1, <1>2, <2>1, <2>2, BesideTable
  <2> QED
    BY ONLY <1>3, <2>1, <2>3
<1>5. CASE BuildJson
  <2> DEFINE t == JsonTable(doc.records)
             refused == JsonRefused(doc.records)
  <2>1. /\ doc' = doc /\ reader' = Fresh /\ stage' \in {"error", "ready"}
        /\ \/ table' = table /\ imported' = imported
           \/ ~refused /\ table' = t /\ (imported' = imported \/ imported' = t)
    <3> HIDE DEF t, refused
    <3>1. Made(refused, t)
      BY ONLY <1>5 DEF BuildJson, t, refused
    <3> QED
      BY ONLY <3>1 DEF Made
  <2>2. ~refused => BecomesTable(t, V)
    <3>1. doc.records \in Seq(Seq(JsonEntries))
      BY <1>1, <1>5, DocumentFacts DEF BuildJson
    <3> QED
      BY ONLY <1>2, <3>1, JsonIs
  <2> HIDE DEF t, refused
  <2>3. AreTables(table', imported')
    BY ONLY <1>1, <1>2, <2>1, <2>2, BesideTable
  <2> QED
    BY ONLY <1>3, <2>1, <2>3
<1>6. CASE BuildRows
  <2> DEFINE t == RowsTable(doc.names, doc.rows)
             refused == RowsRefused(doc.names, doc.rows)
  <2>1. /\ doc' = doc /\ reader' = Fresh /\ stage' \in {"error", "ready"}
        /\ \/ table' = table /\ imported' = imported
           \/ ~refused /\ table' = t /\ (imported' = imported \/ imported' = t)
    <3> HIDE DEF t, refused
    <3>1. Made(refused, t)
      BY ONLY <1>6 DEF BuildRows, t, refused
    <3> QED
      BY ONLY <3>1 DEF Made
  <2>2. ~refused => BecomesTable(t, V)
    <3>1. doc.names \in Seq(Strings) /\ doc.rows \in Seq(Seq(Values))
      BY <1>1, <1>6, DocumentFacts DEF BuildRows
    <3> QED
      BY ONLY <1>2, <3>1, RowsAre
  <2> HIDE DEF t, refused
  <2>3. AreTables(table', imported')
    BY ONLY <1>1, <1>2, <2>1, <2>2, BesideTable
  <2> QED
    BY ONLY <1>3, <2>1, <2>3
<1> QED
  BY <1>4, <1>5, <1>6

\* An operator makes a table of a table.
LEMMA OperatorsKeep ==
  ASSUME TablesInv, Packable, Filter \/ Sort \/ Join \/ Compare \/ ConcatImported
  PROVE  TablesInv'
<1>1. /\ IsReader(reader) /\ doc \in Docs /\ AreTables(table, imported)
      /\ stage \in {"reading", "build", "ready", "error"}
  BY DEF TablesInv
<1>2. PICK V : HasPlaceholders(V) /\ IsTable(table, V) /\ IsTable(imported, V)
  BY <1>1 DEF AreTables
<1>3. ASSUME doc' = doc, reader' = reader, stage' \in {"error", "ready"}, imported' = imported,
             AreTables(table', imported)
      PROVE  TablesInv'
  BY ONLY <1>1, <1>3 DEF TablesInv
<1> DEFINE P == Positions(table)
           N == Len(P)
<1>4. /\ N \in Nat /\ RowNumbers = 1..N
      /\ \A k \in 1..N : /\ P[k][1] \in DOMAIN table.batches
                         /\ P[k][2] \in 1..RowCount(table.batches[P[k][1]])
  BY <1>2, PositionsAre DEF RowNumbers
<1> HIDE DEF N
<1>5. ASSUME NEW step, NEW made, Does(step, made), AreTables(made, imported)
      PROVE  TablesInv'
  <2>1. /\ doc' = doc /\ reader' = reader /\ stage' = "ready" /\ imported' = imported /\ table' = made
    BY ONLY <1>5 DEF Does
  <2> QED
    BY ONLY <1>3, <1>5, <2>1
<1>6. CASE Filter
  <2>1. PICK step, passing : Does(step, Filtered(table, passing))
    BY ONLY <1>6 DEF Filter
  <2>2. IsTable(Filtered(table, passing), V)
    BY ONLY <1>2, FilteredIs
  <2>3. AreTables(Filtered(table, passing), imported)
    BY ONLY <1>2, <2>2 DEF AreTables
  <2> QED
    BY ONLY <1>5, <2>1, <2>3
<1>7. CASE Sort
  <2>1. PICK pos \in [1..N -> 1..N] :
          \E step : Does(step, Sorted(table, [k \in DOMAIN pos |-> P[pos[k]]]))
    BY ONLY <1>4, <1>7 DEF Sort
  <2> DEFINE order == [k \in DOMAIN pos |-> P[pos[k]]]
  <2>2. /\ DOMAIN order = 1..N
        /\ \A k \in 1..N : order[k][1] \in DOMAIN table.batches
                           /\ order[k][2] \in 1..RowCount(table.batches[order[k][1]])
    <3> HIDE DEF P
    <3> QED
      BY ONLY <1>4, pos \in [1..N -> 1..N]
  <2>3. PICK step : Does(step, Sorted(table, order))
    BY ONLY <2>1
  <2> HIDE DEF order
  <2>4. BecomesTable(Sorted(table, order), V)
    BY ONLY <1>2, <1>4, <2>2, SortedIs
  <2>5. AreTables(Sorted(table, order), imported)
    BY ONLY <1>2, <2>4, BesideTable
  <2> QED
    BY ONLY <1>5, <2>3, <2>5
<1>8. CASE Join
  <2> DEFINE Word(i) == IF i = 0 THEN NoRow ELSE Pack(P[i][1] - 1, P[i][2] - 1)
  <2>1. PICK n \in 0..JoinRows, outer \in BOOLEAN :
          \E pos \in [1..n -> RowNumbers \cup (IF outer THEN {0} ELSE {})] :
            \E step : Does(step, Joined(table, [k \in DOMAIN pos |-> Word(pos[k])], outer))
    BY ONLY <1>8 DEF Join
  <2>2. PICK pos \in [1..n -> RowNumbers \cup (IF outer THEN {0} ELSE {})] :
          \E step : Does(step, Joined(table, [k \in DOMAIN pos |-> Word(pos[k])], outer))
    BY ONLY <2>1
  <2> DEFINE words == [k \in DOMAIN pos |-> Word(pos[k])]
  <2>3. PICK step : Does(step, Joined(table, words, outer))
    BY ONLY <2>2
  <2>4. n \in Nat
    BY TablesAssumption
  <2>5. words \in [1..n -> {Word(pos[k]) : k \in 1..n}]
    <3> HIDE DEF Word
    <3> QED
      OBVIOUS
  <2>6. ASSUME NEW k \in 1..n
        PROVE  IsRowWord(words[k], table, outer)
    <3>1. words[k] = Word(pos[k])
      <4> HIDE DEF Word
      <4> QED
        OBVIOUS
    <3>2. CASE pos[k] = 0
      <4>1. outer
        <5>1. ~outer => pos[k] \in 1..N
          BY ONLY <1>4, pos \in [1..n -> RowNumbers \cup (IF outer THEN {0} ELSE {})], k \in 1..n
        <5> QED
          BY ONLY <1>4, <3>2, <5>1
      <4> QED
        BY ONLY <3>1, <3>2, <4>1 DEF IsRowWord
    <3>3. CASE pos[k] # 0
      <4>1. pos[k] \in 1..N
        BY ONLY <1>4, <3>3, pos \in [1..n -> RowNumbers \cup (IF outer THEN {0} ELSE {})], k \in 1..n
      <4> HIDE DEF P
      <4>2. words[k] = Pack(P[pos[k]][1] - 1, P[pos[k]][2] - 1)
        BY ONLY <3>1, <3>3
      <4> QED
        BY ONLY <1>4, <4>1, <4>2 DEF IsRowWord
    <3> QED
      BY ONLY <3>2, <3>3
  <2> DEFINE X == {Word(pos[k]) : k \in 1..n}
  <2> HIDE DEF words, X
  <2>7. IsTable(Joined(table, words, outer), V)
    <3>1. words \in [1..n -> X]
      BY ONLY <2>5 DEF X
    <3>2. Packs(table)
      BY DEF Packable
    <3> QED
      BY ONLY <1>2, <2>4, <2>6, <3>1, <3>2, outer \in BOOLEAN, JoinedIs
  <2>8. AreTables(Joined(table, words, outer), imported)
    BY ONLY <1>2, <2>7 DEF AreTables
  <2> QED
    BY ONLY <1>5, <2>3, <2>8
<1>9. CASE Compare
  <2>1. /\ doc' = doc /\ reader' = reader /\ stage' \in {"error", "ready"} /\ imported' = imported
        /\ table' = table \/ \E passing : table' = Filtered(table, passing)
    BY ONLY <1>9 DEF Compare
  <2>2. \A passing : IsTable(Filtered(table, passing), V)
    BY ONLY <1>2, FilteredIs
  <2>3. AreTables(table', imported)
    BY ONLY <1>2, <2>1, <2>2 DEF AreTables
  <2> QED
    BY ONLY <1>3, <2>1, <2>3
<1>10. CASE ConcatImported
  <2>1. /\ doc' = doc /\ reader' = reader /\ stage' \in {"error", "ready"} /\ imported' = imported
        /\ table' = table \/ (SameShape(table, imported) /\ table' = Concat(table, imported))
    BY ONLY <1>10 DEF ConcatImported
  <2>2. SameShape(table, imported) => IsTable(Concat(table, imported), V)
    BY ONLY <1>2, ConcatIs
  <2>3. AreTables(table', imported)
    BY ONLY <1>2, <2>1, <2>2 DEF AreTables
  <2> QED
    BY ONLY <1>3, <2>1, <2>3
<1> QED
  BY <1>6, <1>7, <1>8, <1>9, <1>10

\* Every step.
LEMMA TablesStep == TablesInv /\ Packable /\ [Next]_vars => TablesInv'
<1> SUFFICES ASSUME TablesInv, Packable, [Next]_vars
             PROVE  TablesInv'
  OBVIOUS
<1>1. CASE \/ PushQuote \/ CloseQuote \/ PushQuoted \/ OpenQuote \/ EndField \/ DropReturn \/ EndLine
           \/ PushOther \/ EndText
  BY <1>1, ReadingKeeps
<1>2. CASE BuildCsv \/ BuildJson \/ BuildRows
  BY <1>2, BuildingKeeps
<1>3. CASE Filter \/ Sort \/ Join \/ Compare \/ ConcatImported
  BY <1>3, OperatorsKeep
<1>4. CASE Export
  <2>1. /\ doc' = doc /\ reader' = reader /\ stage' = "reading" /\ table' = table /\ imported' = imported
    BY <1>4 DEF Export
  <2> QED
    BY <2>1 DEF TablesInv
<1>5. CASE Done \/ UNCHANGED vars
  <2>1. /\ doc' = doc /\ reader' = reader /\ stage' = stage /\ table' = table /\ imported' = imported
    BY <1>5 DEF Done, vars
  <2> QED
    BY <2>1 DEF TablesInv
<1> QED
  BY <1>1, <1>2, <1>3, <1>4, <1>5 DEF Next

\* What the invariant says of the table.
LEMMA TablesTyped == TablesInv => TypeOK
<1> SUFFICES ASSUME TablesInv PROVE TypeOK
  OBVIOUS
<1>1. PICK V : HasPlaceholders(V) /\ IsTable(table, V)
  BY DEF TablesInv, AreTables
<1>2. ASSUME NEW b \in DOMAIN table.batches, NEW c \in DOMAIN table.fields
      PROVE  LET a == table.batches[b][c]
             IN  /\ Len(a.values) = RowCount(table.batches[b])
                 /\ a.type = table.fields[c].type
                 /\ a.valid # None => Len(a.valid[1]) = Len(a.values)
                 /\ \A i \in DOMAIN a.values : a.values[i].t = a.type
  <2> DEFINE a == table.batches[b][c]
             type == table.fields[c].type
             W == ValuesOf(type, V)
             n == RowCount(table.batches[b])
  <2>1. IsColumn(a, type, n, W)
    BY <1>1, TableFacts
  <2> HIDE DEF a, type, n, W
  <2>2. a.type = type /\ a.values \in Seq(W) /\ Len(a.values) = n /\ (a.valid # None => Len(a.valid[1]) = n)
    BY ONLY <2>1, ColumnFacts DEF IsColumn
  <2>3. \A i \in DOMAIN a.values : a.values[i] \in W
    BY ONLY <2>2
  <2>4. \A v \in W : v.t = type
    BY DEF W, ValuesOf
  <2> QED
    BY ONLY <2>2, <2>3, <2>4 DEF a, type, n
<1> QED
  BY <1>2 DEF TypeOK, TablesInv

LEMMA TablesCovered == TablesInv => NullableCoversNulls
<1> SUFFICES ASSUME TablesInv, NEW c \in DOMAIN table.fields,
                    NEW k \in DOMAIN RowsOf(table), RowsOf(table)[k][c] = Null
             PROVE  table.fields[c].nullable
  BY DEF NullableCoversNulls
<1>1. PICK V : HasPlaceholders(V) /\ IsTable(table, V)
  BY DEF TablesInv, AreTables
<1> DEFINE b == Positions(table)[k][1]
           r == Positions(table)[k][2]
           v == At(table.batches[b][c], r)
           type == table.fields[c].type
           W == ValuesOf(type, V)
           n == RowCount(table.batches[b])
<1>2. DOMAIN RowsOf(table) = DOMAIN Positions(table)
  BY DEF RowsOf
<1>3. b \in DOMAIN table.batches /\ r \in 1..n
  BY <1>1, <1>2, PositionsAre
<1>4. RowsOf(table)[k][c] = IF v = None THEN Null ELSE v[1]
  BY <1>2 DEF RowsOf
<1> HIDE DEF b, r
<1>5. /\ IsColumn(table.batches[b][c], type, n, W) /\ n \in Nat /\ type \in Types
      /\ v = None => table.fields[c].nullable
  BY <1>1, <1>3, TableFacts
<1> HIDE DEF W, n
<1>6. v \in OptionsOf(W)
  BY ONLY <1>5, AtIs
<1> HIDE DEF v, type
<1>7. v = None
  <2> SUFFICES ASSUME v # None PROVE FALSE
    OBVIOUS
  <2>1. PICK x \in W : v = Some(x)
    BY ONLY <1>6, v # None DEF OptionsOf
  <2>2. v[1] = x /\ x.t = type
    BY ONLY <2>1, Options DEF W, ValuesOf
  <2>3. x = Null
    BY <1>4, <2>2
  <2>4. Null.t = "null"
    BY DEF Null, Value
  <2> QED
    BY ONLY <1>5, <2>2, <2>3, <2>4 DEF Types
<1> QED
  BY ONLY <1>5, <1>7

\* Type correctness: whatever made the table, and whichever rows were picked in whichever way,
\* the columns of a batch are of one length and of the types of the schema, and a validity
\* tells of every row; as long as what is joined fits in the words of `pack`.
THEOREM TablesTypeOK == Spec /\ []Packable => []TypeOK
<1>1. Init => TablesInv
  BY TablesInit
<1>2. TablesInv /\ Packable /\ [Next]_vars => TablesInv'
  BY TablesStep
<1>3. TablesInv => TypeOK
  BY TablesTyped
<1> QED
  BY <1>1, <1>2, <1>3, PTL DEF Spec

\* A column with a NULL is a nullable one: whatever was inferred from a text, padded by an
\* outer join, filtered or put together, readers of other columns need not look for NULLs.
THEOREM NullsAreNullable == Spec /\ []Packable => []NullableCoversNulls
<1>1. Init => TablesInv
  BY TablesInit
<1>2. TablesInv /\ Packable /\ [Next]_vars => TablesInv'
  BY TablesStep
<1>3. TablesInv => NullableCoversNulls
  BY TablesCovered
<1> QED
  BY <1>1, <1>2, <1>3, PTL DEF Spec
=============================================================================
