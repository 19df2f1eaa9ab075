--------------------------- MODULE MessageProofs ---------------------------
(***************************************************************************)
(* Proofs about what goes into the messages of the library.                *)
(*                                                                         *)
(* The conversions of Times and Dates, for all integers, any units of      *)
(* time, any width of the integers and any periods that the code is        *)
(* designed for; the requests of InstanceBuilders after any calls; the way *)
(* of a call through the decorators of Stubs, with any number of tries.    *)
(***************************************************************************)
EXTENDS Times, Dates, InstanceBuilders, Stubs, TLAPS

(***************************************************************************)
(* Division that rounds towards zero.                                      *)
(***************************************************************************)
LEMMA QuotNat ==
  ASSUME NEW a \in Nat, NEW b \in Nat \ {0}
  PROVE  Quot(a, b) = a \div b /\ Rem(a, b) = a % b
  BY SMT DEF Quot, Rem

(***************************************************************************)
(* The calendar counts days from the first of March, in eras of 400 years. *)
(***************************************************************************)
\* The days before year y of an era, and before month mp of a year.
YearStart(y) == 365 * y + (y \div 4) - (y \div 100)
MonthStart(mp) == (153 * mp + 2) \div 5

\* The day yoe years and doy days after the beginning of an era.
Shifted(era, yoe, doy) == era * 146097 + YearStart(yoe) + doy - 719468

\* The last day of an era's year.
LastDay(y) == IF (y + 1) % 4 = 0 /\ ((y + 1) % 100 # 0 \/ y = 399) THEN 365 ELSE 364

\* The year of a day of an era, as CivilDay() finds it.
LEMMA YearOfDay ==
  ASSUME NEW doe \in Int, 0 <= doe, doe <= 146096, NEW y \in Int,
         y = (doe - (doe \div 1460) + (doe \div 36524) - (doe \div 146096)) \div 365
  PROVE  /\ 0 <= y /\ y <= 399
         /\ YearStart(y) <= doe
         /\ doe <= YearStart(y) + LastDay(y)
<1>1. 0 <= y /\ y <= 399
  BY SMT
<1>2. 365 * y + (y \div 4) - (y \div 100) <= doe
  BY SMT
<1>3. CASE y < 399
  <2>1. doe < 365 * (y + 1) + ((y + 1) \div 4) - ((y + 1) \div 100)
    BY <1>3, SMT
  <2>2. 365 * (y + 1) + ((y + 1) \div 4) - ((y + 1) \div 100)
          = 365 * y + (y \div 4) - (y \div 100) + LastDay(y) + 1
    BY <1>1, <1>3, SMT DEF LastDay
  <2> QED
    BY <1>1, <1>2, <2>1, <2>2, SMT DEF YearStart, LastDay
<1>4. CASE y = 399
  BY <1>1, <1>2, <1>4, SMT DEF YearStart, LastDay
<1> QED
  BY <1>1, <1>3, <1>4, SMT

\* ... and the other way round: any day of a year is a day of that year.
LEMMA DayOfYear ==
  ASSUME NEW y \in Int, 0 <= y, y <= 399, NEW doy \in Int, 0 <= doy,
         doy <= LastDay(y), NEW doe \in Int,
         doe = 365 * y + (y \div 4) - (y \div 100) + doy
  PROVE  /\ 0 <= doe /\ doe <= 146096
         /\ y = (doe - (doe \div 1460) + (doe \div 36524) - (doe \div 146096)) \div 365
  BY SMT DEF LastDay

\* Every day has a place in the calendar.
LEMMA PlaceOfDay ==
  ASSUME NEW day \in Int
  PROVE  \E era \in Int, yoe \in 0 .. 399, doy \in 0 .. 365 :
           doy <= LastDay(yoe) /\ day = Shifted(era, yoe, doy)
<1> DEFINE era == (day + 719468) \div 146097
           doe == (day + 719468) % 146097
           y == (doe - (doe \div 1460) + (doe \div 36524) - (doe \div 146096)) \div 365
<1>1. /\ era \in Int /\ doe \in Int /\ 0 <= doe /\ doe <= 146096
      /\ day + 719468 = era * 146097 + doe
  BY SMT
<1>2. y \in Int
  BY <1>1, SMT
<1> HIDE DEF era, doe
<1>3. 0 <= y /\ y <= 399 /\ YearStart(y) <= doe /\ doe <= YearStart(y) + LastDay(y)
  BY <1>1, <1>2, YearOfDay, SMT
<1> HIDE DEF y
<1>4. YearStart(y) \in Int /\ LastDay(y) \in 0 .. 365
  BY <1>2, SMT DEF YearStart, LastDay
<1> DEFINE doy == doe - YearStart(y)
<1>5. doy \in 0 .. 365 /\ doy <= LastDay(y) /\ y \in 0 .. 399
  BY <1>1, <1>2, <1>3, <1>4, SMT
<1>6. day = Shifted(era, y, doy)
  BY <1>1, <1>4, SMT DEF Shifted
<1> HIDE DEF doy
<1> era \in Int /\ y \in 0 .. 399 /\ doy \in 0 .. 365
  BY <1>1, <1>5, SMT
<1> WITNESS era \in Int, y \in 0 .. 399, doy \in 0 .. 365
<1> QED
  BY <1>5, <1>6, SMT

\* The date of a place.
DateAt(era, yoe, doy) ==
  LET mp == (5 * doy + 2) \div 153
      m  == mp + (IF mp < 10 THEN 3 ELSE -9)
  IN [year |-> yoe + era * 400 + (IF m <= 2 THEN 1 ELSE 0), mon |-> m,
      mday |-> doy - MonthStart(mp) + 1]

\* CivilDay() one value at a time.
LEMMA CivilDaySteps ==
  ASSUME NEW day, NEW aday, aday = day + 719468,
         NEW era, era = Quot(IF aday >= 0 THEN aday ELSE aday - 146096, 146097),
         NEW doe, doe = aday - era * 146097,
         NEW yoe, yoe = Quot(doe - Quot(doe, 1460) + Quot(doe, 36524)
                               - Quot(doe, 146096), 365),
         NEW doy, doy = doe - (365 * yoe + Quot(yoe, 4) - Quot(yoe, 100)),
         NEW mp, mp = Quot(5 * doy + 2, 153),
         NEW m, m = mp + (IF mp < 10 THEN 3 ELSE -9)
  PROVE  CivilDay(day) = [year |-> yoe + era * 400 + (IF m <= 2 THEN 1 ELSE 0),
                          mon |-> m, mday |-> doy - Quot(153 * mp + 2, 5) + 1]
  BY SMT DEF CivilDay

LEMMA CivilDayOfPlace ==
  ASSUME NEW era \in Int, NEW yoe \in 0 .. 399, NEW doy \in 0 .. 365,
         doy <= LastDay(yoe)
  PROVE  CivilDay(Shifted(era, yoe, doy)) = DateAt(era, yoe, doy)
<1> DEFINE doe == 365 * yoe + (yoe \div 4) - (yoe \div 100) + doy
           mp == (5 * doy + 2) \div 153
           aday == Shifted(era, yoe, doy) + 719468
           E == Quot(IF aday >= 0 THEN aday ELSE aday - 146096, 146097)
           D == aday - E * 146097
           Y == Quot(D - Quot(D, 1460) + Quot(D, 36524) - Quot(D, 146096), 365)
           O == D - (365 * Y + Quot(Y, 4) - Quot(Y, 100))
           P == Quot(5 * O + 2, 153)
           M == P + (IF P < 10 THEN 3 ELSE -9)
<1>1. CivilDay(Shifted(era, yoe, doy))
        = [year |-> Y + E * 400 + (IF M <= 2 THEN 1 ELSE 0), mon |-> M,
           mday |-> O - Quot(153 * P + 2, 5) + 1]
  BY CivilDaySteps, SMT
<1>2. doe \in Int /\ aday \in Int /\ aday = era * 146097 + doe
  BY SMT DEF Shifted, YearStart
<1>3. /\ 0 <= doe /\ doe <= 146096
      /\ yoe = (doe - (doe \div 1460) + (doe \div 36524) - (doe \div 146096)) \div 365
  BY <1>2, DayOfYear, SMT
<1> HIDE DEF doe, aday
<1>4. E = era
  BY <1>2, <1>3, SMT DEF Quot
<1> HIDE DEF E
<1>5. D = doe
  BY <1>2, <1>4, SMT
<1> HIDE DEF D
<1>6. Y = yoe
  <2>1. doe - (doe \div 1460) + (doe \div 36524) - (doe \div 146096) >= 0
    BY <1>2, <1>3, SMT
  <2>2. Quot(doe, 1460) = doe \div 1460 /\ Quot(doe, 36524) = doe \div 36524
          /\ Quot(doe, 146096) = doe \div 146096
    BY <1>2, <1>3, SMT DEF Quot
  <2> QED
    BY <1>2, <1>3, <1>5, <2>1, <2>2, SMT DEF Quot
<1> HIDE DEF Y
<1>7. O = doy
  BY <1>5, <1>6, SMT DEF Quot, doe
<1> HIDE DEF O
<1>8. P = mp /\ mp \in 0 .. 11
  BY <1>7, SMT DEF Quot
<1> HIDE DEF P, mp
<1>9. Quot(153 * P + 2, 5) = MonthStart(mp)
  BY <1>8, SMT DEF Quot, MonthStart
<1>10. DateAt(era, yoe, doy)
         = LET m == mp + (IF mp < 10 THEN 3 ELSE -9)
           IN [year |-> yoe + era * 400 + (IF m <= 2 THEN 1 ELSE 0), mon |-> m,
               mday |-> doy - MonthStart(mp) + 1]
  BY SMT DEF DateAt, mp
<1> QED
  BY <1>1, <1>4, <1>6, <1>7, <1>8, <1>9, <1>10, SMT

\* DayOf() one value at a time.
LEMMA DayOfSteps ==
  ASSUME NEW y, NEW m, NEW d, NEW eyear, eyear = IF m <= 2 THEN y - 1 ELSE y,
         NEW era, era = Quot(IF eyear >= 0 THEN eyear ELSE eyear - 399, 400),
         NEW yoe, yoe = eyear - era * 400,
         NEW doy, doy = Quot(153 * (m + (IF m > 2 THEN -3 ELSE 9)) + 2, 5) + d - 1,
         NEW doe, doe = yoe * 365 + Quot(yoe, 4) - Quot(yoe, 100) + doy
  PROVE  DayOf(y, m, d) = era * 146097 + doe - 719468
  BY SMT DEF DayOf

\* The month and the year at month mp, counted from March, of a year of an era.
MonthAt(mp) == mp + (IF mp < 10 THEN 3 ELSE -9)
YearAt(era, yoe, mp) == yoe + era * 400 + (IF MonthAt(mp) <= 2 THEN 1 ELSE 0)

LEMMA DayOfPlace ==
  ASSUME NEW era \in Int, NEW yoe \in 0 .. 399, NEW mp \in 0 .. 11, NEW d \in Int
  PROVE  DayOf(YearAt(era, yoe, mp), MonthAt(mp), d)
           = Shifted(era, yoe, MonthStart(mp) + d - 1)
<1> DEFINE m == MonthAt(mp)
           y == YearAt(era, yoe, mp)
           eyear == IF m <= 2 THEN y - 1 ELSE y
           E == Quot(IF eyear >= 0 THEN eyear ELSE eyear - 399, 400)
           Y == eyear - E * 400
           O == Quot(153 * (m + (IF m > 2 THEN -3 ELSE 9)) + 2, 5) + d - 1
           D == Y * 365 + Quot(Y, 4) - Quot(Y, 100) + O
<1>1. DayOf(y, m, d) = E * 146097 + D - 719468
  BY DayOfSteps, SMT
<1>2. eyear = yoe + era * 400 /\ m + (IF m > 2 THEN -3 ELSE 9) = mp
  BY SMT DEF MonthAt, YearAt
<1>3. O = MonthStart(mp) + d - 1
  <2>1. Quot(153 * mp + 2, 5) = MonthStart(mp)
    BY SMT DEF Quot, MonthStart
  <2> QED
    BY <1>2, <2>1, SMT
<1>4. MonthStart(mp) \in Int
  BY SMT DEF MonthStart
<1> HIDE DEF m, y, eyear, O
<1>5. E = era
  BY <1>2, SMT DEF Quot
<1> HIDE DEF E
<1>6. Y = yoe
  BY <1>2, <1>5, SMT
<1> HIDE DEF Y
<1>7. D = YearStart(yoe) + MonthStart(mp) + d - 1
  BY <1>3, <1>4, <1>6, SMT DEF Quot, YearStart
<1>8. YearStart(yoe) \in Int
  BY SMT DEF YearStart
<1> HIDE DEF D
<1>9. E * 146097 + D - 719468 = Shifted(era, yoe, MonthStart(mp) + d - 1)
  BY <1>4, <1>5, <1>7, <1>8, SMT DEF Shifted
<1> QED
  BY <1>1, <1>9, SMT DEF m, y

LEMMA RemZero ==
  ASSUME NEW a \in Int
  PROVE  /\ Rem(a, 4) = 0 <=> a % 4 = 0
         /\ Rem(a, 100) = 0 <=> a % 100 = 0
         /\ Rem(a, 400) = 0 <=> a % 400 = 0
  BY SMT DEF Rem, Quot

LEMMA LeapYearAt ==
  ASSUME NEW era \in Int, NEW yoe \in 0 .. 399
  PROVE  IsLeapYear(yoe + era * 400 + 1) <=> LastDay(yoe) = 365
<1> DEFINE y == yoe + era * 400 + 1
<1>1. /\ y \in Int
      /\ y % 4 = (yoe + 1) % 4
      /\ y % 100 = (yoe + 1) % 100
      /\ y % 400 = 0 <=> yoe = 399
  BY SMT
<1>2. (yoe + 1) % 4 = 0 /\ (yoe + 1) % 100 # 0 => LastDay(yoe) = 365
  BY SMT DEF LastDay
<1>3. /\ Rem(y, 4) = 0 <=> y % 4 = 0
      /\ Rem(y, 100) = 0 <=> y % 100 = 0
      /\ Rem(y, 400) = 0 <=> y % 400 = 0
  BY <1>1, RemZero, SMT
<1> HIDE DEF y
<1>4. IsLeapYear(y) <=> (yoe + 1) % 4 = 0 /\ ((yoe + 1) % 100 # 0 \/ yoe = 399)
  BY <1>1, <1>3, SMT DEF IsLeapYear
<1> QED
  BY <1>4, SMT DEF LastDay, y

\* The months of a year follow each other, and DaysPerMonth() are their
\* lengths.
LEMMA MonthLength ==
  ASSUME NEW era \in Int, NEW yoe \in 0 .. 399, NEW mp \in 0 .. 11
  PROVE  DaysPerMonth(YearAt(era, yoe, mp), MonthAt(mp))
           = IF mp = 11 THEN LastDay(yoe) + 1 - MonthStart(11)
             ELSE MonthStart(mp + 1) - MonthStart(mp)
<1>1. CASE mp = 11
  <2>1. MonthAt(mp) = 2 /\ YearAt(era, yoe, mp) = yoe + era * 400 + 1
    BY <1>1, SMT DEF MonthAt, YearAt
  <2>2. LastDay(yoe) \in {364, 365}
    BY SMT DEF LastDay
  <2>3. DaysPerMonth(yoe + era * 400 + 1, 2)
          = 28 + (IF LastDay(yoe) = 365 THEN 1 ELSE 0)
    <3>1. <<31, 28, 31, 30, 31, 30, 31, 31, 30, 31, 30, 31>>[2] = 28
      BY SMT
    <3>2. IsLeapYear(yoe + era * 400 + 1) <=> LastDay(yoe) = 365
      BY LeapYearAt, Zenon
    <3> QED
      BY <3>1, <3>2, SMT DEF DaysPerMonth
  <2>4. MonthStart(11) = 337
    BY SMT DEF MonthStart
  <2> QED
    BY <1>1, <2>1, <2>2, <2>3, <2>4, SMT
<1>2. CASE mp # 11
  <2>1. MonthAt(mp) \in 1 .. 12 /\ MonthAt(mp) # 2
    BY <1>2, SMT DEF MonthAt
  <2> DEFINE T == <<31, 28, 31, 30, 31, 30, 31, 31, 30, 31, 30, 31>>
  <2>2. MonthStart(mp + 1) - MonthStart(mp) = T[MonthAt(mp)]
    <3>1. /\ T[1] = 31 /\ T[3] = 31 /\ T[4] = 30 /\ T[5] = 31 /\ T[6] = 30
          /\ T[7] = 31 /\ T[8] = 31 /\ T[9] = 30 /\ T[10] = 31 /\ T[11] = 30
          /\ T[12] = 31
      BY SMT
    <3> HIDE DEF T
    <3>2. mp \in 0 .. 10
      BY <1>2, SMT
    <3> QED
      BY <3>1, <3>2, SMT DEF MonthAt, MonthStart
  <2>3. MonthStart(mp + 1) - MonthStart(mp) \in Int
    BY SMT DEF MonthStart
  <2> QED
    BY <1>2, <2>1, <2>2, <2>3, SMT DEF DaysPerMonth
<1> QED
  BY <1>1, <1>2, SMT

\* Every month of every year has a place in the calendar.
LEMMA PlaceOfMonth ==
  ASSUME NEW y \in Int, NEW m \in 1 .. 12
  PROVE  \E era \in Int, yoe \in 0 .. 399, mp \in 0 .. 11 :
           y = YearAt(era, yoe, mp) /\ m = MonthAt(mp)
<1> DEFINE mp == IF m > 2 THEN m - 3 ELSE m + 9
           e == IF m > 2 THEN y ELSE y - 1
           era == e \div 400
           yoe == e % 400
<1>1. mp \in 0 .. 11 /\ m = MonthAt(mp)
  BY SMT DEF MonthAt
<1>2. era \in Int /\ yoe \in 0 .. 399 /\ e = yoe + era * 400
  BY SMT
<1> HIDE DEF era, yoe
<1>3. y = YearAt(era, yoe, mp)
  BY <1>2, SMT DEF YearAt, MonthAt
<1> HIDE DEF mp, e
<1> era \in Int /\ yoe \in 0 .. 399 /\ mp \in 0 .. 11
  BY <1>1, <1>2, SMT
<1> WITNESS era \in Int, yoe \in 0 .. 399, mp \in 0 .. 11
<1> QED
  BY <1>1, <1>3, SMT

(***************************************************************************)
(* CivilDay() and DayOf() are each other's inverse.                        *)
(***************************************************************************)
LEMMA CivilDayIsDate ==
  ASSUME NEW day \in Int
  PROVE  LET date == CivilDay(day)
         IN /\ date.year \in Int /\ IsDate(date.year, date.mon, date.mday)
            /\ date = [year |-> date.year, mon |-> date.mon, mday |-> date.mday]
            /\ DayOf(date.year, date.mon, date.mday) = day
<1>1. PICK era \in Int, yoe \in 0 .. 399, doy \in 0 .. 365 :
        doy <= LastDay(yoe) /\ day = Shifted(era, yoe, doy)
  BY PlaceOfDay, Zenon
<1> DEFINE mp == (5 * doy + 2) \div 153
           d == doy - MonthStart(mp) + 1
<1>2. mp \in 0 .. 11 /\ d \in Int /\ 1 <= d
      /\ (mp < 11 => d <= MonthStart(mp + 1) - MonthStart(mp))
      /\ MonthStart(mp) \in Int
  BY SMT DEF MonthStart
<1>3. DateAt(era, yoe, doy)
        = [year |-> YearAt(era, yoe, mp), mon |-> MonthAt(mp), mday |-> d]
  BY SMT DEF DateAt, YearAt, MonthAt
<1>4. mp = 11 => d = doy + 1 - MonthStart(11)
  BY SMT DEF MonthStart
<1>5. MonthStart(mp) + d - 1 = doy
  BY <1>2, SMT
<1> HIDE DEF mp, d
<1>6. MonthStart(11) = 337 /\ LastDay(yoe) \in Int
  BY SMT DEF MonthStart, LastDay
<1>7. d \in 1 .. DaysPerMonth(YearAt(era, yoe, mp), MonthAt(mp))
  <2> DEFINE n == DaysPerMonth(YearAt(era, yoe, mp), MonthAt(mp))
  <2>0. n = IF mp = 11 THEN LastDay(yoe) + 1 - MonthStart(11)
            ELSE MonthStart(mp + 1) - MonthStart(mp)
    BY <1>2, MonthLength, Zenon
  <2> SUFFICES d \in 1 .. n
    OBVIOUS
  <2> HIDE DEF n
  <2>1. CASE mp = 11
    BY <1>1, <1>2, <1>4, <1>6, <2>0, <2>1, SMT
  <2>2. CASE mp # 11
    <3>1. mp + 1 \in 1 .. 11 /\ MonthStart(mp + 1) \in Int
      BY <1>2, <2>2, SMT DEF MonthStart
    <3> QED
      BY <1>2, <2>0, <2>2, <3>1, SMT
  <2> QED
    BY <2>1, <2>2, SMT
<1>8. MonthAt(mp) \in 1 .. 12 /\ YearAt(era, yoe, mp) \in Int
  BY <1>2, SMT DEF MonthAt, YearAt
<1>9. DayOf(YearAt(era, yoe, mp), MonthAt(mp), d) = day
  BY <1>1, <1>2, <1>5, DayOfPlace, Zenon
<1>10. CivilDay(day) = DateAt(era, yoe, doy)
  BY <1>1, CivilDayOfPlace, Zenon
<1> QED
  BY <1>3, <1>7, <1>8, <1>9, <1>10, SMT DEF IsDate

LEMMA CivilDayOfDate ==
  ASSUME NEW y \in Int, NEW m, NEW d, IsDate(y, m, d)
  PROVE  /\ DayOf(y, m, d) \in Int
         /\ CivilDay(DayOf(y, m, d)) = [year |-> y, mon |-> m, mday |-> d]
<1>1. m \in 1 .. 12
  BY SMT DEF IsDate
<1>2. PICK era \in Int, yoe \in 0 .. 399, mp \in 0 .. 11 :
        y = YearAt(era, yoe, mp) /\ m = MonthAt(mp)
  BY <1>1, PlaceOfMonth, Zenon
<1>3. MonthStart(11) = 337 /\ LastDay(yoe) \in {364, 365}
        /\ MonthStart(mp) \in Int
        /\ (mp < 11 => /\ MonthStart(mp + 1) \in Int /\ MonthStart(mp + 1) <= 337)
        /\ MonthStart(mp) >= 0
  BY SMT DEF MonthStart, LastDay
<1>4. DaysPerMonth(y, m) = IF mp = 11 THEN LastDay(yoe) + 1 - MonthStart(11)
                           ELSE MonthStart(mp + 1) - MonthStart(mp)
  BY <1>2, MonthLength, Zenon
<1> DEFINE doy == MonthStart(mp) + d - 1
<1> DEFINE n == DaysPerMonth(y, m)
<1>n. n \in Int /\ d \in 1 .. n
  <2>1. d \in 1 .. n
    BY SMT DEF IsDate
  <2> HIDE DEF n
  <2> QED
    BY <1>3, <1>4, <2>1, SMT DEF n
<1> HIDE DEF n
<1>5. d \in Int /\ 1 <= d /\ doy \in 0 .. 365 /\ doy <= LastDay(yoe)
  <2>1. n = IF mp = 11 THEN LastDay(yoe) + 1 - MonthStart(11)
            ELSE MonthStart(mp + 1) - MonthStart(mp)
    BY <1>4, SMT DEF n
  <2>2. CASE mp = 11
    BY <1>3, <1>n, <2>1, <2>2, SMT
  <2>3. CASE mp # 11
    <3>1. mp < 11
      BY <2>3, SMT
    <3>2. /\ MonthStart(mp) \in Int /\ MonthStart(mp + 1) \in Int
          /\ 0 <= MonthStart(mp) /\ MonthStart(mp + 1) <= 337
      BY <1>3, <3>1, SMT
    <3>3. n = MonthStart(mp + 1) - MonthStart(mp)
      BY <2>1, <2>3, SMT
    <3>4. LastDay(yoe) \in Int /\ 364 <= LastDay(yoe)
      BY <1>3, SMT
    <3> QED
      BY <1>n, <3>2, <3>3, <3>4, SMT
  <2> QED
    BY <2>2, <2>3, SMT
<1>6. (5 * doy + 2) \div 153 = mp
  <2>1. CASE mp = 11
    BY <1>3, <1>5, <2>1, SMT
  <2>2. CASE mp # 11
    <3>1. doy < MonthStart(mp + 1)
      BY <1>3, <1>4, <1>5, <2>2, SMT DEF IsDate
    <3>2. doy >= MonthStart(mp)
      BY <1>3, <1>5, SMT
    <3> HIDE DEF doy
    <3> QED
      BY <1>5, <2>2, <3>1, <3>2, SMT DEF MonthStart
  <2> QED
    BY <2>1, <2>2, SMT
<1>7. doy - MonthStart(mp) + 1 = d
  BY <1>3, <1>5, SMT
<1>8. DayOf(y, m, d) = Shifted(era, yoe, doy)
  BY <1>2, <1>5, DayOfPlace, Zenon
<1> HIDE DEF doy
<1>9. CivilDay(DayOf(y, m, d)) = DateAt(era, yoe, doy)
  BY <1>5, <1>8, CivilDayOfPlace, Zenon
<1>10. DateAt(era, yoe, doy) = [year |-> y, mon |-> m, mday |-> d]
  BY <1>2, <1>6, <1>7, SMT DEF DateAt, YearAt, MonthAt
<1>11. DayOf(y, m, d) \in Int
  BY <1>5, <1>8, SMT DEF Shifted, YearStart
<1> QED
  BY <1>9, <1>10, <1>11, SMT

\* Days of a month, whatever their number, follow its first day.
LEMMA DaysOfMonth ==
  ASSUME NEW y \in Int, NEW m \in 1 .. 12, NEW d \in Int
  PROVE  DayOf(y, m, 1) \in Int /\ DayOf(y, m, d) = DayOf(y, m, 1) + d - 1
<1>1. PICK era \in Int, yoe \in 0 .. 399, mp \in 0 .. 11 :
        y = YearAt(era, yoe, mp) /\ m = MonthAt(mp)
  BY PlaceOfMonth, ZenonT(60)
<1>2. MonthStart(mp) \in Int /\ YearStart(yoe) \in Int /\ 1 \in Int
  BY SMT DEF MonthStart, YearStart
<1>3. DayOf(YearAt(era, yoe, mp), MonthAt(mp), d)
        = Shifted(era, yoe, MonthStart(mp) + d - 1)
  BY DayOfPlace, Zenon
<1>4. DayOf(YearAt(era, yoe, mp), MonthAt(mp), 1)
        = Shifted(era, yoe, MonthStart(mp) + 1 - 1)
  BY <1>2, DayOfPlace, Zenon
<1> QED
  BY <1>1, <1>2, <1>3, <1>4, SMT DEF Shifted

\* 400 years are 146097 days.
LEMMA ErasFollow ==
  ASSUME NEW y \in Int, NEW m \in 1 .. 12, NEW k \in Int
  PROVE  DayOf(y + 400 * k, m, 1) = DayOf(y, m, 1) + 146097 * k
<1>1. PICK era \in Int, yoe \in 0 .. 399, mp \in 0 .. 11 :
        y = YearAt(era, yoe, mp) /\ m = MonthAt(mp)
  BY PlaceOfMonth, ZenonT(60)
<1>2. y + 400 * k = YearAt(era + k, yoe, mp)
  BY <1>1, SMT DEF YearAt, MonthAt
<1>3. MonthStart(mp) \in Int /\ YearStart(yoe) \in Int /\ 1 \in Int /\ era + k \in Int
  BY SMT DEF MonthStart, YearStart
<1>4. DayOf(YearAt(era, yoe, mp), MonthAt(mp), 1)
        = Shifted(era, yoe, MonthStart(mp) + 1 - 1)
  BY <1>3, DayOfPlace, Zenon
<1>5. DayOf(YearAt(era + k, yoe, mp), MonthAt(mp), 1)
        = Shifted(era + k, yoe, MonthStart(mp) + 1 - 1)
  BY <1>3, DayOfPlace, Zenon
<1> QED
  BY <1>1, <1>2, <1>3, <1>4, <1>5, SMT DEF Shifted

LEMMA MonthsFollow ==
  ASSUME NEW y \in Int, NEW m \in 1 .. 12
  PROVE  LET next == NextMonth(y, m)
         IN /\ next.year \in Int /\ next.mon \in 1 .. 12
            /\ DaysPerMonth(y, m) \in 28 .. 31
            /\ DayOf(next.year, next.mon, 1) = DayOf(y, m, 1) + DaysPerMonth(y, m)
<1>1. PICK era \in Int, yoe \in 0 .. 399, mp \in 0 .. 11 :
        y = YearAt(era, yoe, mp) /\ m = MonthAt(mp)
  BY PlaceOfMonth, Zenon
<1> DEFINE E == IF mp = 11 /\ yoe = 399 THEN era + 1 ELSE era
           Y == IF mp = 11 THEN (IF yoe = 399 THEN 0 ELSE yoe + 1) ELSE yoe
           P == IF mp = 11 THEN 0 ELSE mp + 1
<1>2. E \in Int /\ Y \in 0 .. 399 /\ P \in 0 .. 11 /\ 1 \in Int
  BY SMT
<1>3. NextMonth(y, m) = [year |-> YearAt(E, Y, P), mon |-> MonthAt(P)]
  BY <1>1, SMT DEF NextMonth, YearAt, MonthAt
<1>4. DayOf(y, m, 1) = Shifted(era, yoe, MonthStart(mp) + 1 - 1)
  <2>1. DayOf(YearAt(era, yoe, mp), MonthAt(mp), 1)
          = Shifted(era, yoe, MonthStart(mp) + 1 - 1)
    <3>1. 1 \in Int
      BY SMT
    <3> QED
      BY <3>1, DayOfPlace, Zenon
  <2> QED
    BY <1>1, <2>1, SMT
<1>5. DayOf(YearAt(E, Y, P), MonthAt(P), 1) = Shifted(E, Y, MonthStart(P) + 1 - 1)
  <2> HIDE DEF E, Y, P
  <2> QED
    BY <1>2, DayOfPlace, Zenon
<1>6. DaysPerMonth(y, m) = IF mp = 11 THEN LastDay(yoe) + 1 - MonthStart(11)
                           ELSE MonthStart(mp + 1) - MonthStart(mp)
  BY <1>1, MonthLength, Zenon
<1>7. DaysPerMonth(y, m) \in 28 .. 31
  BY <1>6, SMT DEF LastDay, MonthStart
<1>8. Shifted(E, Y, MonthStart(P) + 1 - 1)
        = Shifted(era, yoe, MonthStart(mp) + 1 - 1) + DaysPerMonth(y, m)
  <2>1. CASE mp = 11
    BY <1>6, <2>1, SMT DEF Shifted, LastDay, YearStart, MonthStart
  <2>2. CASE mp # 11
    BY <1>6, <2>2, SMT DEF Shifted, YearStart, MonthStart
  <2> QED
    BY <2>1, <2>2, SMT
<1>9. YearAt(E, Y, P) \in Int /\ MonthAt(P) \in 1 .. 12
  BY <1>2, SMT DEF YearAt, MonthAt
<1> HIDE DEF E, Y, P
<1> QED
  BY <1>3, <1>4, <1>5, <1>7, <1>8, <1>9, SMT

\* The day after a day is the next one of its month, or the first of the next.
LEMMA CivilDayFollows ==
  ASSUME NEW day \in Int
  PROVE  CivilDay(day + 1) = NextDay(CivilDay(day))
<1> DEFINE date == CivilDay(day)
<1>1. /\ date.year \in Int /\ IsDate(date.year, date.mon, date.mday)
      /\ date = [year |-> date.year, mon |-> date.mon, mday |-> date.mday]
      /\ DayOf(date.year, date.mon, date.mday) = day
  BY CivilDayIsDate, SMT
<1> HIDE DEF date
<1> DEFINE y == date.year
           m == date.mon
           d == date.mday
<1>2. m \in 1 .. 12 /\ d \in Int /\ 1 <= d /\ y \in Int
        /\ DaysPerMonth(y, m) \in 28 .. 31 /\ d <= DaysPerMonth(y, m)
  BY <1>1, MonthsFollow, SMT DEF IsDate
<1>3. date = [year |-> y, mon |-> m, mday |-> d] /\ DayOf(y, m, d) = day
  BY <1>1, SMT
<1> HIDE DEF y, m, d
<1>4. DayOf(y, m, 1) \in Int /\ day = DayOf(y, m, 1) + d - 1
        /\ DayOf(y, m, d + 1) = DayOf(y, m, 1) + d
  <2>1. d + 1 \in Int
    BY <1>2, SMT
  <2>2. DayOf(y, m, 1) \in Int /\ DayOf(y, m, d) = DayOf(y, m, 1) + d - 1
          /\ DayOf(y, m, d + 1) = DayOf(y, m, 1) + (d + 1) - 1
    BY <1>2, <2>1, DaysOfMonth, Zenon
  <2> QED
    BY <1>2, <1>3, <2>2, SMT
<1>5. CASE d < DaysPerMonth(y, m)
  <2>1. IsDate(y, m, d + 1)
    BY <1>2, <1>5, SMT DEF IsDate
  <2>2. CivilDay(day + 1) = [year |-> y, mon |-> m, mday |-> d + 1]
    BY <1>2, <1>4, <2>1, CivilDayOfDate, SMT
  <2> QED
    BY <1>3, <1>5, <2>2, SMT DEF NextDay, date
<1>6. CASE ~(d < DaysPerMonth(y, m))
  <2> DEFINE next == NextMonth(y, m)
  <2>1. /\ next.year \in Int /\ next.mon \in 1 .. 12
        /\ DayOf(next.year, next.mon, 1) = day + 1
    <3>1. /\ next.year \in Int /\ next.mon \in 1 .. 12
          /\ DayOf(next.year, next.mon, 1) = DayOf(y, m, 1) + DaysPerMonth(y, m)
      BY <1>2, MonthsFollow, Zenon
    <3> QED
      BY <1>2, <1>4, <1>6, <3>1, SMT
  <2> HIDE DEF next
  <2>2. IsDate(next.year, next.mon, 1)
    <3>1. DaysPerMonth(next.year, next.mon) \in 28 .. 31
      BY <2>1, MonthsFollow, Zenon
    <3> QED
      BY <2>1, <3>1, SMT DEF IsDate
  <2>3. CivilDay(day + 1) = [year |-> next.year, mon |-> next.mon, mday |-> 1]
    BY <2>1, <2>2, CivilDayOfDate, SMT
  <2> QED
    BY <1>2, <1>3, <1>6, <2>3, SMT DEF NextDay, NextMonth, next, date
<1> QED
  BY <1>5, <1>6, SMT

(***************************************************************************)
(* The constructor of Date.                                                *)
(***************************************************************************)
\* The year and the month that the arguments mean, whatever the day.
ArgsYear == args.year + ((args.month - 1) \div 12)
ArgsMonth == ((args.month - 1) % 12) + 1

\* The statements before the loop leave a month of the right year, and the
\* rounds of the loop do not change the day that the members say.
DateInv ==
  /\ args \in [year : Int, month : Int, day : Int]
  /\ year_ \in Int /\ month_ \in Int /\ day_ \in Int
  /\ pc \in {"months", "days", "carry", "done"}
  /\ pc = "months" => year_ = args.year /\ month_ = args.month /\ day_ = args.day
  /\ pc = "days" => year_ = ArgsYear /\ month_ = ArgsMonth /\ day_ = args.day
  /\ pc \in {"carry", "done"} =>
       /\ month_ \in 1 .. 12 /\ 1 <= day_
       /\ DayOf(year_, month_, 1) + day_ = DayOf(ArgsYear, ArgsMonth, 1) + args.day
  /\ pc = "done" => day_ <= DaysPerMonth(year_, month_)

LEMMA ArgsMonthOk ==
  ASSUME args \in [year : Int, month : Int, day : Int]
  PROVE  /\ ArgsYear \in Int /\ ArgsMonth \in 1 .. 12
         /\ DayOf(ArgsYear, ArgsMonth, 1) \in Int
<1>1. ArgsYear \in Int /\ ArgsMonth \in 1 .. 12 /\ 1 \in Int
  BY SMT DEF ArgsYear, ArgsMonth
<1> QED
  BY <1>1, DaysOfMonth, Zenon

LEMMA NormalMonthIsMonth ==
  ASSUME NEW y \in Int, NEW m \in Int
  PROVE  NormalMonth(y, m) = [year |-> y + ((m - 1) \div 12),
                              mon |-> ((m - 1) % 12) + 1]
<1> DEFINE q == Quot(m, 12)
<1>1. q \in Int /\ Rem(m, 12) = m - 12 * q
      /\ (m >= 0 => 12 * q <= m /\ m < 12 * q + 12)
      /\ (m < 0 => 12 * q >= m /\ m > 12 * q - 12)
  BY SMT DEF Quot, Rem
<1> HIDE DEF q
<1>2. CASE Rem(m, 12) <= 0
  <2>1. (m - 1) \div 12 = q - 1 /\ (m - 1) % 12 = m - 12 * q + 11
    BY <1>1, <1>2, SMT
  <2> QED
    BY <1>1, <1>2, <2>1, SMT DEF NormalMonth, q
<1>3. CASE ~(Rem(m, 12) <= 0)
  <2>1. (m - 1) \div 12 = q /\ (m - 1) % 12 = m - 12 * q - 1
    BY <1>1, <1>3, SMT
  <2> QED
    BY <1>1, <1>3, <2>1, SMT DEF NormalMonth, q
<1> QED
  BY <1>2, <1>3, SMT

LEMMA DateInvInit ==
  ASSUME DateInit
  PROVE  DateInv
  BY DatesAssumption, SMT DEF DateInit, DateInv

LEMMA DateInvNext ==
  ASSUME DateInv, [DateNext]_dateVars
  PROVE  DateInv'
<1>1. CASE NormaliseMonth
  <2>1. NormalMonth(year_, month_) = [year |-> ArgsYear, mon |-> ArgsMonth]
    <3>1. NormalMonth(args.year, args.month)
            = [year |-> ArgsYear, mon |-> ArgsMonth]
      <4>1. args.year \in Int /\ args.month \in Int
        BY SMT DEF DateInv
      <4> QED
        BY <4>1, NormalMonthIsMonth, Zenon DEF ArgsYear, ArgsMonth
    <3> QED
      BY <1>1, <3>1, SMT DEF DateInv, NormaliseMonth
  <2>2. ArgsYear \in Int /\ ArgsMonth \in Int /\ ArgsYear' = ArgsYear
          /\ ArgsMonth' = ArgsMonth
    BY <1>1, SMT DEF DateInv, ArgsYear, ArgsMonth, NormaliseMonth
  <2> QED
    BY <1>1, <2>1, <2>2, SMT DEF DateInv, NormaliseMonth
<1>2. CASE NormaliseDay
  <2> DEFINE q == Quot(day_, 146097)
             r == Rem(day_, 146097)
  <2>1. q \in Int /\ r \in Int /\ day_ = 146097 * q + r /\ r < 146097 /\ r > -146097
    BY <1>2, SMT DEF DateInv, Quot, Rem
  <2>2. PICK k \in Int : /\ year_' = year_ + 400 * k /\ day_' = day_ - 146097 * k
                         /\ 1 <= day_'
    <3>1. CASE r <= 0
      <4>1. /\ q - 1 \in Int /\ year_' = year_ + 400 * (q - 1)
            /\ day_' = day_ - 146097 * (q - 1) /\ 1 <= day_'
        <5> HIDE DEF q, r
        <5>1. year_' = year_ + 400 * q - 400 /\ day_' = r + 146097
          BY <1>2, <2>1, <3>1, SMT DEF NormaliseDay, DateInv, q, r
        <5> QED
          BY <2>1, <3>1, <5>1, SMT DEF DateInv
      <4> QED
        BY <4>1, SMT
    <3>2. CASE ~(r <= 0)
      <4>1. /\ q \in Int /\ year_' = year_ + 400 * q
            /\ day_' = day_ - 146097 * q /\ 1 <= day_'
        <5> HIDE DEF q, r
        <5>1. year_' = year_ + 400 * q /\ day_' = r
          BY <1>2, <3>2, SMT DEF NormaliseDay, q, r
        <5> QED
          BY <2>1, <3>2, <5>1, SMT DEF DateInv
      <4> QED
        BY <4>1, SMT
    <3> QED
      BY <3>1, <3>2, SMT
  <2>3. /\ ArgsYear \in Int /\ ArgsMonth \in 1 .. 12
        /\ DayOf(ArgsYear, ArgsMonth, 1) \in Int
    BY ArgsMonthOk, SMT DEF DateInv
  <2>4. ArgsYear' = ArgsYear /\ ArgsMonth' = ArgsMonth
    BY <1>2, SMT DEF ArgsYear, ArgsMonth, NormaliseDay
  <2>5. DayOf(ArgsYear + 400 * k, ArgsMonth, 1)
          = DayOf(ArgsYear, ArgsMonth, 1) + 146097 * k
    BY <2>3, ErasFollow, SMT
  <2>6. year_ = ArgsYear /\ month_ = ArgsMonth /\ day_ = args.day
    BY <1>2, SMT DEF DateInv, NormaliseDay
  <2>7. /\ month_' = month_ /\ args' = args /\ pc' = "carry"
    BY <1>2, SMT DEF NormaliseDay
  <2>8. DayOf(year_, month_, 1)' = DayOf(ArgsYear + 400 * k, ArgsMonth, 1)
    BY <2>2, <2>6, <2>7, SMT DEF DayOf
  <2> QED
    BY <2>2, <2>3, <2>4, <2>5, <2>6, <2>7, <2>8, SMT DEF DateInv
<1>3. CASE CarryDays
  <2> DEFINE next == NextMonth(year_, month_)
             n == DaysPerMonth(year_, month_)
  <2>1. year_ \in Int /\ month_ \in 1 .. 12 /\ day_ \in Int /\ 1 <= day_ /\ 1 \in Int
    BY <1>3, SMT DEF DateInv, CarryDays
  <2>2. /\ next.year \in Int /\ next.mon \in 1 .. 12 /\ n \in 28 .. 31
        /\ DayOf(next.year, next.mon, 1) = DayOf(year_, month_, 1) + n
    BY <2>1, MonthsFollow, Zenon
  <2>3. DayOf(year_, month_, 1) \in Int
    BY <2>1, DaysOfMonth, Zenon
  <2>4. day_ > n /\ day_' = day_ - n /\ year_' = next.year /\ month_' = next.mon
    BY <1>3, SMT DEF CarryDays, Exceeds, DaysLeft
  <2>5. DayOf(year_, month_, 1)' = DayOf(next.year, next.mon, 1)
    BY <2>4, SMT DEF DayOf
  <2>6. /\ args' = args /\ pc' = "carry" /\ pc = "carry"
        /\ ArgsYear' = ArgsYear /\ ArgsMonth' = ArgsMonth
    BY <1>3, SMT DEF CarryDays, ArgsYear, ArgsMonth
  <2>7. DayOf(ArgsYear, ArgsMonth, 1) \in Int /\ args.day \in Int
    BY ArgsMonthOk, SMT DEF DateInv
  <2>8. DayOf(year_, month_, 1) + day_ = DayOf(ArgsYear, ArgsMonth, 1) + args.day
    BY <2>6, SMT DEF DateInv
  <2> HIDE DEF next, n
  <2>9. /\ day_' \in Int /\ 1 <= day_'
        /\ DayOf(year_, month_, 1)' + day_' = DayOf(ArgsYear, ArgsMonth, 1) + args.day
    BY <2>1, <2>2, <2>3, <2>4, <2>5, <2>7, <2>8, SMT
  <2>10. DayOf(ArgsYear, ArgsMonth, 1)' = DayOf(ArgsYear, ArgsMonth, 1)
    BY <2>6, SMT DEF DayOf
  <2> QED
    BY <2>2, <2>4, <2>6, <2>9, <2>10, SMT DEF DateInv
<1>4. CASE Return
  <2>1. DaysPerMonth(year_, month_) \in 28 .. 31
    BY <1>4, MonthsFollow, SMT DEF DateInv, Return
  <2> QED
    BY <1>4, <2>1, SMT DEF DateInv, Return, Exceeds, ArgsYear, ArgsMonth
<1>5. CASE UNCHANGED dateVars
  BY <1>5, SMT DEF DateInv, dateVars, ArgsYear, ArgsMonth
<1> QED
  BY <1>1, <1>2, <1>3, <1>4, <1>5, SMT DEF DateNext

\* Whatever the constructor of Date is called with, the invariant holds
\* between its statements.
LEMMA DateInvAlways == DateSpec => []DateInv
<1>1. DateInit => DateInv
  BY DateInvInit
<1>2. DateInv /\ [DateNext]_dateVars => DateInv'
  BY DateInvNext
<1> QED
  BY <1>1, <1>2, PTL DEF DateSpec

\* The members of a Date that has been made are a date, and they are the
\* only date of that day.
LEMMA DateIsDate ==
  ASSUME DateInv, pc = "done"
  PROVE  /\ IsDate(year_, month_, day_)
         /\ [year |-> year_, mon |-> month_, mday |-> day_]
              = CivilDay(DayOf(ArgsYear, ArgsMonth, 1) + args.day - 1)
<1>1. /\ year_ \in Int /\ month_ \in 1 .. 12 /\ day_ \in Int /\ args.day \in Int
      /\ 1 <= day_ /\ day_ <= DaysPerMonth(year_, month_)
      /\ DayOf(year_, month_, 1) + day_ = DayOf(ArgsYear, ArgsMonth, 1) + args.day
  BY SMT DEF DateInv
<1>2. DaysPerMonth(year_, month_) \in 28 .. 31
  BY <1>1, MonthsFollow, Zenon
<1>3. IsDate(year_, month_, day_)
  BY <1>1, <1>2, SMT DEF IsDate
<1>4. CivilDay(DayOf(year_, month_, day_))
        = [year |-> year_, mon |-> month_, mday |-> day_]
  BY <1>1, <1>3, CivilDayOfDate, Zenon
<1>5. DayOf(year_, month_, 1) \in Int
        /\ DayOf(year_, month_, day_) = DayOf(year_, month_, 1) + day_ - 1
  BY <1>1, DaysOfMonth, Zenon
<1>6. DayOf(ArgsYear, ArgsMonth, 1) \in Int
  BY ArgsMonthOk, SMT DEF DateInv
<1>7. DayOf(year_, month_, day_) = DayOf(ArgsYear, ArgsMonth, 1) + args.day - 1
  BY <1>1, <1>5, <1>6, SMT
<1> QED
  BY <1>3, <1>4, <1>7, SMT

\* A Date made of any three integers is the day that the calendar of
\* timestamp.cc counts from them: the first of the month that the first two
\* mean, and that many days later.
THEOREM DateAlwaysNormal == DateSpec => []DateIsNormal
<1>1. DateInv => DateIsNormal
  <2> SUFFICES ASSUME DateInv, pc = "done"
               PROVE  [year |-> year_, mon |-> month_, mday |-> day_]
                        = CivilDay(DayOf(ArgsYear, ArgsMonth, 1) + args.day - 1)
    BY SMT DEF DateIsNormal, ArgsYear, ArgsMonth
  <2> QED
    BY DateIsDate, Zenon
<1> QED
  BY <1>1, DateInvAlways, PTL

\* DateFromString() accepts the numbers of a date, whatever year, month and
\* day they are, and no others, and it returns that date.
THEOREM DateTextAlwaysAgrees == DateSpec => []DateTextAgrees
<1>1. DateInv => DateTextAgrees
  <2> SUFFICES ASSUME DateInv, pc = "done"
               PROVE  /\ Accepts <=> IsDate(args.year, args.month, args.day)
                      /\ Accepts => year_ = args.year
    BY SMT DEF DateTextAgrees
  <2>1. /\ IsDate(year_, month_, day_)
        /\ [year |-> year_, mon |-> month_, mday |-> day_]
             = CivilDay(DayOf(ArgsYear, ArgsMonth, 1) + args.day - 1)
    BY DateIsDate, Zenon
  <2>2. /\ year_ \in Int /\ day_ \in Int
        /\ args.year \in Int /\ args.month \in Int /\ args.day \in Int
    BY SMT DEF DateInv
  <2>3. args.month \in 1 .. 12 => ArgsYear = args.year /\ ArgsMonth = args.month
    BY <2>2, SMT DEF ArgsYear, ArgsMonth
  <2>4. IsDate(args.year, args.month, args.day) => Accepts
    <3> SUFFICES ASSUME IsDate(args.year, args.month, args.day)
                 PROVE  Accepts
      OBVIOUS
    <3>1. args.month \in 1 .. 12
      BY SMT DEF IsDate
    <3>2. DayOf(args.year, args.month, args.day)
            = DayOf(args.year, args.month, 1) + args.day - 1
      BY <2>2, <3>1, DaysOfMonth, Zenon
    <3>3. CivilDay(DayOf(args.year, args.month, args.day))
            = [year |-> args.year, mon |-> args.month, mday |-> args.day]
      BY <2>2, CivilDayOfDate, Zenon
    <3>4. [year |-> year_, mon |-> month_, mday |-> day_]
            = [year |-> args.year, mon |-> args.month, mday |-> args.day]
      BY <2>1, <2>3, <3>1, <3>2, <3>3, SMT
    <3> QED
      BY <3>4, SMT DEF Accepts
  <2>5. Accepts => year_ = args.year
    <3> SUFFICES ASSUME Accepts
                 PROVE  year_ = args.year
      OBVIOUS
    <3>1. month_ = args.month /\ day_ = args.day /\ args.month \in 1 .. 12
      BY <2>1, SMT DEF Accepts, IsDate
    <3>2. DayOf(year_, month_, 1) + day_ = DayOf(args.year, month_, 1) + day_
      BY <2>3, <3>1, SMT DEF DateInv
    <3>3. /\ DayOf(year_, month_, 1) \in Int /\ DayOf(args.year, month_, 1) \in Int
      BY <2>2, <3>1, DaysOfMonth, Zenon
    <3>4. DayOf(year_, month_, 1) = DayOf(args.year, month_, 1)
      <4> DEFINE a == DayOf(year_, month_, 1)
                 b == DayOf(args.year, month_, 1)
      <4>1. a \in Int /\ b \in Int /\ day_ \in Int /\ a + day_ = b + day_
        BY <2>2, <3>2, <3>3, Zenon
      <4> HIDE DEF a, b
      <4>2. a = b
        BY <4>1, SMT
      <4> QED
        BY <4>2, Zenon DEF a, b
    <3>5. IsDate(year_, month_, 1) /\ IsDate(args.year, month_, 1)
      <4>1. /\ DaysPerMonth(year_, month_) \in 28 .. 31
            /\ DaysPerMonth(args.year, month_) \in 28 .. 31
        BY <2>2, <3>1, MonthsFollow, Zenon
      <4> QED
        BY <3>1, <4>1, SMT DEF IsDate
    <3>6. /\ CivilDay(DayOf(year_, month_, 1))
               = [year |-> year_, mon |-> month_, mday |-> 1]
          /\ CivilDay(DayOf(args.year, month_, 1))
               = [year |-> args.year, mon |-> month_, mday |-> 1]
      BY <2>2, <3>5, CivilDayOfDate, Zenon
    <3>7. [year |-> year_, mon |-> month_, mday |-> 1]
            = [year |-> args.year, mon |-> month_, mday |-> 1]
      BY <3>4, <3>6, SMT
    <3> QED
      BY <3>7, SMT
  <2>6. Accepts => IsDate(args.year, args.month, args.day)
    BY <2>1, <2>5, SMT DEF Accepts
  <2> QED
    BY <2>4, <2>5, <2>6, Zenon
<1> QED
  BY <1>1, DateInvAlways, PTL

\* Dates and the texts of dates agree with the calendar of timestamps.
THEOREM DatesAlwaysAgree == DateSpec => []DatesAgree
  BY DateAlwaysNormal, DateTextAlwaysAgrees, PTL DEF DatesAgree

\* Every round of the constructor's loop leaves fewer days, and at least one:
\* the loop cannot miss its end.
THEOREM DaysAlwaysRunOut == DateSpec => DaysRunOut
<1>1. DateInv /\ [DateNext]_dateVars
        => [pc = "carry" /\ pc' = "carry" => day_' \in 1 .. day_ - 1]_dateVars
  <2> SUFFICES ASSUME DateInv, DateNext, pc = "carry", pc' = "carry"
               PROVE  day_' \in 1 .. day_ - 1
    BY SMT
  <2>1. CarryDays
    BY SMT DEF DateNext, NormaliseMonth, NormaliseDay, Return
  <2>2. year_ \in Int /\ month_ \in 1 .. 12 /\ day_ \in Int
    BY SMT DEF DateInv
  <2>3. DaysPerMonth(year_, month_) \in 28 .. 31
    BY <2>2, MonthsFollow, Zenon
  <2> QED
    BY <2>1, <2>2, <2>3, SMT DEF CarryDays, Exceeds, DaysLeft
<1> QED
  BY <1>1, DateInvAlways, PTL DEF DateSpec, DaysRunOut

(***************************************************************************)
(* Division by numbers that are not known.                                 *)
(***************************************************************************)
LEMMA Times1 ==
  ASSUME NEW a \in Int, NEW b \in Int, 0 <= a, 1 <= b
  PROVE  a <= a * b /\ a * b \in Int
  BY SMT

LEMMA DivMod ==
  ASSUME NEW a \in Int, NEW b \in Int, 1 <= b
  PROVE  /\ a \div b \in Int /\ a % b \in Int
         /\ a = b * (a \div b) + (a % b)
         /\ 0 <= a % b /\ a % b < b
  BY SMT

\* A multiple of b less than b away from another is that other one.
LEMMA MultiplesApart ==
  ASSUME NEW b \in Int, 1 <= b, NEW q \in Int, NEW p \in Int, b * q < b * p + b
  PROVE  q <= p
<1> SUFFICES ASSUME q > p
             PROVE  FALSE
  BY SMT
<1>1. b * (q - p) = b * q - b * p /\ b * q \in Int /\ b * p \in Int
  BY SMT
<1>2. b <= b * (q - p)
  <2>1. q - p \in Int /\ 1 <= q - p /\ 0 <= b
    BY SMT
  <2> QED
    BY <2>1, Times1, Zenon
<1> QED
  BY <1>1, <1>2, SMT

LEMMA DivModUnique ==
  ASSUME NEW a \in Int, NEW b \in Int, 1 <= b, NEW q \in Int, NEW r \in Int,
         0 <= r, r < b, a = b * q + r
  PROVE  a \div b = q /\ a % b = r
<1> DEFINE p == a \div b
           t == a % b
<1>1. p \in Int /\ t \in Int /\ a = b * p + t /\ 0 <= t /\ t < b
  BY DivMod, Zenon
<1> HIDE DEF p, t
<1>2. b * q \in Int /\ b * p \in Int
  BY <1>1, SMT
<1>3. b * q < b * p + b /\ b * p < b * q + b
  BY <1>1, <1>2, SMT
<1>4. q <= p /\ p <= q
  BY <1>1, <1>3, MultiplesApart, Zenon
<1>5. p = q
  BY <1>1, <1>4, SMT
<1>6. t = r
  BY <1>1, <1>2, <1>5, SMT
<1> QED
  BY <1>5, <1>6, Zenon DEF p, t

LEMMA DivOfSum ==
  ASSUME NEW b \in Int, 1 <= b, NEW q \in Int, NEW r \in Int, 0 <= r, r < b
  PROVE  (b * q + r) \div b = q
<1>1. b * q + r \in Int
  BY SMT
<1> QED
  BY <1>1, DivModUnique, Zenon

LEMMA DivSelf ==
  ASSUME NEW b \in Int, 1 <= b
  PROVE  b \div b = 1
<1>1. 1 \in Int /\ 0 \in Int /\ 0 <= 0 /\ 0 < b
  BY SMT
<1>2. (b * 1 + 0) \div b = 1
  BY <1>1, DivOfSum, Zenon
<1>3. b * 1 + 0 = b
  BY SMT
<1> QED
  BY <1>2, <1>3, SMT

\* A quotient in C++ is nearer to zero than the number it is of.
LEMMA QuotRem ==
  ASSUME NEW a \in Int, NEW b \in Int, 1 <= b
  PROVE  /\ Quot(a, b) \in Int /\ Rem(a, b) \in Int
         /\ a = b * Quot(a, b) + Rem(a, b)
         /\ a >= 0 => Quot(a, b) = a \div b /\ Rem(a, b) = a % b
         /\ a >= 0 => 0 <= Rem(a, b) /\ Rem(a, b) < b /\ 0 <= Quot(a, b)
         /\ a <= 0 => -b < Rem(a, b) /\ Rem(a, b) <= 0 /\ Quot(a, b) <= 0
<1>1. CASE a >= 0
  <2> DEFINE q == a \div b
             r == a % b
  <2>1. q \in Int /\ r \in Int /\ a = b * q + r /\ 0 <= r /\ r < b
    BY DivMod, Zenon
  <2>2. Quot(a, b) = q
    BY <1>1, SMT DEF Quot
  <2>3. a = 0 => r = 0 /\ q = 0
    BY SMT
  <2> HIDE DEF q, r
  <2>4. b * q \in Int
    BY <2>1, SMT
  <2>5. 0 <= q
    <3>1. b * 0 < b * q + b /\ 0 \in Int
      BY <1>1, <2>1, <2>4, SMT
    <3> QED
      BY <2>1, <3>1, MultiplesApart, Zenon
  <2>6. Rem(a, b) = r
    BY <2>1, <2>2, <2>4, SMT DEF Rem
  <2> QED
    BY <1>1, <2>1, <2>2, <2>3, <2>5, <2>6, SMT DEF q, r
<1>2. CASE a < 0
  <2> DEFINE q == (-a) \div b
             r == (-a) % b
  <2>1. q \in Int /\ r \in Int /\ -a = b * q + r /\ 0 <= r /\ r < b
    <3>1. -a \in Int
      BY SMT
    <3> QED
      BY <3>1, DivMod, Zenon
  <2>2. Quot(a, b) = -q
    BY <1>2, SMT DEF Quot
  <2> HIDE DEF q, r
  <2>4. b * q \in Int /\ b * (-q) = -(b * q)
    BY <2>1, SMT
  <2>5. 0 <= q
    <3>1. b * 0 < b * q + b /\ 0 \in Int
      BY <1>2, <2>1, <2>4, SMT
    <3> QED
      BY <2>1, <3>1, MultiplesApart, Zenon
  <2>6. Rem(a, b) = -r
    BY <2>1, <2>2, <2>4, SMT DEF Rem
  <2> QED
    BY <1>2, <2>1, <2>2, <2>4, <2>5, <2>6, SMT
<1> QED
  BY <1>1, <1>2, SMT

(***************************************************************************)
(* Civil times.                                                            *)
(***************************************************************************)
LEMMA Units ==
  /\ kSecsPerMinute \in Int /\ kSecsPerHour \in Int /\ kSecsPerDay \in Int
  /\ 1 <= kSecsPerMinute /\ 1 <= kSecsPerHour /\ 1 <= kSecsPerDay
  BY CalendarAssumption, SMT

LEMMA FloorDaysRoundsDown ==
  ASSUME NEW s \in Int
  PROVE  FloorDays(s) = [day |-> s \div kSecsPerDay, sec |-> s % kSecsPerDay]
<1> DEFINE b == kSecsPerDay
           q == Quot(s, b)
           r == Rem(s, b)
<1>1. b \in Int /\ 1 <= b
  BY Units, Zenon
<1>2. /\ q \in Int /\ r \in Int /\ s = b * q + r
      /\ s >= 0 => 0 <= r /\ r < b
      /\ s <= 0 => -b < r /\ r <= 0
  BY <1>1, QuotRem, Zenon
<1> HIDE DEF b
<1>3. CASE r < 0
  <2>1. FloorDays(s) = [day |-> q - 1, sec |-> r + b]
    BY <1>3, SMT DEF FloorDays, b
  <2> HIDE DEF q, r
  <2>2. /\ q - 1 \in Int /\ r + b \in Int /\ 0 <= r + b /\ r + b < b
    BY <1>1, <1>2, <1>3, SMT
  <2>3. s = b * (q - 1) + (r + b)
    BY <1>1, <1>2, SMT
  <2>4. s \div b = q - 1 /\ s % b = r + b
    BY <1>1, <2>2, <2>3, DivModUnique, Zenon
  <2> QED
    BY <2>1, <2>4, Zenon DEF b
<1>4. CASE ~(r < 0)
  <2>1. FloorDays(s) = [day |-> q, sec |-> r]
    BY <1>4, SMT DEF FloorDays, b
  <2> HIDE DEF q, r
  <2>2. 0 <= r /\ r < b
    BY <1>1, <1>2, <1>4, SMT
  <2>3. s \div b = q /\ s % b = r
    BY <1>1, <1>2, <2>2, DivModUnique, Zenon
  <2> QED
    BY <2>1, <2>3, Zenon DEF b
<1> QED
  BY <1>3, <1>4, Zenon

\* The hours, minutes and seconds of a second of the day.
LEMMA TimeOfDay ==
  ASSUME NEW M \in Int, 1 <= M, NEW H \in Int, 1 <= H, H % M = 0,
         NEW D \in Int, 1 <= D, D % H = 0, NEW s \in Int, 0 <= s, s < D
  PROVE  LET hour == s \div H
             min  == (s % H) \div M
             sec  == s % M
         IN /\ hour \in 0 .. (D \div H) - 1
            /\ min \in 0 .. (H \div M) - 1
            /\ sec \in 0 .. M - 1
            /\ hour * H + min * M + sec = s
<1> DEFINE hour == s \div H
           rest == s % H
           min  == rest \div M
           sec  == rest % M
           j    == D \div H
           k    == H \div M
<1>1. hour \in Int /\ rest \in Int /\ s = H * hour + rest /\ 0 <= rest /\ rest < H
  BY DivMod, Zenon
<1>2. j \in Int /\ D = H * j
  <2>1. j \in Int /\ D = H * j + (D % H)
    BY DivMod, Zenon
  <2> HIDE DEF j
  <2> QED
    BY <2>1, SMT
<1>3. k \in Int /\ H = M * k
  <2>1. k \in Int /\ H = M * k + (H % M)
    BY DivMod, Zenon
  <2> HIDE DEF k
  <2> QED
    BY <2>1, SMT
<1> HIDE DEF hour, rest, j, k
<1>4. min \in Int /\ sec \in Int /\ rest = M * min + sec /\ 0 <= sec /\ sec < M
  BY <1>1, DivMod, Zenon
<1> HIDE DEF min, sec
<1>5. 0 <= hour /\ hour <= j - 1
  <2>1. H * 0 < H * hour + H /\ 0 \in Int /\ j - 1 \in Int
    BY <1>1, <1>2, SMT
  <2>2. H * hour < H * (j - 1) + H
    BY <1>1, <1>2, SMT
  <2> QED
    BY <1>1, <2>1, <2>2, MultiplesApart, Zenon
<1>6. 0 <= min /\ min <= k - 1
  <2>1. M * 0 < M * min + M /\ 0 \in Int /\ k - 1 \in Int
    BY <1>1, <1>4, <1>3, SMT
  <2>2. M * min < M * (k - 1) + M
    BY <1>1, <1>3, <1>4, SMT
  <2> QED
    BY <1>4, <2>1, <2>2, MultiplesApart, Zenon
<1>7. s % M = sec
  <2> DEFINE q == k * hour + min
  <2>1. q \in Int /\ s = M * q + sec
    BY <1>1, <1>3, <1>4, SMT
  <2> HIDE DEF q
  <2> QED
    BY <1>4, <2>1, DivModUnique, Zenon
<1>8. hour * H + min * M + sec = s
  BY <1>1, <1>4, SMT
<1>9. hour \in 0 .. j - 1 /\ min \in 0 .. k - 1 /\ sec \in 0 .. M - 1
  BY <1>1, <1>2, <1>3, <1>4, <1>5, <1>6, SMT
<1> QED
  BY <1>7, <1>8, <1>9, Zenon DEF hour, min, rest, j, k

\* The epoch.
LEMMA Epoch == CivilDay(0) = [year |-> 1970, mon |-> 1, mday |-> 1]
<1>1. 0 = Shifted(4, 369, 306) /\ 306 <= LastDay(369)
  BY SMT DEF Shifted, YearStart, LastDay
<1>2. CivilDay(Shifted(4, 369, 306)) = DateAt(4, 369, 306)
  <2> DEFINE era == 4
             yoe == 369
             doy == 306
  <2>1. era \in Int /\ yoe \in 0 .. 399 /\ doy \in 0 .. 365 /\ doy <= LastDay(yoe)
    BY <1>1, SMT
  <2> SUFFICES CivilDay(Shifted(era, yoe, doy)) = DateAt(era, yoe, doy)
    OBVIOUS
  <2> HIDE DEF era, yoe, doy
  <2> QED
    BY <2>1, CivilDayOfPlace, Zenon
<1>3. DateAt(4, 369, 306) = [year |-> 1970, mon |-> 1, mday |-> 1]
  BY SMT DEF DateAt, MonthStart
<1> QED
  BY <1>1, <1>2, <1>3, SMT

(***************************************************************************)
(* The inputs of the conversions.                                          *)
(***************************************************************************)
TimesInv ==
  \/ input = [codec |-> "none"]
  \/ \E s \in Int : input = [codec |-> "civil", s |-> s]
  \/ \E c \in IntMin .. IntMax, p \in Periods :
       input = [codec |-> "time_point", count |-> c, num |-> p[1], den |-> p[2]]
  \/ \E c \in IntMin .. IntMax, n \in IntMin .. IntMax :
       input = [codec |-> "proto", sec |-> c, nsec |-> n]
  \/ \E ns \in Int : input = [codec |-> "duration", ns |-> ns]

LEMMA TimesInvAlways == TimesSpec => []TimesInv
<1>1. TimesInit => TimesInv
  BY Zenon DEF TimesInit, TimesInv
<1>2. TimesInv /\ [TimesNext]_input => TimesInv'
  <2> SUFFICES ASSUME TimesInv, [TimesNext]_input
               PROVE  TimesInv'
    OBVIOUS
  <2>1. CASE TryCivilTime
    BY <2>1, TimesAssumption, Zenon DEF TimesInv, TryCivilTime
  <2>2. CASE TryTimePoint
    BY <2>2, TimesAssumption, Zenon DEF TimesInv, TryTimePoint
  <2>3. CASE TryProto
    BY <2>3, TimesAssumption, Zenon DEF TimesInv, TryProto
  <2>4. CASE TryDuration
    BY <2>4, TimesAssumption, Zenon DEF TimesInv, TryDuration
  <2>5. CASE input' = [codec |-> "none"] \/ UNCHANGED input
    BY <2>5, Zenon DEF TimesInv
  <2> QED
    BY <2>1, <2>2, <2>3, <2>4, <2>5, Zenon DEF TimesNext
<1> QED
  BY <1>1, <1>2, PTL DEF TimesSpec

\* A number survives its narrowing exactly if the narrower type has it.
LEMMA WrapToFixes ==
  ASSUME NEW x \in Int, NEW least \in Int, least < 0
  PROVE  WrapTo(x, least) = x <=> least <= x /\ x < -least
<1> DEFINE w == -2 * least
           a == x - least
           r == a % w
<1>1. w \in Int /\ 1 <= w /\ a \in Int /\ 0 \in Int /\ a = w * 0 + a
      /\ w = -2 * least /\ a = x - least
  BY SMT
<1>2. WrapTo(x, least) = r + least
  BY Zenon DEF WrapTo
<1> HIDE DEF w, a
<1>3. r \in Int /\ 0 <= r /\ r < w
  BY <1>1, DivMod, Zenon
<1>4. 0 <= a /\ a < w => r = a
  BY <1>1, DivModUnique, Zenon
<1> HIDE DEF r
<1> QED
  BY <1>1, <1>2, <1>3, <1>4, SMT

LEMMA WrapToInt ==
  ASSUME NEW x \in Int, NEW least \in Int, least < 0
  PROVE  WrapTo(x, least) \in Int
<1> DEFINE w == -2 * least
           a == x - least
<1>1. w \in Int /\ 1 <= w /\ a \in Int
  BY SMT
<1>2. WrapTo(x, least) = (a % w) + least
  BY Zenon DEF WrapTo
<1> HIDE DEF w, a
<1>3. a % w \in Int
  BY <1>1, DivMod, Zenon
<1> QED
  BY <1>2, <1>3, SMT

\* A year survives its narrowing exactly if a std::tm has it.
LEMMA TmYearNarrows ==
  ASSUME NEW y \in Int
  PROVE  TmYear(y) = y <=> y \in kYearMin .. kYearMax
<1> DEFINE least == -TmYearMax - 1
           x == y - 1900
           z == WrapTo(x, least)
<1>1. TmYearMax \in Int /\ 0 <= TmYearMax
  BY CalendarAssumption, SMT
<1>2. least \in Int /\ least < 0 /\ x \in Int
  BY <1>1, SMT
<1>3. TmYear(y) = z + 1900
  BY Zenon DEF TmYear
<1>4. y \in kYearMin .. kYearMax <=> least <= x /\ x < -least
  BY <1>1, SMT DEF kYearMin, kYearMax
<1>5. x = y - 1900
  OBVIOUS
<1> HIDE DEF least, x
<1>6. z = x <=> least <= x /\ x < -least
  BY <1>2, WrapToFixes, Zenon
<1>7. z \in Int
  BY <1>2, WrapToInt, Zenon
<1> HIDE DEF z
<1>8. TmYear(y) = y <=> z = x
  BY <1>2, <1>3, <1>5, <1>7, SMT
<1> QED
  BY <1>4, <1>6, <1>8, Zenon

\* The calendar of ZTime() and TimeZ() is right before the epoch and after it,
\* whatever the lengths of minutes, hours and days, for every second of a year
\* that a std::tm has; in any other year the year alone is wrong.
THEOREM CivilTimeAlwaysAgrees == TimesSpec => []CivilTimeAgrees
<1>1. TimesInv => CivilTimeAgrees
  <2> SUFFICES ASSUME TimesInv, input.codec = "civil"
               PROVE  LET tm   == ZTime(input.s)
                          day  == input.s \div kSecsPerDay
                          date == CivilDay(day)
                          fits == date.year \in kYearMin .. kYearMax
                      IN /\ tm.mon = date.mon /\ tm.mday = date.mday
                         /\ tm.year = date.year <=> fits
                         /\ IsDate(date.year, date.mon, date.mday)
                         /\ CivilDay(day + 1) = NextDay(date)
                         /\ CivilDay(0) = [year |-> 1970, mon |-> 1, mday |-> 1]
                         /\ DayOf(date.year, date.mon, date.mday) = day
                         /\ fits => TimeZ(tm) = input.s
                         /\ tm.hour \in 0 .. (kSecsPerDay \div kSecsPerHour) - 1
                         /\ tm.min \in 0 .. (kSecsPerHour \div kSecsPerMinute) - 1
                         /\ tm.sec \in 0 .. kSecsPerMinute - 1
    BY SMT DEF CivilTimeAgrees
  <2>1. input.s \in Int
    BY SMT DEF TimesInv
  <2> DEFINE s   == input.s
             day == s \div kSecsPerDay
             t   == s % kSecsPerDay
             date == CivilDay(day)
             tm  == ZTime(s)
  <2>2. day \in Int /\ t \in Int /\ s = kSecsPerDay * day + t /\ 0 <= t /\ t < kSecsPerDay
    BY <2>1, Units, DivMod, Zenon
  <2>3. FloorDays(s) = [day |-> day, sec |-> t]
    BY <2>1, FloorDaysRoundsDown, Zenon
  <2> HIDE DEF s, day, t
  <2>4. tm = [year |-> TmYear(date.year), mon |-> date.mon, mday |-> date.mday,
              hour |-> t \div kSecsPerHour,
              min |-> (t % kSecsPerHour) \div kSecsPerMinute,
              sec |-> t % kSecsPerMinute]
    BY <2>3, SMT DEF ZTime
  <2>5. /\ date.year \in Int /\ IsDate(date.year, date.mon, date.mday)
        /\ date = [year |-> date.year, mon |-> date.mon, mday |-> date.mday]
        /\ DayOf(date.year, date.mon, date.mday) = day
    BY <2>2, CivilDayIsDate, Zenon
  <2>6. CivilDay(day + 1) = NextDay(date)
    BY <2>2, CivilDayFollows, Zenon
  <2> HIDE DEF date, tm
  <2>7. /\ tm.year = TmYear(date.year) /\ tm.mon = date.mon /\ tm.mday = date.mday
        /\ tm.hour = t \div kSecsPerHour
        /\ tm.min = (t % kSecsPerHour) \div kSecsPerMinute
        /\ tm.sec = t % kSecsPerMinute
    BY <2>4, SMT
  <2>8. /\ tm.hour \in 0 .. (kSecsPerDay \div kSecsPerHour) - 1
        /\ tm.min \in 0 .. (kSecsPerHour \div kSecsPerMinute) - 1
        /\ tm.sec \in 0 .. kSecsPerMinute - 1
        /\ tm.hour * kSecsPerHour + tm.min * kSecsPerMinute + tm.sec = t
    <3>1. kSecsPerHour % kSecsPerMinute = 0 /\ kSecsPerDay % kSecsPerHour = 0
      BY CalendarAssumption, Zenon
    <3>2. /\ t \div kSecsPerHour \in 0 .. (kSecsPerDay \div kSecsPerHour) - 1
          /\ (t % kSecsPerHour) \div kSecsPerMinute
               \in 0 .. (kSecsPerHour \div kSecsPerMinute) - 1
          /\ t % kSecsPerMinute \in 0 .. kSecsPerMinute - 1
          /\ (t \div kSecsPerHour) * kSecsPerHour
               + ((t % kSecsPerHour) \div kSecsPerMinute) * kSecsPerMinute
               + (t % kSecsPerMinute) = t
      BY <2>2, <3>1, Units, TimeOfDay, Zenon
    <3> QED
      BY <2>7, <3>2, Zenon
  <2>f. tm.year = date.year <=> date.year \in kYearMin .. kYearMax
    BY <2>5, <2>7, TmYearNarrows, Zenon
  <2>9. ASSUME date.year \in kYearMin .. kYearMax PROVE TimeZ(tm) = s
    <3>1. TimeZ(tm) = day * kSecsPerDay + tm.hour * kSecsPerHour
                        + tm.min * kSecsPerMinute + tm.sec
      BY <2>5, <2>7, <2>f, <2>9, Zenon DEF TimeZ
    <3> DEFINE a == tm.hour * kSecsPerHour
               b == tm.min * kSecsPerMinute
               c == tm.sec
    <3>2. a \in Int /\ b \in Int /\ c \in Int /\ a + b + c = t
      BY <2>8, Units, SMT
    <3>3. TimeZ(tm) = day * kSecsPerDay + a + b + c
      BY <3>1, Zenon
    <3> HIDE DEF a, b, c
    <3> QED
      BY <2>2, <3>2, <3>3, Units, SMT
  <2> QED
    BY <2>5, <2>6, <2>7, <2>8, <2>9, <2>f, Epoch, SMT DEF s, day, date, tm
<1> QED
  BY <1>1, TimesInvAlways, PTL

\* Durations are sent exactly, whatever their length and sign.
THEOREM DurationAlwaysExact == TimesSpec => []DurationIsExact
<1>1. TimesInv => DurationIsExact
  <2> SUFFICES ASSUME TimesInv, input.codec = "duration"
               PROVE  LET d == DurationToProto(input.ns, kNanosPerSecond)
                      IN /\ d.seconds * kNanosPerSecond + d.nanos = input.ns
                         /\ d.nanos \in 1 - kNanosPerSecond .. kNanosPerSecond - 1
                         /\ ~(d.seconds < 0 /\ d.nanos > 0)
                         /\ ~(d.seconds > 0 /\ d.nanos < 0)
    BY SMT DEF DurationIsExact
  <2> DEFINE a == input.ns
             b == kNanosPerSecond
             q == Quot(a, b)
             r == Rem(a, b)
  <2>1. a \in Int
    BY SMT DEF TimesInv
  <2>2. b \in Int /\ 1 <= b
    BY TimestampsAssumption, SMT
  <2> HIDE DEF b
  <2>3. /\ q \in Int /\ r \in Int /\ a = b * q + r
        /\ a >= 0 => 0 <= r /\ r < b /\ 0 <= q
        /\ a <= 0 => -b < r /\ r <= 0 /\ q <= 0
    BY <2>1, <2>2, QuotRem, Zenon
  <2>4. DurationToProto(input.ns, b) = [seconds |-> q, nanos |-> r]
    BY SMT DEF DurationToProto
  <2> HIDE DEF a, q, r
  <2>5. /\ q * b + r = a
        /\ r \in 1 - b .. b - 1
        /\ ~(q < 0 /\ r > 0) /\ ~(q > 0 /\ r < 0)
    BY <2>1, <2>2, <2>3, SMT
  <2> QED
    BY <2>4, <2>5, SMT DEF a, b
<1> QED
  BY <1>1, TimesInvAlways, PTL

(***************************************************************************)
(* Timestamps: values in the range of std::int64_t, and carries.           *)
(***************************************************************************)
LEMMA Range ==
  /\ kNanosPerSecond \in Int /\ 2 <= kNanosPerSecond /\ kNanosPerSecond <= IntMax
  /\ IntMax \in Int /\ 0 <= IntMax
  /\ IntMin \in Int /\ IntMin = -IntMax - 1
  BY TimestampsAssumption, SMT DEF IntMin

LEMMA WrapInRange ==
  ASSUME NEW x \in Int, IntMin <= x, x <= IntMax
  PROVE  Wrap(x) = x
<1> DEFINE w == -2 * IntMin
           y == x - IntMin
<1>1. /\ w \in Int /\ 1 <= w /\ y \in Int /\ 0 <= y /\ y < w /\ 0 \in Int
      /\ y = w * 0 + y
  BY Range, SMT
<1>2. Wrap(x) = (y % w) + IntMin
  BY SMT DEF Wrap, WrapTo
<1> HIDE DEF w, y
<1>3. y % w = y
  BY <1>1, DivModUnique, Zenon
<1>4. Wrap(x) = y + IntMin
  BY <1>2, <1>3, Zenon
<1> QED
  BY <1>4, Range, SMT DEF y

LEMMA CarryInRange ==
  ASSUME NEW nsec \in Int, IntMin <= nsec, nsec <= IntMax,
         NEW carry \in Int, NEW rest \in Int,
         nsec = kNanosPerSecond * carry + rest,
         0 <= rest, rest < kNanosPerSecond
  PROVE  IntMin <= carry /\ carry <= IntMax
<1> DEFINE K == kNanosPerSecond
<1>a. K \in Int /\ 2 <= K /\ 1 <= K
  BY Range, SMT
<1>b. nsec = K * carry + rest /\ 0 <= rest /\ rest < K
  BY Zenon
<1> HIDE DEF K
<1>1. carry <= IntMax
  <2>1. CASE carry <= 0
    BY <2>1, Range, SMT
  <2>2. CASE carry > 0
    <3>1. carry <= carry * K /\ carry * K \in Int
      BY <1>a, <2>2, Times1, SMT
    <3> QED
      BY <1>a, <1>b, <3>1, Range, SMT
  <2> QED
    BY <2>1, <2>2, SMT
<1>2. IntMin <= carry
  <2>1. CASE carry >= 0
    BY <2>1, Range, SMT
  <2>2. CASE carry < 0
    <3>1. -carry - 1 \in Int /\ 0 <= -carry - 1
      BY <2>2, SMT
    <3>2. -carry - 1 <= (-carry - 1) * (K - 1) /\ (-carry - 1) * (K - 1) \in Int
      <4>1. K - 1 \in Int /\ 1 <= K - 1
        BY <1>a, SMT
      <4> QED
        BY <3>1, <4>1, Times1, Zenon
    <3>3. (-carry - 1) * (K - 1) = -(K * carry) - K + carry + 1
      BY <1>a, SMT
    <3>4. K * carry \in Int
      BY <1>a, SMT
    <3>5. -carry - 1 <= -nsec + carry
      BY <1>a, <1>b, <3>2, <3>3, <3>4, SMT
    <3> QED
      BY <3>5, Range, SMT
  <2> QED
    BY <2>1, <2>2, SMT
<1> QED
  BY <1>1, <1>2, Zenon

\* FromCounts() adds the seconds that the nanoseconds are to the seconds, and
\* fails if, and only if, that is out of range.
LEMMA FromCountsExact ==
  ASSUME NEW sec \in Int, IntMin <= sec, sec <= IntMax,
         NEW nsec \in Int, IntMin <= nsec, nsec <= IntMax,
         NEW carry \in Int, NEW rest \in Int,
         nsec = kNanosPerSecond * carry + rest,
         0 <= rest, rest < kNanosPerSecond
  PROVE  FromCounts(sec, nsec)
           = IF sec + carry < IntMin \/ sec + carry > IntMax THEN Failed
             ELSE Ok([sec |-> sec + carry, nsec |-> rest])
<1> DEFINE K == kNanosPerSecond
           q == Quot(nsec, K)
           r == Rem(nsec, K)
           c == q - (IF r < 0 THEN 1 ELSE 0)
<1>1. K \in Int /\ 2 <= K /\ 1 <= K
  BY Range, SMT
<1>2. /\ q \in Int /\ r \in Int /\ nsec = K * q + r
      /\ nsec >= 0 => 0 <= r /\ r < K
      /\ nsec <= 0 => -K < r /\ r <= 0
  BY <1>1, QuotRem, Zenon
<1>3. FromCounts(sec, nsec)
        = IF \/ sec >= 0 /\ c > 0 /\ sec > Wrap(IntMax - c)
             \/ sec < 0 /\ c < 0 /\ sec < Wrap(IntMin - c)
          THEN Failed ELSE Ok([sec |-> Wrap(sec + c), nsec |-> r % K])
  BY SMT DEF FromCounts, OutOfRange, MakeTimestamp
<1>4. nsec = K * carry + rest /\ 0 <= rest /\ rest < K
  BY Zenon
<1> HIDE DEF K, q, r
<1>5. c = carry /\ r % K = rest
  <2>1. CASE r < 0
    <3>1. q - 1 \in Int /\ r + K \in Int /\ 0 <= r + K /\ r + K < K
      BY <1>1, <1>2, <2>1, SMT
    <3>2. nsec = K * (q - 1) + (r + K)
      BY <1>1, <1>2, SMT
    <3>3. nsec \div K = q - 1 /\ nsec % K = r + K
      BY <1>1, <3>1, <3>2, DivModUnique, Zenon
    <3>4. nsec \div K = carry /\ nsec % K = rest
      BY <1>1, <1>4, DivModUnique, Zenon
    <3>5. r = K * (-1) + rest /\ -1 \in Int
      BY <1>1, <1>2, <3>3, <3>4, SMT
    <3>6. r % K = rest
      BY <1>1, <1>2, <1>4, <3>5, DivModUnique, Zenon
    <3> QED
      BY <2>1, <3>3, <3>4, <3>6, SMT
  <2>2. CASE ~(r < 0)
    <3>1. 0 <= r /\ r < K
      BY <1>1, <1>2, <2>2, SMT
    <3>2. nsec \div K = q /\ nsec % K = r
      BY <1>1, <1>2, <3>1, DivModUnique, Zenon
    <3>3. nsec \div K = carry /\ nsec % K = rest
      BY <1>1, <1>4, DivModUnique, Zenon
    <3>4. r = K * 0 + rest /\ 0 \in Int
      BY <1>1, <1>2, <3>2, <3>3, SMT
    <3>5. r % K = rest
      BY <1>1, <1>2, <1>4, <3>4, DivModUnique, Zenon
    <3>6. q - 0 = carry
      BY <1>2, <3>2, <3>3, SMT
    <3> QED
      BY <2>2, <3>5, <3>6, SMT
  <2> QED
    BY <2>1, <2>2, Zenon
<1>6. FromCounts(sec, nsec)
        = IF \/ sec >= 0 /\ carry > 0 /\ sec > Wrap(IntMax - carry)
             \/ sec < 0 /\ carry < 0 /\ sec < Wrap(IntMin - carry)
          THEN Failed ELSE Ok([sec |-> Wrap(sec + carry), nsec |-> rest])
  <2> HIDE DEF c
  <2> QED
    BY <1>3, <1>5, Zenon
<1>7. IntMin <= carry /\ carry <= IntMax
  BY CarryInRange, Zenon
<1>8. carry > 0 => Wrap(IntMax - carry) = IntMax - carry
  <2> SUFFICES ASSUME carry > 0
               PROVE  Wrap(IntMax - carry) = IntMax - carry
    OBVIOUS
  <2>1. IntMax - carry \in Int /\ IntMin <= IntMax - carry /\ IntMax - carry <= IntMax
    BY <1>7, Range, SMT
  <2> QED
    BY <2>1, WrapInRange, Zenon
<1>9. carry < 0 => Wrap(IntMin - carry) = IntMin - carry
  <2> SUFFICES ASSUME carry < 0
               PROVE  Wrap(IntMin - carry) = IntMin - carry
    OBVIOUS
  <2>1. IntMin - carry \in Int /\ IntMin <= IntMin - carry /\ IntMin - carry <= IntMax
    BY <1>7, Range, SMT
  <2> QED
    BY <2>1, WrapInRange, Zenon
<1>10. CASE sec + carry < IntMin \/ sec + carry > IntMax
  <2>1. \/ sec >= 0 /\ carry > 0 /\ sec > Wrap(IntMax - carry)
        \/ sec < 0 /\ carry < 0 /\ sec < Wrap(IntMin - carry)
    BY <1>7, <1>8, <1>9, <1>10, Range, SMT
  <2> QED
    BY <1>6, <1>10, <2>1, Zenon
<1>11. CASE ~(sec + carry < IntMin \/ sec + carry > IntMax)
  <2>1. ~(\/ sec >= 0 /\ carry > 0 /\ sec > Wrap(IntMax - carry)
          \/ sec < 0 /\ carry < 0 /\ sec < Wrap(IntMin - carry))
    BY <1>8, <1>9, <1>11, Range, SMT
  <2>2. Wrap(sec + carry) = sec + carry
    <3>1. sec + carry \in Int /\ IntMin <= sec + carry /\ sec + carry <= IntMax
      BY <1>11, Range, SMT
    <3> QED
      BY <3>1, WrapInRange, Zenon
  <2> QED
    BY <1>6, <1>11, <2>1, <2>2, Zenon
<1> QED
  BY <1>10, <1>11, Zenon

\* Nanoseconds in range carry nothing.
LEMMA FromCountsNormal ==
  ASSUME NEW sec \in Int, IntMin <= sec, sec <= IntMax,
         NEW rest \in Int, 0 <= rest, rest < kNanosPerSecond
  PROVE  FromCounts(sec, rest) = Ok([sec |-> sec, nsec |-> rest])
<1> DEFINE z == 0
<1>1. /\ IntMin <= rest /\ rest <= IntMax /\ z \in Int
      /\ rest = kNanosPerSecond * z + rest
  BY Range, SMT
<1>3. sec + z = sec /\ ~(sec + z < IntMin \/ sec + z > IntMax)
  BY Range, SMT
<1> HIDE DEF z
<1>2. FromCounts(sec, rest)
        = IF sec + z < IntMin \/ sec + z > IntMax THEN Failed
          ELSE Ok([sec |-> sec + z, nsec |-> rest])
  BY <1>1, FromCountsExact, ZenonT(60)
<1> QED
  BY <1>2, <1>3, Zenon

\* The timestamp of a protobuf is the nearest that there is, whatever the
\* protobuf holds, for any width of the integers.
THEOREM ProtoAlwaysNearest == TimesSpec => []ProtoIsNearest
<1>1. TimesInv => ProtoIsNearest
  <2> SUFFICES ASSUME TimesInv, input.codec = "proto"
               PROVE  ProtoIsNearest
    BY SMT DEF ProtoIsNearest
  <2> DEFINE K == kNanosPerSecond
             sec == input.sec
             nsec == input.nsec
             carry == nsec \div K
             rest == nsec % K
             ts == FromProto([sec |-> sec, nsec |-> nsec])
  <2>1. /\ sec \in Int /\ IntMin <= sec /\ sec <= IntMax
        /\ nsec \in Int /\ IntMin <= nsec /\ nsec <= IntMax
    BY Range, SMT DEF TimesInv
  <2>2. K \in Int /\ 2 <= K /\ 1 <= K /\ K <= IntMax
    BY Range, SMT
  <2>3. carry \in Int /\ rest \in Int /\ nsec = K * carry + rest /\ 0 <= rest /\ rest < K
    BY <2>1, <2>2, DivMod, Zenon
  <2> HIDE DEF sec, nsec, carry, rest
  <2>4. FromCounts(sec, nsec)
          = IF sec + carry < IntMin \/ sec + carry > IntMax THEN Failed
            ELSE Ok([sec |-> sec + carry, nsec |-> rest])
    BY <2>1, <2>3, FromCountsExact, Zenon
  <2>6. IntMin <= carry /\ carry <= IntMax
    BY <2>1, <2>3, CarryInRange, Zenon
  <2>5. ts = IF sec + carry > IntMax THEN [sec |-> IntMax, nsec |-> K - 1]
             ELSE IF sec + carry < IntMin THEN [sec |-> IntMin, nsec |-> 0]
             ELSE [sec |-> sec + carry, nsec |-> rest]
    <3>1. CASE sec + carry > IntMax
      <4>1. sec >= 0
        BY <2>1, <2>3, <2>6, <3>1, Range, SMT
      <4> QED
        BY <2>4, <3>1, <4>1, SMT DEF FromProto, Failed
    <3>2. CASE sec + carry < IntMin
      <4>1. ~(sec >= 0) /\ ~(sec + carry > IntMax)
        BY <2>1, <2>3, <2>6, <3>2, Range, SMT
      <4> QED
        BY <2>4, <3>2, <4>1, SMT DEF FromProto, Failed
    <3>3. CASE ~(sec + carry > IntMax) /\ ~(sec + carry < IntMin)
      BY <2>4, <3>3, SMT DEF FromProto, Ok
    <3> QED
      BY <3>1, <3>2, <3>3, Zenon
  <2> HIDE DEF ts, K
  <2> DEFINE At(x, n) == x * K + n
             time  == At(sec, nsec)
             first == At(IntMin, 0)
             last  == At(IntMax, K - 1)
  <2>7. ts = [sec |-> ts.sec, nsec |-> ts.nsec]
        /\ ts.sec \in IntMin .. IntMax /\ ts.nsec \in 0 .. K - 1
        /\ At(ts.sec, ts.nsec) = IF time < first THEN first
                                 ELSE IF time > last THEN last ELSE time
    <3>0. /\ IntMin * K \in Int /\ IntMax * K \in Int /\ sec * K \in Int
          /\ (sec + carry) * K \in Int
          /\ time = (sec + carry) * K + rest
      BY <2>1, <2>2, <2>3, Range, SMT
    <3>1. CASE sec + carry > IntMax
      <4>1. ts = [sec |-> IntMax, nsec |-> K - 1]
        BY <2>5, <3>1, SMT
      <4>2. time > last
        <5>1. (sec + carry) * K >= IntMax * K + K
          <6>1. 0 <= K /\ sec + carry - IntMax \in Int /\ 1 <= sec + carry - IntMax
            BY <2>1, <2>2, <2>3, <3>1, Range, SMT
          <6>2. K <= K * (sec + carry - IntMax)
            BY <2>2, <6>1, Times1, Zenon
          <6>3. K * (sec + carry - IntMax) = (sec + carry) * K - IntMax * K
            BY <2>1, <2>2, <2>3, Range, SMT
          <6> QED
            BY <2>2, <3>0, <6>2, <6>3, SMT
        <5> QED
          BY <2>2, <2>3, <3>0, <5>1, SMT
      <4>3. ~(time < first)
        <5>1. first <= last
          BY <2>2, Range, SMT
        <5> QED
          BY <2>2, <2>3, <3>0, <4>2, <5>1, Range, SMT
      <4>4. IntMax \in IntMin .. IntMax /\ K - 1 \in 0 .. K - 1
        BY <2>2, Range, SMT
      <4> HIDE DEF time, first
      <4> QED
        BY <4>1, <4>2, <4>3, <4>4, SMT
    <3>2. CASE sec + carry < IntMin
      <4>1. ts = [sec |-> IntMin, nsec |-> 0]
        BY <2>1, <2>3, <2>5, <3>2, Range, SMT
      <4>2. time < first
        <5>1. (sec + carry) * K + K <= IntMin * K
          <6>1. 0 <= K /\ IntMin - sec - carry \in Int /\ 1 <= IntMin - sec - carry
            BY <2>1, <2>2, <2>3, <3>2, Range, SMT
          <6>2. K <= K * (IntMin - sec - carry)
            BY <2>2, <6>1, Times1, Zenon
          <6>3. K * (IntMin - sec - carry) = IntMin * K - (sec + carry) * K
            BY <2>1, <2>2, <2>3, Range, SMT
          <6> QED
            BY <2>2, <3>0, <6>2, <6>3, SMT
        <5> QED
          BY <2>2, <2>3, <3>0, <5>1, SMT
      <4>3. IntMin \in IntMin .. IntMax /\ 0 \in 0 .. K - 1
        BY <2>2, Range, SMT
      <4> HIDE DEF time, last
      <4> QED
        BY <4>1, <4>2, <4>3, SMT
    <3>3. CASE ~(sec + carry > IntMax) /\ ~(sec + carry < IntMin)
      <4>1. ts = [sec |-> sec + carry, nsec |-> rest]
        BY <2>5, <3>3, SMT
      <4>2. sec + carry \in IntMin .. IntMax /\ rest \in 0 .. K - 1
        BY <2>1, <2>2, <2>3, <3>3, Range, SMT
      <4>3. IntMin * K <= (sec + carry) * K /\ (sec + carry) * K <= IntMax * K
        <5>1. \A a, b \in Int : a <= b => a * K <= b * K
          <6> SUFFICES ASSUME NEW a \in Int, NEW b \in Int, a <= b
                       PROVE  a * K <= b * K
            BY Zenon
          <6>1. b - a \in Int /\ 0 <= b - a
            BY SMT
          <6>2. b - a <= (b - a) * K
            BY <2>2, <6>1, Times1, Zenon
          <6>3. (b - a) * K = b * K - a * K /\ b * K \in Int /\ a * K \in Int
            BY <2>2, SMT
          <6> QED
            BY <6>1, <6>2, <6>3, SMT
        <5>2. sec + carry \in Int /\ IntMin <= sec + carry /\ sec + carry <= IntMax
          BY <4>2, Range, SMT
        <5> QED
          BY <5>1, <5>2, Range, Zenon
      <4>4. ~(time < first) /\ ~(time > last)
        BY <2>2, <2>3, <3>0, <4>3, Range, SMT
      <4>5. At(ts.sec, ts.nsec) = time
        <5>1. ts.sec = sec + carry /\ ts.nsec = rest
          BY <4>1, SMT
        <5>2. At(ts.sec, ts.nsec) = (sec + carry) * K + rest
          BY <5>1, Zenon
        <5> QED
          BY <3>0, <5>2, Zenon
      <4> HIDE DEF time, first, last, At
      <4> QED
        BY <4>1, <4>2, <4>4, <4>5, SMT
    <3> QED
      BY <3>1, <3>2, <3>3, Zenon
  <2>8. FromProto(ToProto(ts)) = ts
    <3>1. /\ ts.sec \in Int /\ IntMin <= ts.sec /\ ts.sec <= IntMax
          /\ ts.nsec \in Int /\ 0 <= ts.nsec /\ ts.nsec < kNanosPerSecond
      BY <2>2, <2>7, Range, SMT DEF K
    <3>2. FromCounts(ts.sec, ts.nsec) = Ok([sec |-> ts.sec, nsec |-> ts.nsec])
      BY <3>1, FromCountsNormal, Zenon
    <3> QED
      BY <2>7, <3>2, SMT DEF FromProto, ToProto, Ok
  <2> QED
    BY <2>7, <2>8, SMT DEF ProtoIsNearest, ts, sec, nsec, K
<1> QED
  BY <1>1, TimesInvAlways, PTL

(***************************************************************************)
(* Time points.                                                            *)
(***************************************************************************)
LEMMA MultiplesInOrder ==
  ASSUME NEW a \in Int, NEW b \in Int, a <= b, NEW k \in Int, 0 <= k
  PROVE  a * k <= b * k /\ a * k \in Int /\ b * k \in Int
<1>1. 0 <= (b - a) * k
  BY SMT
<1>2. (b - a) * k = b * k - a * k /\ b * k \in Int /\ a * k \in Int
  BY SMT
<1> QED
  BY <1>1, <1>2, SMT

LEMMA QuotOfMultiple ==
  ASSUME NEW q \in Int, NEW b \in Int, 1 <= b
  PROVE  Quot(q * b, b) = q
<1> DEFINE a == q * b
           p == Quot(a, b)
           r == Rem(a, b)
<1>1. a \in Int /\ a = b * q
  BY SMT
<1> HIDE DEF a
<1>2. /\ p \in Int /\ r \in Int /\ a = b * p + r
      /\ a >= 0 => 0 <= r /\ r < b
      /\ a <= 0 => -b < r /\ r <= 0
  BY <1>1, QuotRem, Zenon
<1> HIDE DEF p, r
<1>3. b * p \in Int /\ b * q \in Int
  BY <1>2, SMT
<1>4. b * p < b * q + b /\ b * q < b * p + b
  BY <1>1, <1>2, <1>3, SMT
<1>5. p <= q /\ q <= p
  BY <1>2, <1>4, MultiplesApart, Zenon
<1> QED
  BY <1>2, <1>5, SMT DEF p, a

LEMMA QuotOfNegative ==
  ASSUME NEW a \in Int, a <= 0, NEW b \in Int, 1 <= b,
         NEW q \in Int, NEW r \in Int, a = b * q + r, -b < r, r <= 0
  PROVE  Quot(a, b) = q
<1> DEFINE p == Quot(a, b)
           t == Rem(a, b)
<1>1. p \in Int /\ t \in Int /\ a = b * p + t /\ -b < t /\ t <= 0
  BY QuotRem, Zenon
<1> HIDE DEF p, t
<1>2. b * p \in Int /\ b * q \in Int
  BY <1>1, SMT
<1>3. b * p < b * q + b /\ b * q < b * p + b
  BY <1>1, <1>2, SMT
<1>4. p <= q /\ q <= p
  BY <1>1, <1>3, MultiplesApart, Zenon
<1>5. p = q
  BY <1>1, <1>4, SMT
<1> QED
  BY <1>5, Zenon DEF p

LEMMA QuotOne ==
  ASSUME NEW a \in Int
  PROVE  Quot(a, 1) = a
  BY SMT DEF Quot

\* The overflow checks of FromRatio() and ToRatio(): comparing with a quotient
\* is comparing the product.
LEMMA QuotChecks ==
  ASSUME NEW q \in Int, NEW b \in Int, 1 <= b
  PROVE  \/ q >= 0 /\ q > Quot(IntMax, b)
         \/ q < 0 /\ q < Quot(IntMin, b)
         <=> q * b < IntMin \/ q * b > IntMax
<1>1. /\ IntMax \in Int /\ 0 <= IntMax /\ IntMin \in Int /\ IntMin < 0
  BY Range, SMT
<1> DEFINE h == Quot(IntMax, b)
           l == Quot(IntMin, b)
           rh == Rem(IntMax, b)
           rl == Rem(IntMin, b)
<1>2. h \in Int /\ rh \in Int /\ IntMax = b * h + rh /\ 0 <= rh /\ rh < b /\ 0 <= h
  <2>1. IntMax >= 0
    BY <1>1, SMT
  <2> QED
    BY <1>1, <2>1, QuotRem, Zenon
<1>3. l \in Int /\ rl \in Int /\ IntMin = b * l + rl /\ -b < rl /\ rl <= 0 /\ l <= 0
  <2>1. IntMin <= 0
    BY <1>1, SMT
  <2> QED
    BY <1>1, <2>1, QuotRem, Zenon
<1> HIDE DEF h, l, rh, rl
<1>4. /\ b * h = h * b /\ b * l = l * b /\ h * b \in Int /\ l * b \in Int /\ q * b \in Int
      /\ (h + 1) * b = h * b + b /\ (l - 1) * b = l * b - b
  BY <1>2, <1>3, SMT
<1>5. CASE q >= 0
  <2>1. 0 <= q * b
    BY <1>5, SMT
  <2>2. q > h => q * b > IntMax
    <3> SUFFICES ASSUME q > h
                 PROVE  q * b > IntMax
      OBVIOUS
    <3>1. h + 1 \in Int /\ h + 1 <= q /\ 0 <= b
      BY <1>2, SMT
    <3>2. (h + 1) * b <= q * b
      BY <3>1, MultiplesInOrder, Zenon
    <3> QED
      BY <1>1, <1>2, <1>4, <3>2, SMT
  <2>3. ~(q > h) => q * b <= IntMax
    <3> SUFFICES ASSUME ~(q > h)
                 PROVE  q * b <= IntMax
      OBVIOUS
    <3>1. q <= h /\ 0 <= b
      BY <1>2, SMT
    <3>2. q * b <= h * b
      BY <1>2, <3>1, MultiplesInOrder, Zenon
    <3> QED
      BY <1>1, <1>2, <1>4, <3>2, SMT
  <2> QED
    BY <1>1, <1>2, <1>4, <1>5, <2>1, <2>2, <2>3, SMT DEF h
<1>6. CASE q < 0
  <2>1. q * b <= 0
    BY <1>6, SMT
  <2>2. q < l => q * b < IntMin
    <3> SUFFICES ASSUME q < l
                 PROVE  q * b < IntMin
      OBVIOUS
    <3>1. l - 1 \in Int /\ q <= l - 1 /\ 0 <= b
      BY <1>3, SMT
    <3>2. q * b <= (l - 1) * b
      BY <3>1, MultiplesInOrder, Zenon
    <3> QED
      BY <1>1, <1>3, <1>4, <3>2, SMT
  <2>3. ~(q < l) => IntMin <= q * b
    <3> SUFFICES ASSUME ~(q < l)
                 PROVE  IntMin <= q * b
      OBVIOUS
    <3>1. l <= q /\ 0 <= b
      BY <1>3, SMT
    <3>2. l * b <= q * b
      BY <1>3, <3>1, MultiplesInOrder, Zenon
    <3> QED
      BY <1>1, <1>3, <1>4, <3>2, SMT
  <2> QED
    BY <1>1, <1>3, <1>4, <1>6, <2>1, <2>2, <2>3, SMT DEF l
<1> QED
  BY <1>5, <1>6, SMT

\* FromRatio() and ToRatio() one value at a time.
LEMMA FromRatioSteps ==
  ASSUME NEW count, NEW N, NEW D, NEW q, q = Quot(count, D),
         NEW sec, sec = Wrap(q * N),
         NEW sscount, sscount = Wrap(count - Quot(Wrap(sec * D), N)),
         ~(\/ q >= 0 /\ q > Quot(IntMax, N)
           \/ q < 0 /\ q < Quot(IntMin, N))
  PROVE  /\ D > kNanosPerSecond =>
              \A floored, divider :
                /\ divider = D \div kNanosPerSecond
                /\ floored = IF sscount < 0 THEN sscount - (divider - 1) ELSE sscount
                => FromRatio(count, N, D)
                     = FromCounts(sec, Wrap(Quot(floored, divider) * N))
         /\ ~(D > kNanosPerSecond) =>
              FromRatio(count, N, D)
                = FromCounts(sec, Wrap(Wrap(sscount * (kNanosPerSecond \div D)) * N))
  BY SMT DEF FromRatio

LEMMA ToRatioSteps ==
  ASSUME NEW ts, NEW min, NEW max, NEW N, NEW D, NEW q, q = Quot(ts.sec, N),
         NEW count, count = Wrap(q * D), NEW n, n = Quot(ts.nsec, N),
         NEW ncount, ncount = IF D < kNanosPerSecond
                              THEN Quot(n, kNanosPerSecond \div D)
                              ELSE Wrap(n * (D \div kNanosPerSecond))
  PROVE  ToRatio(ts, min, max, N, D)
           = IF \/ q >= 0 /\ q > Quot(IntMax, D)
                \/ q < 0 /\ q < Quot(IntMin, D)
                \/ count > IntMax - ncount
                \/ count + ncount \notin min .. max
             THEN OutOfRange
             ELSE Ok(count + ncount)
  BY SMT DEF ToRatio

\* Units of whole seconds.
LEMMA WholeSeconds ==
  ASSUME NEW c \in Int, IntMin <= c, c <= IntMax,
         NEW N \in Int, 1 <= N
  PROVE  IF c * N < IntMin \/ c * N > IntMax THEN FromRatio(c, N, 1) = Failed
         ELSE /\ FromRatio(c, N, 1) = Ok([sec |-> c * N, nsec |-> 0])
              /\ ToRatio([sec |-> c * N, nsec |-> 0], IntMin, IntMax, N, 1) = Ok(c)
<1>1. Quot(c, 1) = c
  BY QuotOne, Zenon
<1>2. \/ c >= 0 /\ c > Quot(IntMax, N)
      \/ c < 0 /\ c < Quot(IntMin, N)
      <=> c * N < IntMin \/ c * N > IntMax
  BY QuotChecks, Zenon
<1>3. CASE c * N < IntMin \/ c * N > IntMax
  <2>1. FromRatio(c, N, 1) = Failed
    BY <1>1, <1>2, <1>3, SMT DEF FromRatio, OutOfRange
  <2> QED
    BY <1>3, <2>1, Zenon
<1>4. CASE ~(c * N < IntMin \/ c * N > IntMax)
  <2> DEFINE x == c * N
             K == kNanosPerSecond
  <2>1. x \in Int /\ IntMin <= x /\ x <= IntMax /\ x * 1 = x
    BY <1>4, Range, SMT
  <2>2. Wrap(x) = x
    BY <2>1, WrapInRange, Zenon
  <2>3. Quot(x, N) = c
    BY QuotOfMultiple, Zenon
  <2>4. Wrap(0) = 0
    <3>1. 0 \in Int /\ IntMin <= 0 /\ 0 <= IntMax
      BY Range, SMT
    <3> QED
      BY <3>1, WrapInRange, Zenon
  <2>5. c - c = 0 /\ 0 * (K \div 1) = 0 /\ 0 * N = 0 /\ K \div 1 = K
    BY Range, SMT
  <2>6. FromCounts(x, 0) = Ok([sec |-> x, nsec |-> 0])
    <3>1. 0 \in Int /\ 0 <= 0 /\ 0 < K
      BY Range, SMT
    <3> QED
      BY <2>1, <3>1, FromCountsNormal, Zenon
  <2>7. FromRatio(c, N, 1) = Ok([sec |-> x, nsec |-> 0])
    <3>1. ~(1 > K)
      BY Range, SMT
    <3>2. 0 = Wrap(c - Quot(Wrap(x * 1), N))
      BY <2>1, <2>2, <2>3, <2>4, <2>5, Zenon
    <3>3. FromRatio(c, N, 1) = FromCounts(x, Wrap(Wrap(0 * (K \div 1)) * N))
      <4>1. x = Wrap(c * N)
        BY <2>2, Zenon
      <4> HIDE DEF x, K
      <4> QED
        BY <1>1, <1>2, <1>4, <3>1, <3>2, <4>1, FromRatioSteps, SMT DEF K
    <3> QED
      BY <2>4, <2>5, <2>6, <3>3, Zenon
  <2>8. ToRatio([sec |-> x, nsec |-> 0], IntMin, IntMax, N, 1) = Ok(c)
    <3> DEFINE ts == [sec |-> x, nsec |-> 0]
    <3>1. ts.sec = x /\ ts.nsec = 0
      BY SMT
    <3>2. Quot(0, N) = 0 /\ Quot(0, K \div 1) = 0 /\ 1 < K
      BY <2>5, Range, SMT DEF Quot
    <3>3. c * 1 = c /\ Wrap(c) = c
      <4>1. c * 1 = c
        BY SMT
      <4> QED
        BY <4>1, WrapInRange, Zenon
    <3>4. /\ ~(\/ c >= 0 /\ c > Quot(IntMax, 1)
               \/ c < 0 /\ c < Quot(IntMin, 1))
          /\ ~(c > IntMax - 0)
      BY Range, QuotOne, SMT
    <3> HIDE DEF ts, x, K
    <3>5. ToRatio(ts, IntMin, IntMax, N, 1)
            = IF \/ c >= 0 /\ c > Quot(IntMax, 1)
                 \/ c < 0 /\ c < Quot(IntMin, 1)
                 \/ c > IntMax - 0
                 \/ c + 0 \notin IntMin .. IntMax
              THEN OutOfRange ELSE Ok(c + 0)
      BY <2>3, <3>1, <3>2, <3>3, ToRatioSteps, SMT DEF K
    <3>6. c + 0 \in IntMin .. IntMax
      BY Range, SMT
    <3>7. ToRatio(ts, IntMin, IntMax, N, 1) = Ok(c + 0)
      <4>1. ~(\/ c >= 0 /\ c > Quot(IntMax, 1)
              \/ c < 0 /\ c < Quot(IntMin, 1)
              \/ c > IntMax - 0
              \/ c + 0 \notin IntMin .. IntMax)
        BY <3>4, <3>6, SMT
      <4> QED
        BY <3>5, <4>1, Zenon
    <3>8. c + 0 = c
      BY SMT
    <3> QED
      BY <3>7, <3>8, Zenon DEF ts
  <2> QED
    BY <1>4, <2>7, <2>8, Zenon
<1> QED
  BY <1>3, <1>4, Zenon

\* Units of a fraction of a second: the floor Q and the remainder R of a count
\* in seconds are the seconds and, in nanoseconds, the fraction.
LEMMA FractionSeconds ==
  ASSUME NEW c \in Int, IntMin <= c, c <= IntMax,
         NEW D \in Int, 1 <= D, D <= IntMax,
         NEW Q \in Int, NEW R \in Int, c = D * Q + R, 0 <= R, R < D
  PROVE  /\ Quot(c, D) \in Int /\ Rem(c, D) \in Int
         /\ IntMin <= Quot(c, D) /\ Quot(c, D) <= IntMax
         /\ Quot(c, D) * D \in Int
         /\ IntMin <= Quot(c, D) * D /\ Quot(c, D) * D <= IntMax
         /\ Rem(c, D) = c - Quot(c, D) * D
         /\ \/ Rem(c, D) = R /\ Q = Quot(c, D)
            \/ Rem(c, D) = R - D /\ Q = Quot(c, D) - 1 /\ R # 0
         /\ IntMin <= Q /\ Q <= IntMax
<1> DEFINE q == Quot(c, D)
           r == Rem(c, D)
<1>1. /\ q \in Int /\ r \in Int /\ c = D * q + r
      /\ c >= 0 => 0 <= r /\ r < D /\ 0 <= q
      /\ c <= 0 => -D < r /\ r <= 0 /\ q <= 0
  BY QuotRem, Zenon
<1> SUFFICES /\ IntMin <= q /\ q <= IntMax
             /\ q * D \in Int
             /\ IntMin <= q * D /\ q * D <= IntMax
             /\ r = c - q * D
             /\ \/ r = R /\ Q = q
                \/ r = R - D /\ Q = q - 1 /\ R # 0
             /\ IntMin <= Q /\ Q <= IntMax
  BY <1>1, Zenon
<1> HIDE DEF q, r
<1>2. D * q = q * D /\ q * D \in Int /\ D * Q \in Int
  BY <1>1, SMT
<1>3. IntMin <= q * D /\ q * D <= IntMax /\ r = c - q * D
  BY <1>1, <1>2, Range, SMT
<1>4. \/ r = R /\ Q = q
      \/ r = R - D /\ Q = q - 1 /\ R # 0
  <2>1. CASE r < 0
    <3>1. q - 1 \in Int /\ r + D \in Int /\ 0 <= r + D /\ r + D < D
      BY <1>1, <2>1, SMT
    <3>2. c = D * (q - 1) + (r + D)
      BY <1>1, SMT
    <3>3. c \div D = q - 1 /\ c % D = r + D
      BY <3>1, <3>2, DivModUnique, Zenon
    <3>4. c \div D = Q /\ c % D = R
      BY DivModUnique, Zenon
    <3> QED
      BY <1>1, <2>1, <3>3, <3>4, SMT
  <2>2. CASE ~(r < 0)
    <3>1. 0 <= r /\ r < D
      BY <1>1, <2>2, SMT
    <3>2. c \div D = q /\ c % D = r
      BY <1>1, <3>1, DivModUnique, Zenon
    <3>3. c \div D = Q /\ c % D = R
      BY DivModUnique, Zenon
    <3> QED
      BY <3>2, <3>3, Zenon
  <2> QED
    BY <2>1, <2>2, Zenon
<1>5. IntMin <= q /\ q <= IntMax
  <2>1. CASE q >= 0
    <3>1. q <= q * D
      BY <1>1, <2>1, Times1, SMT
    <3> QED
      BY <1>1, <1>2, <1>3, <2>1, <3>1, Range, SMT
  <2>2. CASE q < 0
    <3>1. -q <= (-q) * D /\ (-q) * D = -(q * D)
      BY <1>1, <2>2, SMT
    <3> QED
      BY <1>1, <1>2, <1>3, <2>2, <3>1, Range, SMT
  <2> QED
    BY <1>1, <2>1, <2>2, SMT
<1>6. IntMin <= Q /\ Q <= IntMax
  <2>1. CASE Q = q
    BY <1>5, <2>1, SMT
  <2>2. CASE Q = q - 1 /\ R # 0
    <3>1. 2 <= D
      BY <2>2, SMT
    <3>2. CASE q >= 0
      BY <1>1, <1>5, <2>2, <3>2, Range, SMT
    <3>3. CASE q < 0
      <4>1. 2 * (-q) <= (-q) * D /\ (-q) * D = -(q * D)
        BY <1>1, <3>1, <3>3, SMT
      <4> QED
        BY <1>1, <1>2, <1>3, <2>2, <3>3, <4>1, Range, SMT
    <3> QED
      BY <1>1, <3>2, <3>3, SMT
  <2> QED
    BY <1>4, <2>1, <2>2, Zenon
<1> QED
  BY <1>2, <1>3, <1>4, <1>5, <1>6, Zenon

\* n is R / D seconds in units of 1 / K seconds, rounded down.
IsFraction(n, R, D, K) ==
  IF D > K
  THEN \E v \in Int, e \in Int :
         /\ 1 <= v /\ D = K * v
         /\ R = v * n + e /\ 0 <= e /\ e < v
  ELSE \E u \in Int : 1 <= u /\ K = D * u /\ n = R * u

\* From a count.
LEMMA FromFraction ==
  ASSUME NEW c \in Int, IntMin <= c, c <= IntMax,
         NEW D \in Int, 1 <= D, D <= IntMax,
         NEW Q \in Int, NEW R \in Int, c = D * Q + R, 0 <= R, R < D,
         NEW n \in Int, 0 <= n, n < kNanosPerSecond,
         IsFraction(n, R, D, kNanosPerSecond)
  PROVE  FromRatio(c, 1, D) = Ok([sec |-> Q, nsec |-> n])
<1> DEFINE K == kNanosPerSecond
           q == Quot(c, D)
           r == Rem(c, D)
<1>1. /\ q \in Int /\ r \in Int
      /\ IntMin <= q /\ q <= IntMax
      /\ q * D \in Int
      /\ IntMin <= q * D /\ q * D <= IntMax
      /\ r = c - q * D
      /\ \/ r = R /\ Q = q
         \/ r = R - D /\ Q = q - 1 /\ R # 0
      /\ IntMin <= Q /\ Q <= IntMax
  BY FractionSeconds, Zenon
<1>2. K \in Int /\ 2 <= K /\ K <= IntMax
  BY Range, Zenon
<1> HIDE DEF r, K
<1>3. q * 1 = q /\ Wrap(q) = q
  <2>1. q * 1 = q
    BY <1>1, SMT
  <2> QED
    BY <1>1, <2>1, WrapInRange, Zenon
<1>4. r = Wrap(c - Quot(Wrap(q * D), 1))
  <2>1. Wrap(q * D) = q * D
    BY <1>1, WrapInRange, Zenon
  <2>2. Quot(q * D, 1) = q * D
    BY <1>1, QuotOne, Zenon
  <2>3. IntMin <= r /\ r <= IntMax
    BY <1>1, Range, SMT
  <2>4. Wrap(r) = r
    BY <1>1, <2>3, WrapInRange, Zenon
  <2> QED
    BY <1>1, <2>1, <2>2, <2>4, Zenon
<1>5. ~(\/ q >= 0 /\ q > Quot(IntMax, 1)
        \/ q < 0 /\ q < Quot(IntMin, 1))
  <2>1. Quot(IntMax, 1) = IntMax /\ Quot(IntMin, 1) = IntMin
    BY Range, QuotOne, Zenon
  <2> QED
    BY <1>1, <2>1, Range, SMT
<1>6. PICK f \in Int : /\ FromRatio(c, 1, D) = FromCounts(q, f)
                       /\ \/ f = n /\ Q = q
                          \/ f = n - K /\ Q = q - 1
  <2>0. ASSUME NEW f \in Int,
               \/ f = n /\ Q = q
               \/ f = n - K /\ Q = q - 1
        PROVE  Wrap(f) = f
    <3>1. IntMin <= f /\ f <= IntMax
      BY <1>2, <2>0, Range, SMT DEF K
    <3> QED
      BY <3>1, WrapInRange, Zenon
  <2>1. CASE D > K
    <3>1. PICK v \in Int, e \in Int : /\ 1 <= v /\ D = K * v
                                      /\ R = v * n + e /\ 0 <= e /\ e < v
      BY <2>1, Zenon DEF K, IsFraction
    <3>2. v = D \div K
      <4>1. D = K * v + 0 /\ 0 \in Int /\ 0 <= 0 /\ 0 < K /\ 1 <= K
        BY <1>2, <3>1, SMT
      <4>2. D \div K = v
        BY <1>2, <4>1, DivModUnique, Zenon
      <4> QED
        BY <4>2, Zenon
    <3> DEFINE floored == IF r < 0 THEN r - (v - 1) ELSE r
               f == Quot(floored, v)
    <3>3. FromRatio(c, 1, D) = FromCounts(q, Wrap(f * 1))
      <4>1. \A fl, di : /\ di = D \div K
                        /\ fl = IF r < 0 THEN r - (di - 1) ELSE r
                        => FromRatio(c, 1, D) = FromCounts(q, Wrap(Quot(fl, di) * 1))
        <5> HIDE DEF q
        <5> QED
          BY <1>3, <1>4, <1>5, <2>1, FromRatioSteps, SMT DEF K, q
      <4> QED
        BY <3>2, <4>1, Zenon
    <3>4. /\ f \in Int
          /\ \/ f = n /\ Q = q
             \/ f = n - K /\ Q = q - 1
      <4>1. CASE r = R /\ Q = q
        <5>1. floored = R
          BY <1>1, <4>1, SMT
        <5>2. R \div v = n
          BY <3>1, DivModUnique, Zenon
        <5>3. Quot(R, v) = R \div v
          BY SMT DEF Quot
        <5> QED
          BY <4>1, <5>1, <5>2, <5>3, Zenon
      <4>2. CASE r = R - D /\ Q = q - 1 /\ R # 0
        <5> DEFINE p == n - K
                   t == e - v + 1
        <5>1. /\ floored \in Int /\ floored <= 0 /\ p \in Int /\ t \in Int
              /\ -v < t /\ t <= 0
          BY <1>1, <1>2, <3>1, <4>2, SMT
        <5>2. floored = v * p + t
          <6>1. floored = R - D - (v - 1)
            BY <1>1, <4>2, SMT
          <6>2. v * p = v * n - K * v /\ v * n \in Int /\ K * v \in Int
            BY <1>2, <3>1, SMT
          <6> HIDE DEF floored, p
          <6> QED
            BY <1>2, <3>1, <6>1, <6>2, SMT
        <5> HIDE DEF floored, p, t
        <5>3. f = p
          BY <3>1, <5>1, <5>2, QuotOfNegative, Zenon
        <5> QED
          BY <4>2, <5>1, <5>3, Zenon DEF p
      <4> QED
        BY <1>1, <4>1, <4>2, Zenon
    <3> HIDE DEF f
    <3>5. f * 1 = f
      BY <3>4, SMT
    <3>6. Wrap(f) = f
      BY <2>0, <3>4, Zenon
    <3>7. FromRatio(c, 1, D) = FromCounts(q, f)
      BY <3>3, <3>5, <3>6, Zenon
    <3> QED
      BY <3>4, <3>7, Zenon
  <2>2. CASE ~(D > K)
    <3>1. PICK u \in Int : 1 <= u /\ K = D * u /\ n = R * u
      BY <2>2, Zenon DEF K, IsFraction
    <3>2. u = K \div D
      <4>1. K = D * u + 0 /\ 0 \in Int /\ 0 <= 0 /\ 0 < D
        BY <1>2, <3>1, SMT
      <4>2. K \div D = u
        BY <1>2, <3>1, <4>1, DivModUnique, Zenon
      <4> QED
        BY <4>2, Zenon
    <3> DEFINE f == r * u
    <3>3. FromRatio(c, 1, D) = FromCounts(q, Wrap(Wrap(f) * 1))
      <4>1. FromRatio(c, 1, D) = FromCounts(q, Wrap(Wrap(r * (K \div D)) * 1))
        <5> HIDE DEF q
        <5> QED
          BY <1>3, <1>4, <1>5, <2>2, FromRatioSteps, SMT DEF K, q
      <4> QED
        BY <3>2, <4>1, Zenon
    <3>4. /\ f \in Int
          /\ \/ f = n /\ Q = q
             \/ f = n - K /\ Q = q - 1
      <4>1. CASE r = R /\ Q = q
        BY <3>1, <4>1, SMT
      <4>2. CASE r = R - D /\ Q = q - 1 /\ R # 0
        <5>1. f = R * u - D * u /\ f \in Int
          BY <4>2, SMT
        <5> HIDE DEF f
        <5> QED
          BY <3>1, <4>2, <5>1, SMT
      <4> QED
        BY <1>1, <4>1, <4>2, Zenon
    <3> HIDE DEF f
    <3>5. f * 1 = f
      BY <3>4, SMT
    <3>6. Wrap(f) = f
      BY <2>0, <3>4, Zenon
    <3>7. FromRatio(c, 1, D) = FromCounts(q, f)
      BY <3>3, <3>5, <3>6, Zenon
    <3> QED
      BY <3>4, <3>7, Zenon
  <2> QED
    BY <2>1, <2>2, Zenon
<1>7. CASE f = n /\ Q = q
  <2>1. FromCounts(q, n) = Ok([sec |-> q, nsec |-> n])
    BY <1>1, FromCountsNormal, Zenon
  <2> QED
    BY <1>6, <1>7, <2>1, Zenon
<1>8. CASE f = n - K /\ Q = q - 1
  <2> DEFINE z == -1
  <2>1. /\ f = kNanosPerSecond * z + n /\ z \in Int
        /\ IntMin <= f /\ f <= IntMax
    BY <1>2, <1>8, Range, SMT DEF K
  <2>2. q + z = Q /\ ~(q + z < IntMin \/ q + z > IntMax)
    BY <1>1, <1>8, Range, SMT
  <2> HIDE DEF z, q
  <2>3. FromCounts(q, f) = IF q + z < IntMin \/ q + z > IntMax THEN Failed
                           ELSE Ok([sec |-> q + z, nsec |-> n])
    <3>1. q \in Int /\ IntMin <= q /\ q <= IntMax
      BY <1>1, Zenon
    <3> QED
      BY <2>1, <3>1, FromCountsExact, ZenonT(60)
  <2>4. FromCounts(q, f) = Ok([sec |-> Q, nsec |-> n])
    BY <2>2, <2>3, Zenon
  <2> QED
    BY <1>6, <2>4, Zenon
<1> QED
  BY <1>6, <1>7, <1>8, Zenon

\* The smallest number of units that a timestamp tells apart.
Unit(D) == IF D > kNanosPerSecond THEN D \div kNanosPerSecond ELSE 1

\* ... and back: what is left is the count, rounded down.
LEMMA ToFraction ==
  ASSUME NEW c \in Int, IntMin <= c, c <= IntMax,
         NEW D \in Int, 1 <= D, D <= IntMax,
         NEW Q \in Int, NEW R \in Int, c = D * Q + R, 0 <= R, R < D,
         NEW n \in Int, 0 <= n, n < kNanosPerSecond,
         IsFraction(n, R, D, kNanosPerSecond)
  PROVE  ToRatio([sec |-> Q, nsec |-> n], IntMin, IntMax, 1, D)
           = IF Q * D < IntMin THEN Failed ELSE Ok((c \div Unit(D)) * Unit(D))
<1> DEFINE K == kNanosPerSecond
           w == IF D < K THEN Quot(n, K \div D) ELSE Wrap(n * (D \div K))
           ts == [sec |-> Q, nsec |-> n]
<1>0. K \in Int /\ 2 <= K /\ K <= IntMax /\ 1 <= K
  BY Range, SMT
<1>1. IntMin <= Q /\ Q <= IntMax
  BY FractionSeconds, Zenon
<1>2. /\ w \in Int /\ 0 <= w /\ w <= R
      /\ Q * D + w = (c \div Unit(D)) * Unit(D)
  <2> HIDE DEF K
  <2>1. CASE D > K
    <3>1. PICK v \in Int, e \in Int : /\ 1 <= v /\ D = K * v
                                      /\ R = v * n + e /\ 0 <= e /\ e < v
      BY <2>1, Zenon DEF K, IsFraction
    <3>2. D \div K = v
      <4>1. D = K * v + 0 /\ 0 \in Int /\ 0 <= 0 /\ 0 < K
        BY <1>0, <3>1, SMT
      <4> QED
        BY <1>0, <3>1, <4>1, DivModUnique, Zenon
    <3>3. Unit(D) = v
      BY <2>1, <3>2, Zenon DEF Unit, K
    <3>4. n * v \in Int /\ 0 <= n * v /\ n * v <= R /\ v * n = n * v
      BY <3>1, SMT
    <3>5. w = n * v
      <4>1. IntMin <= n * v /\ n * v <= IntMax
        BY <3>4, Range, SMT
      <4>2. Wrap(n * v) = n * v
        BY <3>4, <4>1, WrapInRange, Zenon
      <4>3. ~(D < K)
        BY <1>0, <2>1, SMT
      <4> QED
        BY <3>2, <4>2, <4>3, Zenon
    <3>6. c \div v = K * Q + n
      <4> DEFINE p == K * Q + n
      <4>1. p \in Int /\ c = v * p + e
        BY <1>0, <3>1, SMT
      <4> HIDE DEF p
      <4>2. c \div v = p
        <5>1. 1 <= v /\ 0 <= e /\ e < v
          BY <3>1, Zenon
        <5>2. (v * p + e) \div v = p
          BY <4>1, <5>1, DivOfSum, Zenon
        <5> QED
          BY <4>1, <5>2, SMT
      <4> QED
        BY <4>2, Zenon DEF p
    <3>7. Q * D + n * v = (K * Q + n) * v
      BY <1>0, <3>1, SMT
    <3> QED
      BY <3>3, <3>4, <3>5, <3>6, <3>7, Zenon
  <2>2. CASE ~(D > K)
    <3>1. PICK u \in Int : 1 <= u /\ K = D * u /\ n = R * u
      BY <2>2, Zenon DEF K, IsFraction
    <3>2. K \div D = u
      <4>1. K = D * u + 0 /\ 0 \in Int /\ 0 <= 0 /\ 0 < D
        BY <1>0, <3>1, SMT
      <4> QED
        BY <1>0, <3>1, <4>1, DivModUnique, Zenon
    <3>3. Unit(D) = 1
      BY <2>2, Zenon DEF Unit, K
    <3>4. w = R
      <4>1. CASE D < K
        <5>1. Quot(R * u, u) = R
          BY <3>1, QuotOfMultiple, Zenon
        <5> QED
          BY <3>1, <3>2, <4>1, <5>1, Zenon
      <4>2. CASE ~(D < K)
        <5>1. D = K
          BY <1>0, <2>2, <4>2, SMT
        <5>2. u = 1 /\ D \div K = u
          <6>2. K \div K = 1
            BY <1>0, DivSelf, Zenon
          <6> QED
            BY <3>2, <5>1, <6>2, Zenon
        <5>3. n * 1 = R /\ IntMin <= R /\ R <= IntMax
          BY <3>1, <5>2, Range, SMT
        <5>4. Wrap(R) = R
          BY <5>3, WrapInRange, Zenon
        <5> QED
          BY <4>2, <5>2, <5>3, <5>4, Zenon
      <4> QED
        BY <4>1, <4>2, Zenon
    <3>5. (c \div 1) * 1 = c /\ Q * D + R = c
      BY SMT
    <3>6. R <= R
      BY SMT
    <3> QED
      BY <3>3, <3>4, <3>5, <3>6, Zenon
  <2> QED
    BY <2>1, <2>2, Zenon
<1> HIDE DEF w
<1>3. Q * D \in Int /\ D * Q = Q * D /\ Q * D <= IntMax /\ Q * D + w <= IntMax
  BY <1>2, Range, SMT
<1>4. /\ Quot(Q, 1) = Q /\ Quot(n, 1) = n
  BY QuotOne, Zenon
<1>5. ts.sec = Q /\ ts.nsec = n
  BY SMT
<1>6. ToRatio(ts, IntMin, IntMax, 1, D)
        = IF \/ Q >= 0 /\ Q > Quot(IntMax, D)
             \/ Q < 0 /\ Q < Quot(IntMin, D)
             \/ Wrap(Q * D) > IntMax - w
             \/ Wrap(Q * D) + w \notin IntMin .. IntMax
          THEN Failed ELSE Ok(Wrap(Q * D) + w)
  <2> HIDE DEF ts, K
  <2> QED
    BY <1>4, <1>5, ToRatioSteps, SMT DEF w, K, OutOfRange
<1>7. \/ Q >= 0 /\ Q > Quot(IntMax, D)
      \/ Q < 0 /\ Q < Quot(IntMin, D)
      <=> Q * D < IntMin \/ Q * D > IntMax
  BY QuotChecks, Zenon
<1>8. CASE Q * D < IntMin
  BY <1>6, <1>7, <1>8, Zenon
<1>9. CASE ~(Q * D < IntMin)
  <2>1. Wrap(Q * D) = Q * D
    <3>1. IntMin <= Q * D
      BY <1>3, <1>9, Range, SMT
    <3> QED
      BY <1>3, <3>1, WrapInRange, Zenon
  <2>2. ~(Q * D > IntMax - w) /\ Q * D + w \in IntMin .. IntMax /\ ~(Q * D > IntMax)
    BY <1>2, <1>3, <1>9, Range, SMT
  <2>3. ToRatio(ts, IntMin, IntMax, 1, D) = Ok(Q * D + w)
    BY <1>6, <1>7, <1>9, <2>1, <2>2, Zenon
  <2> QED
    BY <1>2, <1>9, <2>3, Zenon
<1> QED
  BY <1>8, <1>9, Zenon

\* Every period that FromRatio() is designed for divides seconds.
LEMMA FractionOf ==
  ASSUME NEW D \in Int, 1 <= D, NEW K \in Int, 2 <= K,
         D % K = 0 \/ K % D = 0, NEW R \in Int, 0 <= R, R < D
  PROVE  \E n \in Int :
           /\ 0 <= n /\ n < K
           /\ IsFraction(n, R, D, K)
<1>0. 1 <= K
  BY SMT
<1>1. CASE D > K
  <2>1. D % K = 0
    <3>1. K = D * 0 + K /\ 0 \in Int /\ 0 <= K /\ K < D
      BY <1>1, SMT
    <3>2. K % D = K
      BY <3>1, DivModUnique, Zenon
    <3> QED
      BY <3>2, SMT
  <2> DEFINE v == D \div K
  <2>2. v \in Int /\ D = K * v
    <3>1. v \in Int /\ D = K * v + (D % K)
      BY <1>0, DivMod, Zenon
    <3> HIDE DEF v
    <3> QED
      BY <2>1, <3>1, SMT
  <2> HIDE DEF v
  <2>3. 1 <= v
    <3>1. K * 1 < K * v + K /\ 1 \in Int
      BY <1>1, <2>2, SMT
    <3> QED
      BY <1>0, <2>2, <3>1, MultiplesApart, Zenon
  <2> DEFINE n == R \div v
             e == R % v
  <2>4. n \in Int /\ e \in Int /\ R = v * n + e /\ 0 <= e /\ e < v
    BY <2>2, <2>3, DivMod, Zenon
  <2> HIDE DEF n, e
  <2>5. 0 <= n /\ n <= K - 1
    <3>1. v * 0 < v * n + v /\ 0 \in Int /\ K - 1 \in Int
      BY <2>2, <2>4, SMT
    <3>2. v * n < v * (K - 1) + v
      BY <2>2, <2>4, SMT
    <3> QED
      BY <2>2, <2>3, <2>4, <3>1, <3>2, MultiplesApart, Zenon
  <2>6. n < K
    BY <2>4, <2>5, SMT
  <2> QED
    BY <1>1, <2>2, <2>3, <2>4, <2>5, <2>6, Zenon DEF IsFraction
<1>2. CASE ~(D > K)
  <2>1. \E u \in Int : 1 <= u /\ K = D * u
    <3>1. CASE K % D = 0
      <4> DEFINE u == K \div D
      <4>1. u \in Int /\ K = D * u
        <5>1. u \in Int /\ K = D * u + (K % D)
          BY DivMod, Zenon
        <5> HIDE DEF u
        <5> QED
          BY <3>1, <5>1, SMT
      <4> HIDE DEF u
      <4>2. 1 <= u
        <5>1. D * 1 < D * u + D /\ 1 \in Int
          BY <1>2, <4>1, SMT
        <5> QED
          BY <4>1, <5>1, MultiplesApart, Zenon
      <4> QED
        BY <4>1, <4>2, Zenon
    <3>2. CASE D % K = 0
      <4>1. D = K
        <5>1. CASE D < K
          <6>1. D = K * 0 + D /\ 0 \in Int /\ 0 <= D
            BY SMT
          <6>2. D % K = D
            BY <1>0, <5>1, <6>1, DivModUnique, Zenon
          <6> QED
            BY <3>2, <6>2, SMT
        <5> QED
          BY <1>2, <5>1, SMT
      <4>2. 1 \in Int /\ 1 <= 1 /\ K = D * 1
        BY <4>1, SMT
      <4> QED
        BY <4>2, Zenon
    <3> QED
      BY <3>1, <3>2, Zenon
  <2>2. PICK u \in Int : 1 <= u /\ K = D * u
    BY <2>1, Zenon
  <2> DEFINE n == R * u
  <2>3. n \in Int /\ 0 <= n /\ n < K
    <3>1. 0 <= R * u /\ 0 <= (D - 1 - R) * u
      BY <2>2, SMT
    <3>2. (D - 1 - R) * u = D * u - u - R * u /\ R * u \in Int /\ D * u \in Int
      BY <2>2, SMT
    <3> QED
      BY <2>2, <3>1, <3>2, SMT
  <2> QED
    BY <1>2, <2>2, <2>3, Zenon DEF IsFraction
<1> QED
  BY <1>1, <1>2, Zenon

\* A time_point of any clock whose period the code is designed for survives
\* its conversions, whatever the width of the integers, unless it is in a
\* second that begins before the first time_point, where ToRatio() may fail.
THEOREM TimePointAlwaysSurvives == TimesSpec => []TimePointSurvives
<1>1. TimesInv => TimePointSurvives
  <2> SUFFICES ASSUME TimesInv, input.codec = "time_point"
               PROVE  TimePointSurvives
    BY SMT DEF TimePointSurvives
  <2>1. PICK cc \in IntMin .. IntMax, p \in Periods :
          input = [codec |-> "time_point", count |-> cc, num |-> p[1], den |-> p[2]]
    BY SMT DEF TimesInv
  <2> DEFINE c == input.count
             N == input.num
             D == input.den
             K == kNanosPerSecond
             unit == IF D > K THEN D \div K ELSE 1
             ts == FromRatio(c, N, D)
             back == ToRatio(ts.value, IntMin, IntMax, N, D)
  <2>2. c = cc /\ N = p[1] /\ D = p[2]
    BY <2>1, SMT
  <2>3. p[1] \in 1 .. IntMax /\ p[2] \in 1 .. IntMax
        /\ (p[1] = 1 \/ p[2] = 1) /\ (p[2] % K = 0 \/ K % p[2] = 0)
    BY TimesAssumption, SMT
  <2>4. /\ c \in Int /\ IntMin <= c /\ c <= IntMax
        /\ N \in Int /\ 1 <= N /\ D \in Int /\ 1 <= D /\ D <= IntMax
        /\ N = 1 \/ D = 1
        /\ D % K = 0 \/ K % D = 0
    BY <2>2, <2>3, Range, SMT
  <2> SUFFICES /\ ts.ok <=> c * N \in IntMin .. IntMax
               /\ ts.ok =>
                    /\ ts.value.nsec \in 0 .. K - 1
                    /\ IF (c \div D) * D < IntMin THEN ~back.ok
                       ELSE back = Ok((c \div unit) * unit)
    <3> DEFINE first == (c \div D) * D < IntMin
               rounded == (c \div unit) * unit
    <3>1. /\ ts.ok <=> c * N \in IntMin .. IntMax
          /\ ts.ok =>
               /\ ts.value.nsec \in 0 .. K - 1
               /\ IF first THEN ~back.ok ELSE back = Ok(rounded)
      OBVIOUS
    <3>2. Ok(rounded).ok = TRUE
      BY SMT DEF Ok
    <3>3. /\ (c \div D) * D \in Int /\ IntMin \in Int
      BY <2>4, DivMod, Range, SMT
    <3>4. (c \div D) * D >= IntMin <=> ~first
      BY <3>3, SMT
    <3> HIDE DEF first, rounded, ts, back, c, N, D, K
    <3>5. ts.ok => /\ back.ok => back = Ok(rounded)
                   /\ (c \div D) * D >= IntMin => back.ok
      BY <3>1, <3>2, <3>4, Zenon
    <3> QED
      BY <3>1, <3>5, Zenon DEF TimePointSurvives, ts, back, rounded, unit, c, N, D, K
  <2> HIDE DEF c, N, D
  <2>k. K \in Int /\ 2 <= K
    BY Range, Zenon
  <2>5. CASE D = 1
    <3> DEFINE x == c * N
               t == [sec |-> x, nsec |-> 0]
    <3>1. IF x < IntMin \/ x > IntMax THEN FromRatio(c, N, 1) = Failed
          ELSE /\ FromRatio(c, N, 1) = Ok(t)
               /\ ToRatio(t, IntMin, IntMax, N, 1) = Ok(c)
      BY <2>4, WholeSeconds, Zenon
    <3>2. ts = FromRatio(c, N, 1) /\ back = ToRatio(ts.value, IntMin, IntMax, N, 1)
      BY <2>5, Zenon
    <3>3. unit = 1 /\ (c \div 1) * 1 = c /\ (c \div D) * D = c /\ ~(c < IntMin)
      BY <2>4, <2>5, <2>k, Range, SMT
    <3>4. x \in Int /\ 0 \in 0 .. K - 1
      BY <2>4, <2>k, SMT
    <3>5. t.nsec = 0
      BY SMT
    <3> HIDE DEF x, t, ts, back, unit
    <3>6. CASE x < IntMin \/ x > IntMax
      <4>1. ts.ok = FALSE
        BY <3>1, <3>2, <3>6, SMT DEF Failed
      <4>2. x \notin IntMin .. IntMax
        BY <3>4, <3>6, Range, SMT
      <4> QED
        BY <4>1, <4>2, Zenon DEF x
    <3>7. CASE ~(x < IntMin \/ x > IntMax)
      <4>1. ts = Ok(t) /\ ToRatio(t, IntMin, IntMax, N, 1) = Ok(c)
        BY <3>1, <3>2, <3>7, Zenon
      <4>2. ts.ok = TRUE /\ ts.value = t
        BY <4>1, SMT DEF Ok
      <4>3. x \in IntMin .. IntMax
        BY <3>4, <3>7, Range, SMT
      <4>4. back = Ok(c)
        BY <3>2, <4>1, <4>2, Zenon
      <4> QED
        BY <3>3, <3>4, <3>5, <4>2, <4>3, <4>4, Zenon DEF x
    <3> QED
      BY <3>6, <3>7, Zenon
  <2>6. CASE N = 1
    <3> DEFINE Q == c \div D
               R == c % D
    <3>1. Q \in Int /\ R \in Int /\ c = D * Q + R /\ 0 <= R /\ R < D
      BY <2>4, DivMod, Zenon
    <3> HIDE DEF Q, R, K
    <3>2. PICK n \in Int :
            0 <= n /\ n < K /\ IsFraction(n, R, D, K)
      <4>1. R \in Int /\ 0 <= R /\ R < D
        BY <3>1, Zenon
      <4>2. D \in Int /\ 1 <= D /\ (D % K = 0 \/ K % D = 0)
        BY <2>4, Zenon DEF K
      <4> QED
        BY <2>k, <4>1, <4>2, FractionOf, Zenon
    <3> USE DEF K
    <3> DEFINE t == [sec |-> Q, nsec |-> n]
    <3>3. FromRatio(c, 1, D) = Ok(t)
      BY <2>4, <3>1, <3>2, FromFraction, SMT
    <3>4. ToRatio(t, IntMin, IntMax, 1, D)
            = IF Q * D < IntMin THEN Failed ELSE Ok((c \div unit) * unit)
      <4>1. ToRatio(t, IntMin, IntMax, 1, D)
              = IF Q * D < IntMin THEN Failed ELSE Ok((c \div Unit(D)) * Unit(D))
        BY <2>4, <3>1, <3>2, ToFraction, SMT
      <4>2. Unit(D) = unit
        BY Zenon DEF Unit
      <4> QED
        BY <4>1, <4>2, Zenon
    <3>5. ts = Ok(t) /\ back = ToRatio(ts.value, IntMin, IntMax, 1, D)
      BY <2>6, <3>3, Zenon
    <3>6. t.nsec = n /\ n \in 0 .. K - 1
      BY <2>k, <3>2, SMT
    <3>7. c * N \in IntMin .. IntMax
      BY <2>4, <2>6, Range, SMT
    <3> HIDE DEF ts, back, t, unit
    <3>8. ts.ok = TRUE /\ ts.value = t
      BY <3>5, SMT DEF Ok
    <3>9. back = IF Q * D < IntMin THEN Failed ELSE Ok((c \div unit) * unit)
      BY <3>4, <3>5, <3>8, Zenon
    <3>10. Failed.ok = FALSE
      BY SMT DEF Failed
    <3> QED
      BY <3>6, <3>7, <3>8, <3>9, <3>10, Zenon DEF Q
  <2> QED
    BY <2>4, <2>5, <2>6, Zenon
<1> QED
  BY <1>1, TimesInvAlways, PTL

\* Time points, protobufs and durations keep their meaning in every conversion.
THEOREM TimesAlwaysSurvive == TimesSpec => []TimesSurvive
  BY TimePointAlwaysSurvives, ProtoAlwaysNearest, DurationAlwaysExact, PTL
  DEF TimesSurvive

(***************************************************************************)
(* Sequences that grow by one.                                             *)
(***************************************************************************)
LEMMA OneMore ==
  ASSUME NEW V, NEW s \in Seq(V), NEW x \in V
  PROVE  /\ Append(s, x) \in Seq(V)
         /\ Len(Append(s, x)) = Len(s) + 1
         /\ Len(s) \in Nat
         /\ DOMAIN s = 1 .. Len(s)
         /\ DOMAIN Append(s, x) = 1 .. Len(s) + 1
         /\ \A i \in 1 .. Len(s) : Append(s, x)[i] = s[i]
         /\ Append(s, x)[Len(s) + 1] = x
  OBVIOUS

(***************************************************************************)
(* The properties of the builders, of a sequence of calls cs.              *)
(***************************************************************************)
Of(cs, method) == {i \in DOMAIN cs : cs[i].method = method}

LatestOf(cs, value, method, before) ==
  IF Of(cs, method) = {} THEN value = before
  ELSE \E i \in Of(cs, method) : /\ \A j \in Of(cs, method) : j <= i
                                 /\ value = cs[i].value

SourceOf(cs, g, i, k) ==
  IF i = 0 THEN k \in DOMAIN g.labels
  ELSE cs[i].method \in {"AddLabels", "SetLabels"} /\ k \in DOMAIN cs[i].value

GivesOf(cs, b, g, i, k) ==
  /\ SourceOf(cs, g, i, k)
  /\ b = "update" => \A j \in Of(cs, "SetLabels") : j <= i

FirstOf(cs, b, g, labels) ==
  /\ DOMAIN labels = {k \in Keys : \E i \in 0 .. Len(cs) : GivesOf(cs, b, g, i, k)}
  /\ \A k \in Keys, i \in 0 .. Len(cs) :
       GivesOf(cs, b, g, i, k) /\ (\A j \in 0 .. i - 1 : ~GivesOf(cs, b, g, j, k))
         => labels[k] = (IF i = 0 THEN g.labels[k] ELSE cs[i].value[k])

LEMMA CallsOfMore ==
  ASSUME NEW V, NEW cs \in Seq(V), NEW c \in V, NEW m
  PROVE  /\ Of(cs, m) \subseteq 1 .. Len(cs)
         /\ Of(Append(cs, c), m)
              = IF c.method = m THEN Of(cs, m) \cup {Len(cs) + 1} ELSE Of(cs, m)
<1> DEFINE ds == Append(cs, c)
           n == Len(cs)
<1>1. /\ n \in Nat
      /\ DOMAIN cs = 1 .. n /\ DOMAIN ds = 1 .. n + 1
      /\ \A i \in 1 .. n : ds[i] = cs[i]
      /\ ds[n + 1] = c
  BY OneMore
<1> HIDE DEF ds, n
<1>2. Of(cs, m) \subseteq 1 .. n
  BY <1>1 DEF Of
<1>3. \A i \in 1 .. n + 1 : i \in 1 .. n \/ i = n + 1
  BY <1>1
<1>4. \A i : i \in Of(ds, m) <=> (i \in Of(cs, m) \/ (i = n + 1 /\ c.method = m))
  BY <1>1, <1>3 DEF Of
<1>5. Of(ds, m) = IF c.method = m THEN Of(cs, m) \cup {n + 1} ELSE Of(cs, m)
  BY <1>4
<1> QED
  BY <1>2, <1>5 DEF ds, n

LEMMA LatestIsNew ==
  ASSUME NEW V, NEW cs \in Seq(V), NEW c \in V, NEW before
  PROVE  LatestOf(Append(cs, c), c.value, c.method, before)
<1>1. Of(Append(cs, c), c.method) = Of(cs, c.method) \cup {Len(cs) + 1}
  BY CallsOfMore
<1>2. Of(cs, c.method) \subseteq 1 .. Len(cs) /\ Len(cs) \in Nat
  BY CallsOfMore, OneMore
<1>3. \A j \in Of(Append(cs, c), c.method) : j <= Len(cs) + 1
  BY <1>1, <1>2
<1>4. Append(cs, c)[Len(cs) + 1] = c
  BY OneMore
<1> QED
  BY <1>1, <1>3, <1>4 DEF LatestOf

LEMMA LatestIsKept ==
  ASSUME NEW V, NEW cs \in Seq(V), NEW c \in V, NEW m, NEW value, NEW before,
         c.method # m, LatestOf(cs, value, m, before)
  PROVE  LatestOf(Append(cs, c), value, m, before)
<1>1. Of(Append(cs, c), m) = Of(cs, m) /\ Of(cs, m) \subseteq 1 .. Len(cs)
  BY CallsOfMore
<1>2. \A i \in Of(cs, m) : Append(cs, c)[i] = cs[i]
  BY <1>1, OneMore
<1> QED
  BY <1>1, <1>2 DEF LatestOf

\* The labels and the calls before this one give.
LEMMA GivesMore ==
  ASSUME NEW V, NEW cs \in Seq(V), NEW c \in V, NEW b, NEW g, NEW k,
         NEW i \in 0 .. Len(cs)
  PROVE  GivesOf(Append(cs, c), b, g, i, k)
           <=> GivesOf(cs, b, g, i, k) /\ ~(b = "update" /\ c.method = "SetLabels")
<1>1. SourceOf(Append(cs, c), g, i, k) <=> SourceOf(cs, g, i, k)
  BY OneMore DEF SourceOf
<1>2. Of(Append(cs, c), "SetLabels")
        = IF c.method = "SetLabels" THEN Of(cs, "SetLabels") \cup {Len(cs) + 1}
          ELSE Of(cs, "SetLabels")
  BY CallsOfMore
<1>3. Len(cs) \in Nat /\ ~(Len(cs) + 1 <= i)
  BY OneMore
<1> QED
  BY <1>1, <1>2, <1>3 DEF GivesOf

LEMMA LabelsAreKept ==
  ASSUME NEW V, NEW cs \in Seq(V), NEW c \in V, NEW b, NEW g, NEW labels,
         c.method \notin {"AddLabels", "SetLabels"}, FirstOf(cs, b, g, labels)
  PROVE  FirstOf(Append(cs, c), b, g, labels)
<1> DEFINE ds == Append(cs, c)
           n == Len(cs)
<1>1. n \in Nat /\ Len(ds) = n + 1 /\ ds[n + 1] = c /\ \A i \in 1 .. n : ds[i] = cs[i]
  BY OneMore
<1>2. \A k : \A i \in 0 .. n : GivesOf(ds, b, g, i, k) <=> GivesOf(cs, b, g, i, k)
  BY GivesMore
<1> HIDE DEF ds, n
<1>3. \A k : ~GivesOf(ds, b, g, n + 1, k)
  BY <1>1 DEF GivesOf, SourceOf
<1>4. \A i \in 0 .. n + 1 : i \in 0 .. n \/ i = n + 1
  BY <1>1
<1>5. \A k : (\E i \in 0 .. n + 1 : GivesOf(ds, b, g, i, k))
               <=> \E i \in 0 .. n : GivesOf(cs, b, g, i, k)
  BY <1>1, <1>2, <1>3, <1>4
<1>6. DOMAIN labels = {k \in Keys : \E i \in 0 .. n + 1 : GivesOf(ds, b, g, i, k)}
  BY <1>5 DEF FirstOf, n
<1>7. ASSUME NEW k \in Keys, NEW i \in 0 .. n + 1, GivesOf(ds, b, g, i, k),
             \A j \in 0 .. i - 1 : ~GivesOf(ds, b, g, j, k)
      PROVE  labels[k] = IF i = 0 THEN g.labels[k] ELSE ds[i].value[k]
  <2>1. i \in 0 .. n
    BY <1>3, <1>4, <1>7
  <2>2. \A j \in 0 .. i - 1 : j \in 0 .. n
    BY <2>1, <1>1
  <2>3. GivesOf(cs, b, g, i, k) /\ \A j \in 0 .. i - 1 : ~GivesOf(cs, b, g, j, k)
    BY <2>1, <2>2, <1>2, <1>7
  <2>4. labels[k] = IF i = 0 THEN g.labels[k] ELSE cs[i].value[k]
    BY <2>1, <2>3 DEF FirstOf, n
  <2>5. i # 0 => ds[i] = cs[i]
    BY <2>1, <1>1
  <2> QED
    BY <2>4, <2>5
<1>8. \A k \in Keys, i \in 0 .. n + 1 :
        GivesOf(ds, b, g, i, k) /\ (\A j \in 0 .. i - 1 : ~GivesOf(ds, b, g, j, k))
          => labels[k] = (IF i = 0 THEN g.labels[k] ELSE ds[i].value[k])
  BY <1>7
<1>9. FirstOf(ds, b, g, labels)
  BY <1>1, <1>6, <1>8 DEF FirstOf
<1> QED
  BY <1>9 DEF ds

LEMMA LabelsAreAdded ==
  ASSUME NEW V, NEW cs \in Seq(V), NEW c \in V, NEW b, NEW g, NEW labels, NEW old,
         c.method \in {"AddLabels", "SetLabels"}, c.value \in Labels,
         FirstOf(cs, b, g, labels),
         old = IF b = "update" /\ c.method = "SetLabels" THEN NoLabels ELSE labels
  PROVE  FirstOf(Append(cs, c), b, g, InsertLabels(old, c.value))
<1> DEFINE ds == Append(cs, c)
           n == Len(cs)
           new == c.value
           all == InsertLabels(old, new)
           cleared == b = "update" /\ c.method = "SetLabels"
<1>1. n \in Nat /\ Len(ds) = n + 1 /\ ds[n + 1] = c /\ \A i \in 1 .. n : ds[i] = cs[i]
  BY OneMore
<1>2. \A k : \A i \in 0 .. n :
        GivesOf(ds, b, g, i, k) <=> GivesOf(cs, b, g, i, k) /\ ~cleared
  BY GivesMore
<1>3. \A j \in Of(ds, "SetLabels") : j <= n + 1
  <2>1. Of(ds, "SetLabels") \subseteq DOMAIN ds /\ DOMAIN ds = 1 .. n + 1
    BY OneMore DEF Of
  <2> QED
    BY <2>1, <1>1
<1>4. DOMAIN new \subseteq Keys
  BY DEF Keys
<1>5. DOMAIN old = {k \in Keys : \E i \in 0 .. n : GivesOf(ds, b, g, i, k)}
  <2>1. CASE cleared
    <3>1. DOMAIN old = {}
      BY <2>1 DEF NoLabels
    <3> QED
      BY <3>1, <2>1, <1>2
  <2>2. CASE ~cleared
    <3>1. old = labels
      BY <2>2
    <3>2. DOMAIN old = {k \in Keys : \E i \in 0 .. n : GivesOf(cs, b, g, i, k)}
      BY <3>1 DEF FirstOf
    <3> QED
      BY <3>2, <2>2, <1>2
  <2> QED
    BY <2>1, <2>2
<1>6. DOMAIN all = DOMAIN old \cup DOMAIN new
  BY DEF InsertLabels
<1>7. \A k \in DOMAIN all : all[k] = IF k \in DOMAIN old THEN old[k] ELSE new[k]
  BY DEF InsertLabels
<1>8. ~cleared => old = labels
  OBVIOUS
<1> HIDE DEF ds, n, all, cleared, new
<1>9. \A k : GivesOf(ds, b, g, n + 1, k) <=> k \in DOMAIN new
  BY <1>1, <1>3 DEF GivesOf, SourceOf, new
<1>10. \A i \in 0 .. n + 1 : i \in 0 .. n \/ i = n + 1
  BY <1>1
<1>11. \A k : (\E i \in 0 .. n + 1 : GivesOf(ds, b, g, i, k))
                <=> k \in DOMAIN new \/ \E i \in 0 .. n : GivesOf(ds, b, g, i, k)
  BY <1>1, <1>9, <1>10
<1>12. DOMAIN all = {k \in Keys : \E i \in 0 .. n + 1 : GivesOf(ds, b, g, i, k)}
  BY <1>4, <1>5, <1>6, <1>11
<1>13. ASSUME NEW k \in Keys, NEW i \in 0 .. n + 1, GivesOf(ds, b, g, i, k),
              \A j \in 0 .. i - 1 : ~GivesOf(ds, b, g, j, k)
       PROVE  all[k] = IF i = 0 THEN g.labels[k] ELSE ds[i].value[k]
  <2>1. k \in DOMAIN all
    BY <1>12, <1>13
  <2>2. CASE i = n + 1
    <3>1. \A j \in 0 .. n : j \in 0 .. i - 1
      BY <2>2, <1>1
    <3>2. k \notin DOMAIN old
      BY <3>1, <1>5, <1>13
    <3>3. all[k] = new[k]
      BY <3>2, <2>1, <1>7
    <3> QED
      BY <3>3, <2>2, <1>1 DEF new
  <2>3. CASE i \in 0 .. n
    <3>1. ~cleared /\ GivesOf(cs, b, g, i, k)
      BY <2>3, <1>2, <1>13
    <3>2. \A j \in 0 .. i - 1 : j \in 0 .. n
      BY <2>3, <1>1
    <3>3. \A j \in 0 .. i - 1 : ~GivesOf(cs, b, g, j, k)
      BY <3>1, <3>2, <1>2, <1>13
    <3>4. labels[k] = IF i = 0 THEN g.labels[k] ELSE cs[i].value[k]
      BY <3>1, <3>3, <2>3 DEF FirstOf, n
    <3>5. i # 0 => ds[i] = cs[i]
      BY <2>3, <1>1
    <3>6. k \in DOMAIN old
      BY <2>3, <1>5, <1>13
    <3>7. all[k] = labels[k]
      BY <3>1, <3>6, <2>1, <1>7, <1>8
    <3> QED
      BY <3>4, <3>5, <3>7
  <2> QED
    BY <2>2, <2>3, <1>10
<1>14. \A k \in Keys, i \in 0 .. n + 1 :
         GivesOf(ds, b, g, i, k) /\ (\A j \in 0 .. i - 1 : ~GivesOf(ds, b, g, j, k))
           => all[k] = (IF i = 0 THEN g.labels[k] ELSE ds[i].value[k])
  BY <1>13
<1>15. FirstOf(ds, b, g, all)
  BY <1>1, <1>12, <1>14 DEF FirstOf
<1> QED
  BY <1>15 DEF ds, all, new

(***************************************************************************)
(* InstanceBuilders.                                                       *)
(***************************************************************************)
Methods == {"SetName", "SetDisplayName", "SetNodeCount", "AddLabels", "SetLabels"}

Paths == {"display_name", "node_count", "labels"}

AnyCall == [method : Methods,
            value : Names \cup DisplayNames \cup NodeCounts \cup Labels]

IsInstance(x) ==
  x = [name |-> x.name, display_name |-> x.display_name,
       node_count |-> x.node_count, labels |-> x.labels]

BuilderTypes ==
  /\ builder \in {"create", "update"}
  /\ IsInstance(instance)
  /\ field_mask \in Seq(Paths)
  /\ calls \in Seq(AnyCall)

\* request_ has the values that were set last, and the labels.
BuilderValues ==
  /\ LatestOf(calls, instance.name, "SetName", given.name)
  /\ LatestOf(calls, instance.display_name, "SetDisplayName", given.display_name)
  /\ LatestOf(calls, instance.node_count, "SetNodeCount", given.node_count)
  /\ FirstOf(calls, builder, given, instance.labels)

\* A path is in the mask when a call has set the field.
MaskOfCalls ==
  builder = "update" =>
    /\ InFieldMask("display_name") <=> Of(calls, "SetDisplayName") # {}
    /\ InFieldMask("node_count") <=> Of(calls, "SetNodeCount") # {}
    /\ InFieldMask("labels")
         <=> Of(calls, "AddLabels") \cup Of(calls, "SetLabels") # {}
    /\ \A i, j \in DOMAIN field_mask : field_mask[i] = field_mask[j] => i = j

CreatedFrom ==
  builder = "create" =>
    /\ \E in \in Ids : given = CreateInstanceRequest(in)
    /\ Of(calls, "SetName") = {}

BuilderInv == BuilderTypes /\ BuilderValues /\ MaskOfCalls /\ CreatedFrom

LEMMA NoCalls ==
  ASSUME NEW m
  PROVE  Of(<<>>, m) = {} /\ Len(<<>>) = 0
  BY DEF Of

LEMMA BuilderInvInit == BuilderInit => BuilderInv
<1> SUFFICES ASSUME BuilderInit PROVE BuilderInv
  OBVIOUS
<1>1. IsInstance(given) /\ DOMAIN given.labels \subseteq Keys
  BY BuildersAssumption
  DEF BuilderInit, IsInstance, CreateInstanceRequest, UpdateInstanceRequest, Named,
      NoLabels
<1>2. BuilderTypes
  BY <1>1 DEF BuilderInit, BuilderTypes
<1>3. FirstOf(calls, builder, given, instance.labels)
  <2>1. calls = <<>> /\ instance = given
    BY DEF BuilderInit
  <2>2. 0 .. Len(<<>>) = {0}
    BY NoCalls
  <2>3. \A k : GivesOf(<<>>, builder, given, 0, k) <=> k \in DOMAIN given.labels
    BY NoCalls DEF GivesOf, SourceOf
  <2> QED
    BY <1>1, <2>1, <2>2, <2>3 DEF FirstOf
<1>4. BuilderValues
  BY <1>3, NoCalls DEF BuilderInit, BuilderValues, LatestOf
<1>5. MaskOfCalls
  BY NoCalls DEF BuilderInit, MaskOfCalls, InFieldMask
<1>6. CreatedFrom
  BY NoCalls DEF BuilderInit, CreatedFrom
<1> QED
  BY <1>2, <1>4, <1>5, <1>6 DEF BuilderInv

\* What AddPath() and Called() do.
PathIsAdded(path) ==
  /\ field_mask' \in Seq(Paths)
  /\ builder = "update" =>
       /\ \A p : InFieldMask(p)' <=> p = path \/ InFieldMask(p)
       /\ (\A i, j \in DOMAIN field_mask : field_mask[i] = field_mask[j] => i = j)
            => \A i, j \in DOMAIN field_mask' : field_mask'[i] = field_mask'[j] => i = j

CallIsAdded(m, v) ==
  /\ builder' = builder /\ given' = given
  /\ calls' = Append(calls, [method |-> m, value |-> v])
  /\ calls \in Seq(AnyCall) /\ calls' \in Seq(AnyCall)
  /\ [method |-> m, value |-> v] \in AnyCall
  /\ \A o : Of(calls', o) # {} <=> o = m \/ Of(calls, o) # {}
  /\ \A value, o, before :
       o # m /\ LatestOf(calls, value, o, before) => LatestOf(calls', value, o, before)
  /\ \A before : LatestOf(calls', v, m, before)

LEMMA PathAdded ==
  ASSUME NEW path \in Paths, AddPath(path), BuilderInv
  PROVE  PathIsAdded(path)
<1> USE DEF BuilderInv, BuilderTypes, PathIsAdded
<1>1. CASE builder = "create" \/ InFieldMask(path)
  BY <1>1 DEF AddPath, InFieldMask
<1>2. CASE ~(builder = "create" \/ InFieldMask(path))
  <2> DEFINE n == Len(field_mask)
  <2>1. field_mask' = Append(field_mask, path) /\ field_mask \in Seq(Paths)
    BY <1>2 DEF AddPath
  <2>2. /\ n \in Nat
        /\ field_mask' \in Seq(Paths)
        /\ DOMAIN field_mask = 1 .. n /\ DOMAIN field_mask' = 1 .. n + 1
        /\ \A i \in 1 .. n : field_mask'[i] = field_mask[i]
        /\ field_mask'[n + 1] = path
    BY <2>1
  <2>3. /\ \A i \in 1 .. n + 1 : i \in 1 .. n \/ i = n + 1
        /\ \A i \in 1 .. n : i \in 1 .. n + 1
        /\ n + 1 \in 1 .. n + 1
    BY <2>2
  <2> HIDE DEF n
  <2>4. \A p : InFieldMask(p)' <=> p = path \/ InFieldMask(p)
    BY <2>2, <2>3 DEF InFieldMask
  <2>5. \A i \in 1 .. n : field_mask[i] # path
    BY <1>2, <2>2 DEF InFieldMask
  <2> QED
    BY <2>2, <2>3, <2>4, <2>5
<1> QED
  BY <1>1, <1>2

LEMMA CallAdded ==
  ASSUME BuilderInv, NEW m \in Methods,
         NEW v \in Names \cup DisplayNames \cup NodeCounts \cup Labels, Called(m, v)
  PROVE  CallIsAdded(m, v)
<1> DEFINE c == [method |-> m, value |-> v]
<1>1. c \in AnyCall /\ c.method = m /\ c.value = v /\ calls \in Seq(AnyCall)
  BY DEF AnyCall, BuilderInv, BuilderTypes
<1>2. calls' = Append(calls, c) /\ builder' = builder /\ given' = given
  BY DEF Called
<1> HIDE DEF c
<1>3. calls' \in Seq(AnyCall)
  BY <1>1, <1>2, OneMore
<1>4. \A o : Of(calls', o) # {} <=> o = m \/ Of(calls, o) # {}
  <2> TAKE o
  <2>1. Of(calls', o) = IF c.method = o THEN Of(calls, o) \cup {Len(calls) + 1}
                        ELSE Of(calls, o)
    BY <1>1, <1>2, CallsOfMore
  <2> QED
    BY <2>1, <1>1
<1>5. \A value, o, before :
        o # m /\ LatestOf(calls, value, o, before) => LatestOf(calls', value, o, before)
  BY <1>1, <1>2, LatestIsKept
<1>6. \A before : LatestOf(calls', v, m, before)
  BY <1>1, <1>2, LatestIsNew
<1> QED
  BY <1>1, <1>2, <1>3, <1>4, <1>5, <1>6 DEF c, CallIsAdded

LEMMA BuilderInvNext == BuilderInv /\ [BuilderNext]_builderVars => BuilderInv'
<1> SUFFICES ASSUME BuilderInv, [BuilderNext]_builderVars PROVE BuilderInv'
  OBVIOUS
<1>0. BuilderTypes /\ BuilderValues /\ MaskOfCalls /\ CreatedFrom
  BY DEF BuilderInv
<1>1. CASE SetName
  <2>1. PICK v \in Names :
          /\ builder = "update"
          /\ instance' = [instance EXCEPT !.name = v]
          /\ UNCHANGED field_mask
          /\ Called("SetName", v)
    BY <1>1 DEF SetName
  <2>2. CallIsAdded("SetName", v)
    <3>1. /\ Called("SetName", v)
          /\ v \in Names \cup DisplayNames \cup NodeCounts \cup Labels
      BY <2>1
    <3> QED
      BY <3>1, CallAdded DEF Methods
  <2>3. /\ instance'.name = v /\ instance'.display_name = instance.display_name
        /\ instance'.node_count = instance.node_count
        /\ instance'.labels = instance.labels
        /\ IsInstance(instance)'
    BY <1>0, <2>1 DEF BuilderTypes, IsInstance
  <2>4. BuilderTypes'
    BY <1>0, <2>1, <2>2, <2>3 DEF BuilderTypes, CallIsAdded
  <2>5. FirstOf(calls', builder', given', instance'.labels)
    BY <1>0, <2>2, <2>3, LabelsAreKept DEF BuilderValues, CallIsAdded
  <2>6. BuilderValues'
    BY <1>0, <2>2, <2>3, <2>5 DEF BuilderValues, CallIsAdded
  <2>7. MaskOfCalls'
    BY <1>0, <2>1, <2>2 DEF MaskOfCalls, InFieldMask, CallIsAdded
  <2>8. CreatedFrom'
    BY <1>0, <2>1, <2>2 DEF CreatedFrom, CallIsAdded
  <2> QED
    BY <2>4, <2>6, <2>7, <2>8 DEF BuilderInv
<1>2. CASE SetDisplayName
  <2>1. PICK v \in DisplayNames :
          /\ AddPath("display_name")
          /\ instance' = [instance EXCEPT !.display_name = v]
          /\ Called("SetDisplayName", v)
    BY <1>2 DEF SetDisplayName
  <2>2. CallIsAdded("SetDisplayName", v) /\ PathIsAdded("display_name")
    <3>1. /\ Called("SetDisplayName", v) /\ AddPath("display_name")
          /\ v \in Names \cup DisplayNames \cup NodeCounts \cup Labels
      BY <2>1
    <3> QED
      BY <3>1, CallAdded, PathAdded DEF Methods, Paths
  <2>3. /\ instance'.name = instance.name
        /\ instance'.display_name = v
        /\ instance'.node_count = instance.node_count
        /\ instance'.labels = instance.labels
        /\ IsInstance(instance)'
    BY <1>0, <2>1 DEF BuilderTypes, IsInstance
  <2>4. BuilderTypes'
    BY <1>0, <2>2, <2>3 DEF BuilderTypes, CallIsAdded, PathIsAdded
  <2>5. FirstOf(calls', builder', given', instance'.labels)
    BY <1>0, <2>2, <2>3, LabelsAreKept DEF BuilderValues, CallIsAdded
  <2>6. BuilderValues'
    BY <1>0, <2>2, <2>3, <2>5 DEF BuilderValues, CallIsAdded
  <2>7. MaskOfCalls'
    BY <1>0, <2>2 DEF MaskOfCalls, CallIsAdded, PathIsAdded
  <2>8. CreatedFrom'
    BY <1>0, <2>2 DEF CreatedFrom, CallIsAdded
  <2> QED
    BY <2>4, <2>6, <2>7, <2>8 DEF BuilderInv
<1>3. CASE SetNodeCount
  <2>1. PICK v \in NodeCounts :
          /\ AddPath("node_count")
          /\ instance' = [instance EXCEPT !.node_count = v]
          /\ Called("SetNodeCount", v)
    BY <1>3 DEF SetNodeCount
  <2>2. CallIsAdded("SetNodeCount", v) /\ PathIsAdded("node_count")
    <3>1. /\ Called("SetNodeCount", v) /\ AddPath("node_count")
          /\ v \in Names \cup DisplayNames \cup NodeCounts \cup Labels
      BY <2>1
    <3> QED
      BY <3>1, CallAdded, PathAdded DEF Methods, Paths
  <2>3. /\ instance'.name = instance.name
        /\ instance'.display_name = instance.display_name
        /\ instance'.node_count = v
        /\ instance'.labels = instance.labels
        /\ IsInstance(instance)'
    BY <1>0, <2>1 DEF BuilderTypes, IsInstance
  <2>4. BuilderTypes'
    BY <1>0, <2>2, <2>3 DEF BuilderTypes, CallIsAdded, PathIsAdded
  <2>5. FirstOf(calls', builder', given', instance'.labels)
    BY <1>0, <2>2, <2>3, LabelsAreKept DEF BuilderValues, CallIsAdded
  <2>6. BuilderValues'
    BY <1>0, <2>2, <2>3, <2>5 DEF BuilderValues, CallIsAdded
  <2>7. MaskOfCalls'
    BY <1>0, <2>2 DEF MaskOfCalls, CallIsAdded, PathIsAdded
  <2>8. CreatedFrom'
    BY <1>0, <2>2 DEF CreatedFrom, CallIsAdded
  <2> QED
    BY <2>4, <2>6, <2>7, <2>8 DEF BuilderInv
<1>4. CASE AddLabels
  <2>1. PICK v \in Labels :
          /\ builder = "update"
          /\ AddPath("labels")
          /\ instance' = [instance EXCEPT !.labels = InsertLabels(@, v)]
          /\ Called("AddLabels", v)
    BY <1>4 DEF AddLabels
  <2>2. CallIsAdded("AddLabels", v) /\ PathIsAdded("labels")
    <3>1. /\ Called("AddLabels", v) /\ AddPath("labels")
          /\ v \in Names \cup DisplayNames \cup NodeCounts \cup Labels
      BY <2>1
    <3> QED
      BY <3>1, CallAdded, PathAdded DEF Methods, Paths
  <2>3. /\ instance'.name = instance.name
        /\ instance'.display_name = instance.display_name
        /\ instance'.node_count = instance.node_count
        /\ instance'.labels = InsertLabels(instance.labels, v)
        /\ IsInstance(instance)'
    BY <1>0, <2>1 DEF BuilderTypes, IsInstance
  <2>4. BuilderTypes'
    BY <1>0, <2>2, <2>3 DEF BuilderTypes, CallIsAdded, PathIsAdded
  <2>5. FirstOf(calls', builder', given', instance'.labels)
    BY <1>0, <2>1, <2>2, <2>3, LabelsAreAdded DEF BuilderValues, CallIsAdded, LabelsBefore
  <2>6. BuilderValues'
    BY <1>0, <2>2, <2>3, <2>5 DEF BuilderValues, CallIsAdded
  <2>7. MaskOfCalls'
    BY <1>0, <2>2 DEF MaskOfCalls, CallIsAdded, PathIsAdded
  <2>8. CreatedFrom'
    BY <1>0, <2>2 DEF CreatedFrom, CallIsAdded
  <2> QED
    BY <2>4, <2>6, <2>7, <2>8 DEF BuilderInv
<1>5. CASE SetLabels
  <2>1. PICK v \in Labels :
          /\ AddPath("labels")
          /\ instance' = [instance EXCEPT !.labels = InsertLabels(LabelsBefore, v)]
          /\ Called("SetLabels", v)
    BY <1>5 DEF SetLabels
  <2>2. CallIsAdded("SetLabels", v) /\ PathIsAdded("labels")
    <3>1. /\ Called("SetLabels", v) /\ AddPath("labels")
          /\ v \in Names \cup DisplayNames \cup NodeCounts \cup Labels
      BY <2>1
    <3> QED
      BY <3>1, CallAdded, PathAdded DEF Methods, Paths
  <2>3. /\ instance'.name = instance.name
        /\ instance'.display_name = instance.display_name
        /\ instance'.node_count = instance.node_count
        /\ instance'.labels = InsertLabels(LabelsBefore, v)
        /\ IsInstance(instance)'
    BY <1>0, <2>1 DEF BuilderTypes, IsInstance
  <2>4. BuilderTypes'
    BY <1>0, <2>2, <2>3 DEF BuilderTypes, CallIsAdded, PathIsAdded
  <2>5. FirstOf(calls', builder', given', instance'.labels)
    BY <1>0, <2>1, <2>2, <2>3, LabelsAreAdded DEF BuilderValues, CallIsAdded, LabelsBefore
  <2>6. BuilderValues'
    BY <1>0, <2>2, <2>3, <2>5 DEF BuilderValues, CallIsAdded
  <2>7. MaskOfCalls'
    BY <1>0, <2>2 DEF MaskOfCalls, CallIsAdded, PathIsAdded
  <2>8. CreatedFrom'
    BY <1>0, <2>2 DEF CreatedFrom, CallIsAdded
  <2> QED
    BY <2>4, <2>6, <2>7, <2>8 DEF BuilderInv
<1>6. CASE UNCHANGED builderVars
  BY <1>0, <1>6
  DEF builderVars, BuilderInv, BuilderTypes, BuilderValues, MaskOfCalls, CreatedFrom, InFieldMask
<1> QED
  BY <1>1, <1>2, <1>3, <1>4, <1>5, <1>6 DEF BuilderNext

LEMMA BuilderInvAlways == BuilderSpec => []BuilderInv
<1>1. BuilderInit => BuilderInv
  BY BuilderInvInit
<1>2. BuilderInv /\ [BuilderNext]_builderVars => BuilderInv'
  BY BuilderInvNext
<1> QED
  BY <1>1, <1>2, PTL DEF BuilderSpec

LEMMA BuilderTerms ==
  /\ \A m : CallsOf(m) = Of(calls, m)
  /\ \A value, m, before : IsLatest(value, m, before) <=> LatestOf(calls, value, m, before)
  /\ \A labels : LabelsAreFirst(labels) <=> FirstOf(calls, builder, given, labels)
  BY DEF CallsOf, Of, IsLatest, LatestOf, LabelsAreFirst, FirstOf, Gives, GivesOf,
         Source, SourceOf, ValueFrom

\* An update leaves the instance as the calls of its builder describe it.
THEOREM BuilderUpdatesCorrect == BuilderSpec => []BuilderUpdatesInstance
<1>1. BuilderInv => BuilderUpdatesInstance
  <2> SUFFICES ASSUME BuilderInv, builder = "update", instance.name \in Names
               PROVE  BuilderUpdatesInstance
    BY DEF BuilderUpdatesInstance
  <2> DEFINE was == stored[instance.name]
  <2>1. IsLatest(instance.name, "SetName", given.name)
    BY BuilderTerms DEF BuilderInv, BuilderValues
  <2>2. IsLatest(Updated("display_name", instance.display_name, was.display_name),
                 "SetDisplayName", was.display_name)
    <3>1. LatestOf(calls, instance.display_name, "SetDisplayName", given.display_name)
      BY DEF BuilderInv, BuilderValues
    <3>2. InFieldMask("display_name") <=> Of(calls, "SetDisplayName") # {}
      BY DEF BuilderInv, MaskOfCalls
    <3>3. LatestOf(calls, Updated("display_name", instance.display_name, was.display_name),
                   "SetDisplayName", was.display_name)
      BY <3>1, <3>2 DEF LatestOf, Updated
    <3> QED
      BY <3>3, BuilderTerms
  <2>3. IsLatest(Updated("node_count", instance.node_count, was.node_count),
                 "SetNodeCount", was.node_count)
    <3>1. LatestOf(calls, instance.node_count, "SetNodeCount", given.node_count)
      BY DEF BuilderInv, BuilderValues
    <3>2. InFieldMask("node_count") <=> Of(calls, "SetNodeCount") # {}
      BY DEF BuilderInv, MaskOfCalls
    <3>3. LatestOf(calls, Updated("node_count", instance.node_count, was.node_count),
                   "SetNodeCount", was.node_count)
      BY <3>1, <3>2 DEF LatestOf, Updated
    <3> QED
      BY <3>3, BuilderTerms
  <2>4. IF CallsOf("AddLabels") \cup CallsOf("SetLabels") = {}
        THEN Updated("labels", instance.labels, was.labels) = was.labels
        ELSE LabelsAreFirst(Updated("labels", instance.labels, was.labels))
    <3>1. InFieldMask("labels")
            <=> CallsOf("AddLabels") \cup CallsOf("SetLabels") # {}
      BY BuilderTerms DEF BuilderInv, MaskOfCalls
    <3>2. LabelsAreFirst(instance.labels)
      BY BuilderTerms DEF BuilderInv, BuilderValues
    <3> QED
      BY <3>1, <3>2 DEF Updated
  <2>5. \A i, j \in DOMAIN field_mask : field_mask[i] = field_mask[j] => i = j
    BY DEF BuilderInv, MaskOfCalls
  <2> QED
    BY <2>1, <2>2, <2>3, <2>4, <2>5 DEF BuilderUpdatesInstance
<1> QED
  BY <1>1, BuilderInvAlways, PTL

\* The request for a new instance has what the calls of its builder say.
THEOREM BuilderCreatesCorrect == BuilderSpec => []BuilderCreatesInstance
<1>1. BuilderInv => BuilderCreatesInstance
  <2> SUFFICES ASSUME BuilderInv, builder = "create" PROVE BuilderCreatesInstance
    BY DEF BuilderCreatesInstance
  <2>1. PICK in \in Ids : given = CreateInstanceRequest(in)
    BY DEF BuilderInv, CreatedFrom
  <2>2. /\ given.name = InstanceName(in) /\ given.display_name = in.instance
        /\ given.node_count = 1
    BY <2>1 DEF CreateInstanceRequest
  <2>3. instance.name = given.name
    BY DEF BuilderInv, BuilderValues, CreatedFrom, LatestOf
  <2>4. /\ IsLatest(instance.display_name, "SetDisplayName", given.display_name)
        /\ IsLatest(instance.node_count, "SetNodeCount", given.node_count)
        /\ LabelsAreFirst(instance.labels)
    BY BuilderTerms DEF BuilderInv, BuilderValues
  <2> QED
    BY <2>2, <2>3, <2>4 DEF BuilderCreatesInstance
<1> QED
  BY <1>1, BuilderInvAlways, PTL

\* Whatever is called, and how often, a request says what the calls say.
THEOREM BuilderAlwaysFaithful == BuilderSpec => []BuilderIsFaithful
  BY BuilderUpdatesCorrect, BuilderCreatesCorrect, PTL DEF BuilderIsFaithful

(***************************************************************************)
(* What an RPC returns.                                                    *)
(***************************************************************************)
LEMMA KindsOfStubs ==
  ASSUME NEW service \in {"spanner", "database_admin", "instance_admin"},
         NEW rpc \in RpcsOf(service)
  PROVE  /\ IsLogged(service, rpc)
         /\ KindOf(service, rpc) \in {"status_or", "status", "stream", "async"}
         /\ service # "spanner" => KindOf(service, rpc) \in {"status_or", "status"}
<1>1. IsLogged(service, rpc)
  BY DEF IsLogged, LoggingSpannerStub, DatabaseAdminLogging, InstanceAdminLogging
<1>2. PICK k \in DOMAIN Services[service] : rpc \in Services[service][k]
  BY DEF RpcsOf
<1>3. KindOf(service, rpc) \in DOMAIN Services[service]
  BY <1>2 DEF KindOf
<1>4. /\ DOMAIN SpannerStub = {"status_or", "status", "stream", "async"}
      /\ DOMAIN DatabaseAdminStub = {"status_or", "status"}
      /\ DOMAIN InstanceAdminStub = {"status_or", "status"}
  BY DEF SpannerStub, DatabaseAdminStub, InstanceAdminStub
<1>5. /\ Services["spanner"] = SpannerStub
      /\ Services["database_admin"] = DatabaseAdminStub
      /\ Services["instance_admin"] = InstanceAdminStub
  BY DEF Services
<1> QED
  BY <1>1, <1>3, <1>4, <1>5

\* What the default stub makes of an answer.
LEMMA DefaultCallReturns ==
  ASSUME NEW service \in {"spanner", "database_admin", "instance_admin"},
         NEW rpc \in RpcsOf(service), NEW a \in Replies
  PROVE  LET kind == KindOf(service, rpc)
             r == DefaultCall(service, rpc, a)
         IN /\ r = [status |-> r.status, value |-> r.value]
            /\ kind \in {"stream", "async"} => r.status = OkStatus /\ r.value = a.value
            /\ kind \notin {"stream", "async"} =>
                 /\ r.status = a.status
                 /\ kind = "status_or" /\ IsOk(a.status) => r.value = a.value
<1> DEFINE kind == KindOf(service, rpc)
           u == UnaryResult(kind, a)
           r == DefaultCall(service, rpc, a)
<1>1. IsOk(a.status) => a.status = OkStatus
  BY StubsAssumption
<1>2. /\ u = [status |-> u.status, value |-> u.value]
      /\ u.status = a.status
      /\ kind = "status_or" /\ IsOk(a.status) => u.value = a.value
  <2> HIDE DEF kind
  <2> QED
    BY <1>1 DEF UnaryResult
<1>3. CASE service = "spanner" /\ kind \in {"stream", "async"}
  <2>1. r = [status |-> OkStatus, value |-> a.value]
    BY <1>3 DEF DefaultCall, DefaultSpannerStub
  <2> QED
    BY <1>3, <2>1
<1>4. CASE service = "spanner" /\ kind \notin {"stream", "async"}
  <2>1. r = u
    BY <1>4 DEF DefaultCall, DefaultSpannerStub
  <2> QED
    BY <1>2, <1>4, <2>1
<1>5. CASE service # "spanner"
  <2>1. kind \notin {"stream", "async"}
    BY <1>5, KindsOfStubs
  <2>2. r = u
    BY <1>5 DEF DefaultCall, DefaultDatabaseAdminStub, DefaultInstanceAdminStub
  <2> QED
    BY <1>2, <2>1, <2>2
<1> QED
  BY <1>3, <1>4, <1>5

(***************************************************************************)
(* Stubs.                                                                  *)
(***************************************************************************)
\* What each try sends and logs.
Routed == [context |-> SetMetadata(<<>>, call.rpc, call.request),
           request |-> call.request]
RequestLine == <<call.rpc, "request", call.request>>
ResultOf(a) == DefaultCall(call.service, call.rpc, a)
AnswerLine(a) == LogWrapper(KindOf(call.service, call.rpc), call.rpc, ResultOf(a))

StubTypes ==
  /\ call.service \in {"spanner", "database_admin", "instance_admin"}
  /\ call.rpc \in RpcsOf(call.service)
  /\ call.is_idempotent \in BOOLEAN
  /\ at \in {"loop", "logging", "metadata", "default", "logged", "returned", "done"}
  /\ failures \in Nat
  /\ sent \in Seq({Routed})
  /\ replies \in Seq(Replies)
  /\ log \in Seq({RequestLine} \cup {AnswerLine(a) : a \in Replies})

\* The context of a try is its own.
ContextIsFresh ==
  /\ at \in {"logging", "metadata"} => context = <<>>
  /\ at = "default" => context = SetMetadata(<<>>, call.rpc, call.request)

\* Every try but the last has failed and may be repeated.
TriesAreCounted ==
  /\ Len(sent) = Len(replies)
  /\ Len(replies) = IF at \in {"logged", "returned", "done"} THEN failures + 1
                    ELSE failures
  /\ \A i \in 1 .. failures : ~Final(i)
  /\ at = "done" => Final(failures + 1)

ResultIsReply ==
  /\ at \in {"logged", "returned"} => result = ResultOf(replies[failures + 1])
  /\ at = "done" =>
       LET r == ResultOf(replies[failures + 1])
       IN result = IF IsOk(r.status) THEN r
                   ELSE [r EXCEPT !.status = LoopResult(call.is_idempotent, @)]

\* The log has two lines for each try.
LogOfTries ==
  IF "rpc" \notin tracing THEN log = <<>> /\ at \notin {"logging", "logged"}
  ELSE /\ Len(log) = CASE at \in {"loop", "logging"} -> 2 * failures
                       [] at \in {"metadata", "default", "logged"} -> 2 * failures + 1
                       [] OTHER -> 2 * failures + 2
       /\ \A i \in Nat \ {0} :
            /\ 2 * i - 1 <= Len(log) => log[2 * i - 1] = RequestLine
            /\ 2 * i <= Len(log) => log[2 * i] = AnswerLine(replies[i])

StubInv ==
  StubTypes /\ ContextIsFresh /\ TriesAreCounted /\ ResultIsReply /\ LogOfTries

LEMMA StubInvInit == StubInit => StubInv
<1> SUFFICES ASSUME StubInit PROVE StubInv
  OBVIOUS
<1>1. StubTypes
  BY DEF StubInit, StubTypes
<1>2. ContextIsFresh /\ TriesAreCounted /\ ResultIsReply
  BY DEF StubInit, ContextIsFresh, TriesAreCounted, ResultIsReply
<1>3. LogOfTries
  BY DEF StubInit, LogOfTries
<1> QED
  BY <1>1, <1>2, <1>3 DEF StubInv

LEMMA StubInvNext == StubInv /\ [StubNext]_stubVars => StubInv'
<1> SUFFICES ASSUME StubInv, [StubNext]_stubVars PROVE StubInv'
  OBVIOUS
<1>0. StubTypes /\ ContextIsFresh /\ TriesAreCounted /\ ResultIsReply /\ LogOfTries
  BY DEF StubInv
<1> USE DEF StubInv
<1>1. CASE Try
  <2>1. /\ at = "loop" /\ context' = <<>>
        /\ at' = IF "rpc" \in tracing THEN "logging" ELSE "metadata"
        /\ UNCHANGED <<call, tracing, failures, sent, replies, log, result>>
    <3>1. StubOf(call.service) = Outermost
      BY <1>0 DEF StubTypes, StubOf, CreateDefaultSpannerStub,
         CreateDefaultDatabaseAdminStub, CreateDefaultInstanceAdminStub
    <3> QED
      BY <1>1, <3>1 DEF Try, NextContext, Outermost
  <2>2. StubTypes'
    BY <1>0, <2>1 DEF StubTypes, Routed, RequestLine, AnswerLine, ResultOf
  <2>3. ContextIsFresh'
    BY <2>1 DEF ContextIsFresh
  <2>4. TriesAreCounted'
    BY <1>0, <2>1 DEF TriesAreCounted, Final, Deferred
  <2>5. ResultIsReply'
    BY <2>1 DEF ResultIsReply
  <2>6. LogOfTries'
    BY <1>0, <2>1 DEF LogOfTries, RequestLine, AnswerLine, ResultOf
  <2> QED
    BY <2>2, <2>3, <2>4, <2>5, <2>6
<1>2. CASE LogRequest
  <2>1. /\ at = "logging" /\ at' = "metadata"
        /\ log' = Append(log, RequestLine)
        /\ UNCHANGED <<call, tracing, context, failures, sent, replies, result>>
    BY <1>0, <1>2, KindsOfStubs DEF LogRequest, StubTypes, RequestLine
  <2>2. /\ log' \in Seq({RequestLine} \cup {AnswerLine(a) : a \in Replies})
        /\ Len(log) \in Nat /\ Len(log') = Len(log) + 1
        /\ \A i \in 1 .. Len(log) : log'[i] = log[i]
        /\ log'[Len(log) + 1] = RequestLine
    BY <1>0, <2>1, OneMore DEF StubTypes
  <2>3. StubTypes'
    BY <1>0, <2>1, <2>2 DEF StubTypes, Routed, RequestLine, AnswerLine, ResultOf
  <2>4. ContextIsFresh'
    BY <1>0, <2>1 DEF ContextIsFresh
  <2>5. TriesAreCounted'
    BY <1>0, <2>1 DEF TriesAreCounted, Final, Deferred
  <2>6. ResultIsReply'
    BY <2>1 DEF ResultIsReply
  <2>7. "rpc" \in tracing /\ Len(log) = 2 * failures /\ failures \in Nat
    BY <1>0, <2>1 DEF LogOfTries, StubTypes
  <2>8. ASSUME NEW i \in Nat \ {0}
        PROVE  /\ 2 * i - 1 <= Len(log') => log'[2 * i - 1] = RequestLine
               /\ 2 * i <= Len(log') => log'[2 * i] = AnswerLine(replies[i])
    <3>1. /\ 2 * i - 1 <= Len(log) => log[2 * i - 1] = RequestLine
          /\ 2 * i <= Len(log) => log[2 * i] = AnswerLine(replies[i])
      BY <1>0, <2>7 DEF LogOfTries
    <3>2. 2 * i <= Len(log') => 2 * i <= Len(log)
      BY <2>2, <2>7
    <3>3. 2 * i - 1 <= Len(log') => 2 * i - 1 <= Len(log) \/ 2 * i - 1 = Len(log) + 1
      BY <2>2, <2>7
    <3>4. 2 * i - 1 >= 1 /\ 2 * i >= 1
      OBVIOUS
    <3> QED
      BY <2>2, <3>1, <3>2, <3>3, <3>4
  <2>9. LogOfTries'
    BY <2>1, <2>2, <2>7, <2>8 DEF LogOfTries, RequestLine, AnswerLine, ResultOf
  <2> QED
    BY <2>3, <2>4, <2>5, <2>6, <2>9
<1>3. CASE AddMetadata
  <2>1. /\ at = "metadata" /\ at' = "default"
        /\ context' = SetMetadata(context, call.rpc, call.request)
        /\ UNCHANGED <<call, tracing, failures, sent, replies, log, result>>
    BY <1>3 DEF AddMetadata
  <2>2. StubTypes'
    BY <1>0, <2>1 DEF StubTypes, Routed, RequestLine, AnswerLine, ResultOf
  <2>3. ContextIsFresh'
    BY <1>0, <2>1 DEF ContextIsFresh
  <2>4. TriesAreCounted'
    BY <1>0, <2>1 DEF TriesAreCounted, Final, Deferred
  <2>5. ResultIsReply'
    BY <2>1 DEF ResultIsReply
  <2>6. LogOfTries'
    BY <1>0, <2>1 DEF LogOfTries, RequestLine, AnswerLine, ResultOf
  <2> QED
    BY <2>2, <2>3, <2>4, <2>5, <2>6
<1>4. CASE Send
  <2>1. PICK a \in Replies :
          /\ replies' = Append(replies, a)
          /\ result' = ResultOf(a)
    BY <1>4 DEF Send, ResultOf
  <2>2. /\ at = "default" /\ at' = IF "rpc" \in tracing THEN "logged" ELSE "returned"
        /\ sent' = Append(sent, [context |-> context, request |-> call.request])
        /\ UNCHANGED <<call, tracing, context, failures, log>>
    BY <1>4 DEF Send
  <2>3. [context |-> context, request |-> call.request] = Routed
    BY <1>0, <2>2 DEF ContextIsFresh, Routed
  <2>4. /\ sent' \in Seq({Routed}) /\ Len(sent') = Len(sent) + 1
    BY <1>0, <2>2, <2>3, OneMore DEF StubTypes
  <2>5. /\ replies' \in Seq(Replies) /\ Len(replies) \in Nat
        /\ Len(replies') = Len(replies) + 1
        /\ \A i \in 1 .. Len(replies) : replies'[i] = replies[i]
        /\ replies'[Len(replies) + 1] = a
    BY <1>0, <2>1, OneMore DEF StubTypes
  <2>6. Len(sent) = Len(replies) /\ Len(replies) = failures /\ failures \in Nat
    BY <1>0, <2>2 DEF TriesAreCounted, StubTypes
  <2>7. StubTypes'
    BY <1>0, <2>2, <2>4, <2>5 DEF StubTypes, Routed, RequestLine, AnswerLine, ResultOf
  <2>8. ContextIsFresh'
    BY <2>2 DEF ContextIsFresh
  <2>9. TriesAreCounted'
    <3>1. \A i \in 1 .. failures : Final(i)' <=> Final(i)
      BY <2>2, <2>5, <2>6 DEF Final, Deferred
    <3> QED
      BY <1>0, <2>2, <2>4, <2>5, <2>6, <3>1 DEF TriesAreCounted
  <2>10. ResultIsReply'
    BY <2>1, <2>2, <2>5, <2>6 DEF ResultIsReply, ResultOf
  <2>11. LogOfTries'
    <3>1. CASE "rpc" \notin tracing
      BY <1>0, <2>2, <3>1 DEF LogOfTries
    <3>2. CASE "rpc" \in tracing
      <4>1. Len(log) = 2 * failures + 1
        BY <1>0, <2>2, <3>2 DEF LogOfTries
      <4>2. ASSUME NEW i \in Nat \ {0}, 2 * i <= Len(log)
            PROVE  log[2 * i] = AnswerLine(replies'[i])
        <5>1. i \in 1 .. Len(replies)
          BY <4>1, <4>2, <2>6
        <5> QED
          BY <1>0, <3>2, <4>2, <5>1, <2>5 DEF LogOfTries
      <4> QED
        BY <1>0, <2>2, <3>2, <4>1, <4>2 DEF LogOfTries, RequestLine, AnswerLine, ResultOf
    <3> QED
      BY <3>1, <3>2
  <2> QED
    BY <2>7, <2>8, <2>9, <2>10, <2>11
<1>5. CASE LogResponse
  <2> DEFINE n == failures + 1
  <2>1. /\ at = "logged" /\ at' = "returned"
        /\ log' = Append(log, LogWrapper(KindOf(call.service, call.rpc), call.rpc, result))
        /\ UNCHANGED <<call, tracing, context, failures, sent, replies, result>>
    BY <1>0, <1>5, KindsOfStubs DEF LogResponse, StubTypes
  <2>2. /\ failures \in Nat /\ Len(replies) = n
        /\ replies \in Seq(Replies) /\ replies[n] \in Replies
    <3>1. failures \in Nat /\ Len(replies) = n /\ replies \in Seq(Replies)
      BY <1>0, <2>1 DEF TriesAreCounted, StubTypes
    <3> QED
      BY <3>1
  <2>3. log' = Append(log, AnswerLine(replies[n]))
    BY <1>0, <2>1 DEF ResultIsReply, AnswerLine
  <2>4. /\ log' \in Seq({RequestLine} \cup {AnswerLine(a) : a \in Replies})
        /\ Len(log) \in Nat /\ Len(log') = Len(log) + 1
        /\ \A i \in 1 .. Len(log) : log'[i] = log[i]
        /\ log'[Len(log) + 1] = AnswerLine(replies[n])
    BY <1>0, <2>2, <2>3, OneMore DEF StubTypes
  <2>5. StubTypes'
    BY <1>0, <2>1, <2>4 DEF StubTypes, Routed, RequestLine, AnswerLine, ResultOf
  <2>6. ContextIsFresh'
    BY <2>1 DEF ContextIsFresh
  <2>7. TriesAreCounted'
    BY <1>0, <2>1 DEF TriesAreCounted, Final, Deferred
  <2>8. ResultIsReply'
    BY <1>0, <2>1 DEF ResultIsReply, ResultOf
  <2>9. "rpc" \in tracing /\ Len(log) = 2 * failures + 1
    BY <1>0, <2>1 DEF LogOfTries
  <2>10. ASSUME NEW i \in Nat \ {0}
         PROVE  /\ 2 * i - 1 <= Len(log') => log'[2 * i - 1] = RequestLine
                /\ 2 * i <= Len(log') => log'[2 * i] = AnswerLine(replies[i])
    <3>1. /\ 2 * i - 1 <= Len(log) => log[2 * i - 1] = RequestLine
          /\ 2 * i <= Len(log) => log[2 * i] = AnswerLine(replies[i])
      BY <1>0, <2>9 DEF LogOfTries
    <3>2. 2 * i <= Len(log') => 2 * i <= Len(log) \/ (2 * i = Len(log) + 1 /\ i = n)
      BY <2>2, <2>4, <2>9
    <3>3. 2 * i - 1 <= Len(log') => 2 * i - 1 <= Len(log)
      BY <2>2, <2>4, <2>9
    <3>4. 2 * i - 1 >= 1 /\ 2 * i >= 1
      OBVIOUS
    <3> QED
      BY <2>4, <3>1, <3>2, <3>3, <3>4
  <2>11. LogOfTries'
    BY <2>1, <2>2, <2>4, <2>9, <2>10 DEF LogOfTries, RequestLine, AnswerLine, ResultOf
  <2> QED
    BY <2>5, <2>6, <2>7, <2>8, <2>11
<1>6. CASE TryReturns
  <2> DEFINE n == failures + 1
             r == ResultOf(replies[n])
  <2>1. at = "returned" /\ UNCHANGED <<call, tracing, context, sent, replies, log>>
    BY <1>6 DEF TryReturns
  <2>2. /\ failures \in Nat /\ Len(replies) = n
        /\ replies[n] \in Replies /\ result = r
        /\ call.service \in {"spanner", "database_admin", "instance_admin"}
        /\ call.rpc \in RpcsOf(call.service)
    <3>1. /\ failures \in Nat /\ Len(replies) = n /\ replies \in Seq(Replies)
          /\ result = r
      BY <1>0, <2>1 DEF TriesAreCounted, StubTypes, ResultIsReply
    <3> QED
      BY <1>0, <3>1 DEF StubTypes
  <2>3. /\ Deferred => IsOk(r.status)
        /\ ~Deferred => r.status = replies[n].status
    <3>1. /\ Deferred => r.status = OkStatus
          /\ ~Deferred => r.status = replies[n].status
      BY <2>2, DefaultCallReturns DEF ResultOf, Deferred
    <3> QED
      BY <3>1 DEF IsOk, OkStatus, MakeStatus
  <2>4. Final(n) <=> ~(/\ ~IsOk(r.status)
                       /\ CallsAgain(call.is_idempotent, r.status, failures, MaxFailures))
    BY <2>2, <2>3, StubsAssumption
    DEF Final, CallsAgain, OnFailure, IsPermanentFailure
  <2> HIDE DEF r
  <2>5. \A i : Final(i)' <=> Final(i)
    BY <2>1 DEF Final, Deferred
  <2>6. ContextIsFresh'
    BY <1>6 DEF ContextIsFresh, TryReturns
  <2>7. CASE ~Final(n)
    <3>1. failures' = failures + 1 /\ at' = "loop" /\ UNCHANGED result
      BY <1>6, <2>2, <2>4, <2>7 DEF TryReturns
    <3>2. StubTypes'
      BY <1>0, <2>1, <3>1 DEF StubTypes, Routed, RequestLine, AnswerLine, ResultOf
    <3>3. TriesAreCounted'
      <4>1. \A i \in 1 .. failures' : i \in 1 .. failures \/ i = n
        BY <2>2, <3>1
      <4>2. \A i \in 1 .. failures' : ~Final(i)'
        BY <1>0, <2>5, <2>7, <4>1 DEF TriesAreCounted
      <4> QED
        BY <1>0, <2>1, <3>1, <4>2 DEF TriesAreCounted
    <3>4. ResultIsReply'
      BY <3>1 DEF ResultIsReply
    <3>5. LogOfTries'
      BY <1>0, <2>1, <2>2, <3>1 DEF LogOfTries, RequestLine, AnswerLine, ResultOf
    <3> QED
      BY <2>6, <3>2, <3>3, <3>4, <3>5
  <2>8. CASE Final(n)
    <3>1. /\ at' = "done" /\ failures' = failures
          /\ result' = IF IsOk(r.status) THEN r
                       ELSE [r EXCEPT !.status = LoopResult(call.is_idempotent, @)]
      BY <1>6, <2>2, <2>4, <2>8 DEF TryReturns
    <3>2. StubTypes'
      BY <1>0, <2>1, <3>1 DEF StubTypes, Routed, RequestLine, AnswerLine, ResultOf
    <3>3. TriesAreCounted'
      BY <1>0, <2>1, <2>5, <2>8, <3>1 DEF TriesAreCounted
    <3>4. ResultIsReply'
      BY <2>1, <3>1 DEF ResultIsReply, ResultOf, r
    <3>5. LogOfTries'
      BY <1>0, <2>1, <3>1 DEF LogOfTries, RequestLine, AnswerLine, ResultOf
    <3> QED
      BY <2>6, <3>2, <3>3, <3>4, <3>5
  <2> QED
    BY <2>7, <2>8
<1>7. CASE UNCHANGED stubVars
  BY <1>0, <1>7
  DEF stubVars, StubTypes, ContextIsFresh, TriesAreCounted, ResultIsReply, LogOfTries,
      Routed, RequestLine, AnswerLine, ResultOf, Final, Deferred
<1> QED
  BY <1>1, <1>2, <1>3, <1>4, <1>5, <1>6, <1>7 DEF StubNext

LEMMA StubInvAlways == StubSpec => []StubInv
<1>1. StubInit => StubInv
  BY StubInvInit
<1>2. StubInv /\ [StubNext]_stubVars => StubInv'
  BY StubInvNext
<1> QED
  BY <1>1, <1>2, PTL DEF StubSpec

\* Every try goes out with the request and one header of each kind.
THEOREM EveryTryRouted == StubSpec => []EveryTryIsRouted
<1>1. StubInv => EveryTryIsRouted
  <2> SUFFICES ASSUME StubInv, NEW i \in DOMAIN sent
               PROVE  /\ sent[i].request = call.request
                      /\ \E k \in DOMAIN sent[i].context :
                           /\ {j \in DOMAIN sent[i].context :
                                 sent[i].context[j].header = "x-goog-request-params"} = {k}
                           /\ sent[i].context[k].value = call.request.resource
                      /\ \E k \in DOMAIN sent[i].context :
                           {j \in DOMAIN sent[i].context :
                              sent[i].context[j].header = "x-goog-api-client"} = {k}
    BY DEF EveryTryIsRouted
  <2>1. sent[i] = Routed
    BY DEF StubInv, StubTypes
  <2> DEFINE c == sent[i].context
             p == [header |-> "x-goog-request-params",
                   param |-> ParamName(call.rpc, call.request),
                   value |-> call.request.resource]
             v == [header |-> "x-goog-api-client", param |-> "", value |-> "version"]
  <2>2. c = <<p, v>>
    <3>1. c = SetMetadata(<<>>, call.rpc, call.request)
      BY <2>1 DEF Routed
    <3>2. SetMetadata(<<>>, call.rpc, call.request) = <<>> \o <<p, v>>
      BY Zenon DEF SetMetadata
    <3> HIDE DEF p, v, c
    <3> QED
      BY <3>1, <3>2
  <2>3. DOMAIN c = {1, 2} /\ c[1] = p /\ c[2] = v
    <3> HIDE DEF p, v, c
    <3> QED
      BY <2>2
  <2>4. /\ p.header = "x-goog-request-params" /\ p.value = call.request.resource
        /\ v.header = "x-goog-api-client"
    OBVIOUS
  <2> HIDE DEF c, p, v
  <2>5. {j \in DOMAIN c : c[j].header = "x-goog-request-params"} = {1}
    BY <2>3, <2>4
  <2>6. {j \in DOMAIN c : c[j].header = "x-goog-api-client"} = {2}
    BY <2>3, <2>4
  <2>7. sent[i].request = call.request
    BY <2>1 DEF Routed
  <2> QED
    BY <2>3, <2>4, <2>5, <2>6, <2>7 DEF c
<1> QED
  BY <1>1, StubInvAlways, PTL

\* A call ends with the first answer that is not to be tried again.
THEOREM ResultAlwaysPassesThrough == StubSpec => []ResultPassesThrough
<1>1. StubInv => ResultPassesThrough
  <2> SUFFICES ASSUME StubInv, at = "done" PROVE ResultPassesThrough
    BY DEF ResultPassesThrough
  <2> DEFINE n == Len(replies)
             a == replies[n]
             r == ResultOf(a)
             kind == KindOf(call.service, call.rpc)
  <2>1. /\ failures \in Nat /\ n = failures + 1 /\ n = Len(sent)
        /\ Final(n) /\ \A i \in 1 .. failures : ~Final(i)
    BY DEF StubInv, StubTypes, TriesAreCounted
  <2>2. \A i \in 1 .. n : Final(i) <=> i = n
    <3>1. \A i \in 1 .. n : i \in 1 .. failures \/ i = n
      BY <2>1
    <3>2. n \notin 1 .. failures
      BY <2>1
    <3> QED
      BY <2>1, <3>1, <3>2
  <2>3. a \in Replies
    BY <2>1 DEF StubInv, StubTypes
  <2>4. /\ r = [status |-> r.status, value |-> r.value]
        /\ Deferred => r.status = OkStatus /\ r.value = a.value
        /\ ~Deferred =>
             /\ r.status = a.status
             /\ kind = "status_or" /\ IsOk(a.status) => r.value = a.value
    BY <2>3, DefaultCallReturns DEF StubInv, StubTypes, ResultOf, Deferred
  <2>5. result = IF IsOk(r.status) THEN r
                 ELSE [r EXCEPT !.status = LoopResult(call.is_idempotent, @)]
    BY <2>1 DEF StubInv, ResultIsReply
  <2> HIDE DEF r, n, kind
  <2>6. CASE Deferred
    <3>1. IsOk(r.status)
      BY <2>4, <2>6 DEF IsOk, OkStatus, MakeStatus
    <3> QED
      BY <2>1, <2>2, <2>4, <2>5, <2>6, <3>1 DEF ResultPassesThrough, n
  <2>7. CASE ~Deferred /\ IsOk(r.status)
    <3>1. result = r /\ r.status = a.status
      BY <2>4, <2>5, <2>7
    <3> QED
      BY <2>1, <2>2, <2>4, <2>7, <3>1 DEF ResultPassesThrough, n, kind
  <2>8. CASE ~Deferred /\ ~IsOk(r.status)
    <3>1. result.status = LoopResult(call.is_idempotent, a.status)
      BY <2>4, <2>5, <2>8
    <3>2. /\ result.status.code = a.status.code
          /\ a.status.message \subseteq result.status.message
      BY <3>1 DEF LoopResult, RetryLoopError, MakeStatus
    <3>3. ~IsOk(result.status)
      BY <2>4, <2>8, <3>2 DEF IsOk
    <3> QED
      BY <2>1, <2>2, <2>8, <3>2, <3>3 DEF ResultPassesThrough, n
  <2> QED
    BY <2>6, <2>7, <2>8
<1> QED
  BY <1>1, StubInvAlways, PTL

\* The log has the request and the answer of each try.
THEOREM LogAlwaysComplete == StubSpec => []LogIsComplete
<1>1. StubInv => LogIsComplete
  <2> SUFFICES ASSUME StubInv, "rpc" \in tracing, at = "done"
               PROVE  LogIsComplete
    BY DEF StubInv, LogOfTries, LogIsComplete
  <2>1. /\ failures \in Nat /\ Len(replies) = failures + 1
        /\ Len(log) = 2 * Len(replies)
    BY DEF StubInv, StubTypes, TriesAreCounted, LogOfTries
  <2>2. ASSUME NEW i \in DOMAIN replies
        PROVE  /\ log[2 * i - 1] = RequestLine
               /\ log[2 * i] = AnswerLine(replies[i])
               /\ replies[i] \in Replies
    <3>1. replies \in Seq(Replies)
      BY DEF StubInv, StubTypes
    <3>2. i \in Nat \ {0} /\ i <= Len(replies) /\ replies[i] \in Replies
      BY <3>1
    <3>3. 2 * i - 1 <= Len(log) /\ 2 * i <= Len(log)
      BY <2>1, <3>2
    <3> QED
      BY <3>2, <3>3 DEF StubInv, LogOfTries
  <2>3. ASSUME NEW i \in DOMAIN replies
        PROVE  IF Deferred THEN log[2 * i] = <<call.rpc, "not null">>
               ELSE IF IsOk(replies[i].status)
                       /\ KindOf(call.service, call.rpc) = "status_or"
               THEN log[2 * i] = <<call.rpc, "response", replies[i].value>>
               ELSE log[2 * i] = <<call.rpc, "status", replies[i].status>>
    <3> DEFINE kind == KindOf(call.service, call.rpc)
               r == ResultOf(replies[i])
    <3>1. log[2 * i] = LogWrapper(kind, call.rpc, r)
      BY <2>2 DEF AnswerLine
    <3>2. /\ kind \in {"status_or", "status", "stream", "async"}
          /\ ~Deferred =>
               /\ r.status = replies[i].status
               /\ kind = "status_or" /\ IsOk(replies[i].status)
                    => r.value = replies[i].value
      BY <2>2, KindsOfStubs, DefaultCallReturns DEF StubInv, StubTypes, ResultOf, Deferred
    <3>3. Deferred <=> kind \in {"stream", "async"}
      BY DEF Deferred
    <3> HIDE DEF kind, r
    <3>4. CASE kind \in {"stream", "async"}
      BY <3>1, <3>3, <3>4 DEF LogWrapper
    <3>5. CASE kind = "status"
      BY <3>1, <3>2, <3>3, <3>5 DEF LogWrapper, kind
    <3>6. CASE kind = "status_or"
      BY <3>1, <3>2, <3>3, <3>6 DEF LogWrapper, kind
    <3> QED
      BY <3>2, <3>4, <3>5, <3>6
  <2> QED
    BY <2>1, <2>2, <2>3 DEF LogIsComplete, RequestLine
<1> QED
  BY <1>1, StubInvAlways, PTL

\* Every call passes through the decorators, with all of its tries.
THEOREM CallsAlwaysPassThrough == StubSpec => []CallsPassThrough
  BY EveryTryRouted, ResultAlwaysPassesThrough, LogAlwaysComplete, PTL
  DEF CallsPassThrough
=============================================================================
