------------------------------ MODULE Calendar ------------------------------
(***************************************************************************)
(* The calendar of the library: seconds since the epoch and civil times    *)
(* (ZTime() and TimeZ() in timestamp.cc), and the lengths of months        *)
(* (date.cc).                                                              *)
(*                                                                         *)
(* The units of time and the width of an int are constants, so that their  *)
(* boundaries are within reach.                                            *)
(***************************************************************************)
EXTENDS Integers

CONSTANTS
  kSecsPerMinute,
  kSecsPerHour,
  kSecsPerDay,
  TmYearMax         \* the largest value of the int tm_year of a std::tm

ASSUME CalendarAssumption ==
  /\ {kSecsPerMinute, kSecsPerHour, kSecsPerDay} \subseteq Nat \ {0}
  /\ kSecsPerHour % kSecsPerMinute = 0 /\ kSecsPerDay % kSecsPerHour = 0
  /\ TmYearMax \in Nat

\* Division and remainder of C++, which round towards zero, by b > 0.
Quot(a, b) == IF a >= 0 THEN a \div b ELSE -((-a) \div b)
Rem(a, b) == a - b * Quot(a, b)

\* The value of an expression of a type whose smallest value is least.
WrapTo(x, least) == ((x - least) % (-2 * least)) + least

\* The years that a std::tm has: tm_year counts from 1900.
kYearMin == -TmYearMax - 1 + 1900
kYearMax == TmYearMax + 1900

\* A year once it has been narrowed to tm_year.
TmYear(y) == WrapTo(y - 1900, -TmYearMax - 1) + 1900

IsLeapYear(y) == Rem(y, 4) = 0 /\ (Rem(y, 100) # 0 \/ Rem(y, 400) = 0)

DaysPerMonth(y, m) ==
  <<31, 28, 31, 30, 31, 30, 31, 31, 30, 31, 30, 31>>[m]
    + (IF m = 2 /\ IsLeapYear(y) THEN 1 ELSE 0)

\* The numbers are a date.
IsDate(y, m, d) == m \in 1 .. 12 /\ d \in 1 .. DaysPerMonth(y, m)

\* Mutant: the quotient is not corrected before the epoch.
FloorDays_Truncated(s) == [day |-> Quot(s, kSecsPerDay),
                           sec |-> Rem(s, kSecsPerDay) % kSecsPerDay]

\* Days and seconds of the day, rounding down.
FloorDays(s) ==
  LET day == Quot(s, kSecsPerDay)
      sec == Rem(s, kSecsPerDay)
  IN IF sec < 0 THEN [day |-> day - 1, sec |-> sec + kSecsPerDay]
     ELSE [day |-> day, sec |-> sec]

\* Year, month and day of a day since the epoch.
CivilDay(day) ==
  LET aday == day + 719468
      era  == Quot(IF aday >= 0 THEN aday ELSE aday - 146096, 146097)
      doe  == aday - era * 146097
      yoe  == Quot(doe - Quot(doe, 1460) + Quot(doe, 36524) - Quot(doe, 146096),
                   365)
      doy  == doe - (365 * yoe + Quot(yoe, 4) - Quot(yoe, 100))
      mp   == Quot(5 * doy + 2, 153)
      m    == mp + (IF mp < 10 THEN 3 ELSE -9)
  IN [year |-> yoe + era * 400 + (IF m <= 2 THEN 1 ELSE 0), mon |-> m,
      mday |-> doy - Quot(153 * mp + 2, 5) + 1]

\* Seconds since the epoch as a std::tm, with 1900 added to its year.
ZTime(s) ==
  LET at == FloorDays(s)
      date == CivilDay(at.day)
  IN [year |-> TmYear(date.year), mon |-> date.mon, mday |-> date.mday,
      hour |-> at.sec \div kSecsPerHour,
      min |-> (at.sec % kSecsPerHour) \div kSecsPerMinute,
      sec |-> at.sec % kSecsPerMinute]

\* The day since the epoch of a civil day.
DayOf(y, m, d) ==
  LET eyear == IF m <= 2 THEN y - 1 ELSE y
      era   == Quot(IF eyear >= 0 THEN eyear ELSE eyear - 399, 400)
      yoe   == eyear - era * 400
      doy   == Quot(153 * (m + (IF m > 2 THEN -3 ELSE 9)) + 2, 5) + d - 1
      doe   == yoe * 365 + Quot(yoe, 4) - Quot(yoe, 100) + doy
  IN era * 146097 + doe - 719468

\* A civil time in seconds since the epoch.
TimeZ(tm) ==
  DayOf(tm.year, tm.mon, tm.mday) * kSecsPerDay + tm.hour * kSecsPerHour
    + tm.min * kSecsPerMinute + tm.sec
=============================================================================
