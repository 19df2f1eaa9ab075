----------------------------- MODULE Timestamps -----------------------------
(***************************************************************************)
(* The texts of dates and timestamps (timestamp.cc, internal/date.cc,      *)
(* internal/time_format.cc).  A text is the record of its fields.          *)
(***************************************************************************)
EXTENDS TimePoints, Sequences

Min2(a, b) == IF a < b THEN a ELSE b

(***************************************************************************)
(* Dates.                                                                  *)
(***************************************************************************)
\* A text has the numbers that sscanf() finds in it, and possibly more.
DateToString(date) ==
  [numbers |-> <<date.year, date.mon, date.mday>>, extra |-> FALSE]

\* A text is a date if the constructor of Date has nothing to normalise, which
\* is so if its numbers are a date (DateTextAgrees of module Dates).
DateFromString(text) ==
  LET n == text.numbers
  IN IF Len(n) # 3 \/ text.extra \/ ~IsDate(n[1], n[2], n[3]) THEN Failed
     ELSE Ok([year |-> n[1], mon |-> n[2], mday |-> n[3]])

(***************************************************************************)
(* RFC 3339.                                                               *)
(***************************************************************************)
RECURSIVE StripZeros(_)
StripZeros(digits) ==
  IF digits # <<>> /\ digits[Len(digits)] = 0
  THEN StripZeros(SubSeq(digits, 1, Len(digits) - 1))
  ELSE digits

\* A number in a text: its sign and its digits.
NumberText(neg, digits) == [neg |-> neg, digits |-> digits]

RECURSIVE Decimal(_)
Decimal(n) == IF n = 0 THEN <<>> ELSE Append(Decimal(n \div 10), n % 10)

Format02d(v) == <<(v \div 10) % 10, v % 10>>

\* FormatTime(): a year has four characters, a minus included, or more.
FormatYear(year) ==
  LET y == IF year < 0 THEN -year ELSE year
  IN NumberText(year < 0,
                (IF year < 0 THEN Decimal(y \div 1000) \o <<(y \div 100) % 10>>
                 ELSE Decimal(y \div 10000) \o Format02d((y \div 100) % 100))
                  \o Format02d(y % 100))

NotANumber == [ok |-> FALSE]

\* Mutant: it is not seen that the last digit may be too much.
Shifts_NoDigit(value, d, least) == value >= Quot(least, 10)

\* Whether 10 * value - d can be computed; value is the number so far, as a
\* negative one, since there are more of them.
Shifts(value, d, least) == value >= Quot(least, 10) /\ value * 10 >= least + d

\* ParseInt() for a type whose smallest value is least.
ParseInt(number, min, max, least) ==
  LET n == Len(number.digits)
      v[i \in 0 .. n] ==
        IF i = 0 THEN [ok |-> TRUE, value |-> 0]
        ELSE IF v[i - 1].ok /\ Shifts(v[i - 1].value, number.digits[i], least)
        THEN [ok |-> TRUE,
              value |-> WrapTo(v[i - 1].value * 10 - number.digits[i], least)]
        ELSE NotANumber
      value == IF number.neg THEN v[n].value ELSE -v[n].value
  IN IF n = 0 \/ ~v[n].ok THEN NotANumber
     ELSE IF ~number.neg /\ v[n].value = least THEN NotANumber
     ELSE IF value \in min .. max THEN [ok |-> TRUE, value |-> value] ELSE NotANumber

\* ToRFC3339(): the fraction, if there is one, without its trailing zeros,
\* and always Zulu time.
ToRFC3339(ts) ==
  [tm |-> ZTime(ts.sec),
   frac |-> StripZeros([i \in 1 .. NanosDigits |->
                          (ts.nsec \div 10 ^ (NanosDigits - i)) % 10]),
   point |-> ts.nsec # 0,
   offset |-> [zone |-> "Z"]]

\* The day is in the month.  The year has not been stored yet when it is
\* checked: the one that is looked at is zero, which is a leap year.
ValidDay(tm) == tm.mday <= DaysPerMonth(0, tm.mon)

ParseTime(tm) ==
  /\ tm.year \in kYearMin .. kYearMax
  /\ tm.mon \in 1 .. 12 /\ tm.mday \in 1 .. 31 /\ ValidDay(tm)
  /\ tm.hour \in 0 .. kSecsPerDay \div kSecsPerHour - 1
  /\ tm.min \in 0 .. kSecsPerHour \div kSecsPerMinute - 1
  /\ tm.sec \in 0 .. kSecsPerMinute

\* Mutant: the digits are read as a number of the last ones' unit.
ParseFraction_NoScale(frac) ==
  LET v[i \in 0 .. Len(frac)] == IF i = 0 THEN 0 ELSE 10 * v[i - 1] + frac[i]
  IN v[Min2(Len(frac), NanosDigits)]

\* Digits after the ones that count are dropped, and the ones that are not
\* written are zeros.
ParseFraction(frac) ==
  LET n == Min2(Len(frac), NanosDigits)
      v[i \in 0 .. n] == IF i = 0 THEN 0 ELSE 10 * v[i - 1] + frac[i]
  IN v[n] * 10 ^ (NanosDigits - n)

IsOffset(offset) ==
  \/ offset.zone = "Z"
  \/ /\ offset.zone \in {"+", "-"}
     /\ offset.hours < kSecsPerDay \div kSecsPerHour
     /\ offset.minutes < kSecsPerHour \div kSecsPerMinute

\* Mutant: the minutes are added to the hours, whatever the sign.
UtcOffsetSecs_SignOfHours(offset) ==
  IF offset.zone = "Z" THEN 0
  ELSE (IF offset.zone = "-" THEN -1 ELSE 1) * offset.hours * kSecsPerHour
         + offset.minutes * kSecsPerMinute

UtcOffsetSecs(offset) ==
  IF offset.zone = "Z" THEN 0
  ELSE (IF offset.zone = "-" THEN -1 ELSE 1)
         * (offset.hours * kSecsPerHour + offset.minutes * kSecsPerMinute)

FromRFC3339(text) ==
  LET sec == TimeZ(text.tm)
      offset == UtcOffsetSecs(text.offset)
  IN IF \/ ~ParseTime(text.tm)
        \/ text.point /\ text.frac = <<>>
        \/ ~IsOffset(text.offset)
        \/ offset >= 0 /\ sec > IntMax - offset
        \/ offset < 0 /\ sec < IntMin - offset
     THEN [ok |-> FALSE]
     ELSE FromCounts(sec + offset,
                     IF text.point THEN ParseFraction(text.frac) ELSE 0)
=============================================================================
