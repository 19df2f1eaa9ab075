------------------------------- MODULE Times -------------------------------
(***************************************************************************)
(* The conversions of times, each tried on an input that a state holds:    *)
(* seconds and civil times, time points of std::chrono, timestamps of      *)
(* protobufs, and durations.                                               *)
(***************************************************************************)
EXTENDS TimePoints

CONSTANTS
  Seconds,      \* seconds since the epoch
  Counts,       \* counts of time points, and seconds of protobufs
  Periods,      \* the units of time points, as numerator and denominator
  Nanos,        \* nanoseconds of protobufs
  Durations     \* durations in nanoseconds

\* Periods are those that FromRatio() and ToRatio() are "designed to handle".
ASSUME TimesAssumption ==
  /\ Seconds \cup Durations \subseteq Int
  /\ Counts \cup Nanos \subseteq IntMin .. IntMax
  /\ Periods \subseteq (1 .. IntMax) \X (1 .. IntMax)
  /\ \A p \in Periods :
       /\ p[1] = 1 \/ p[2] = 1
       /\ p[2] % kNanosPerSecond = 0 \/ kNanosPerSecond % p[2] = 0

VARIABLE input      \* the conversion that is tried, and what it is given

TimesInit == input = [codec |-> "none"]

TryCivilTime == \E s \in Seconds : input' = [codec |-> "civil", s |-> s]

TryTimePoint ==
  \E c \in Counts, p \in Periods :
    input' = [codec |-> "time_point", count |-> c, num |-> p[1], den |-> p[2]]

TryProto ==
  \E c \in Counts, n \in Nanos : input' = [codec |-> "proto", sec |-> c, nsec |-> n]

TryDuration == \E ns \in Durations : input' = [codec |-> "duration", ns |-> ns]

TimesNext ==
  \/ /\ input.codec = "none"
     /\ TryCivilTime \/ TryTimePoint \/ TryProto \/ TryDuration
  \/ input.codec # "none" /\ input' = [codec |-> "none"]

TimesSpec == TimesInit /\ [][TimesNext]_input

-----------------------------------------------------------------------------
NextDay(date) ==
  IF date.mday < DaysPerMonth(date.year, date.mon)
  THEN [date EXCEPT !.mday = @ + 1]
  ELSE IF date.mon < 12
  THEN [year |-> date.year, mon |-> date.mon + 1, mday |-> 1]
  ELSE [year |-> date.year + 1, mon |-> 1, mday |-> 1]

\* ZTime() and TimeZ() are a calendar: the epoch is the first of January 1970,
\* and the day after a day is the next one of the month, the month's length
\* being that of date.cc; the time of day is never negative, before the epoch
\* either; and TimeZ() is ZTime() backwards.  The years are right exactly as
\* long as they are those of a std::tm (timestamp.cc: "can only do the right
\* thing when the requested time is within the range of a std::tm").
CivilTimeAgrees ==
  input.codec = "civil" =>
    LET tm   == ZTime(input.s)
        day  == input.s \div kSecsPerDay
        date == CivilDay(day)
        fits == date.year \in kYearMin .. kYearMax
    IN /\ tm.mon = date.mon /\ tm.mday = date.mday
       /\ tm.year = date.year <=> fits
       /\ IsDate(date.year, date.mon, date.mday)
       /\ CivilDay(day + 1) = NextDay(date)
       /\ CivilDay(0) = [year |-> 1970, mon |-> 1, mday |-> 1]
       /\ DayOf(date.year, date.mon, date.mday) = day
       /\ fits => TimeZ(tm) = input.s
       /\ tm.hour \in 0 .. (kSecsPerDay \div kSecsPerHour) - 1
       /\ tm.min \in 0 .. (kSecsPerHour \div kSecsPerMinute) - 1
       /\ tm.sec \in 0 .. kSecsPerMinute - 1

\* A time_point becomes a Timestamp if its seconds can be counted, and comes
\* back as the same time_point, rounded down if its unit is smaller than a
\* nanosecond (timestamp.h: "Fails if *this cannot be represented as a T").
\* Of the first second there is, which may begin before the first time_point,
\* it is only said that none comes back as another one: ToRatio() gives up on
\* that second as a whole, on the time_points in it too.
TimePointSurvives ==
  input.codec = "time_point" =>
    LET ts == FromRatio(input.count, input.num, input.den)
        unit == IF input.den > kNanosPerSecond
                THEN input.den \div kNanosPerSecond ELSE 1
        rounded == (input.count \div unit) * unit
        back == ToRatio(ts.value, IntMin, IntMax, input.num, input.den)
    IN /\ ts.ok <=> input.count * input.num \in IntMin .. IntMax
       /\ ts.ok =>
            /\ ts.value.nsec \in 0 .. kNanosPerSecond - 1
            /\ back.ok => back = Ok(rounded)
            /\ (input.count \div input.den) * input.den >= IntMin => back.ok

\* The timestamp of a protobuf is the time that the protobuf says, however
\* many nanoseconds it has and of whatever sign, or the first or the last
\* timestamp if that time is before or after them.
ProtoIsNearest ==
  input.codec = "proto" =>
    LET ts == FromProto([sec |-> input.sec, nsec |-> input.nsec])
        At(sec, nsec) == sec * kNanosPerSecond + nsec
        time  == At(input.sec, input.nsec)
        first == At(IntMin, 0)
        last  == At(IntMax, kNanosPerSecond - 1)
    IN /\ ts.sec \in IntMin .. IntMax /\ ts.nsec \in 0 .. kNanosPerSecond - 1
       /\ At(ts.sec, ts.nsec) = IF time < first THEN first
                                ELSE IF time > last THEN last
                                ELSE time
       /\ FromProto(ToProto(ts)) = ts

\* The duration that bounds a stale read is sent exactly, in a form that a
\* protobuf may have: seconds and nanoseconds of one sign.
DurationIsExact ==
  input.codec = "duration" =>
    LET d == DurationToProto(input.ns, kNanosPerSecond)
    IN /\ d.seconds * kNanosPerSecond + d.nanos = input.ns
       /\ d.nanos \in 1 - kNanosPerSecond .. kNanosPerSecond - 1
       /\ ~(d.seconds < 0 /\ d.nanos > 0) /\ ~(d.seconds > 0 /\ d.nanos < 0)

\* Points in time and durations keep their meaning whatever type they are in.
TimesSurvive == TimePointSurvives /\ ProtoIsNearest /\ DurationIsExact
=============================================================================
