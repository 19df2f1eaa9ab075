----------------------------- MODULE TimePoints -----------------------------
(***************************************************************************)
(* Timestamps as seconds and nanoseconds, their conversion from and to the *)
(* time points and durations of std::chrono (timestamp.h, timestamp.cc,    *)
(* transaction.cc), and the results of conversions that can fail.          *)
(*                                                                         *)
(* The width of the integers is a constant, so that the ends of their      *)
(* range are within reach.                                                 *)
(***************************************************************************)
EXTENDS Calendar

CONSTANTS
  NanosDigits,      \* decimal digits of the fraction of a second
  IntMax            \* the largest value of std::int64_t

kNanosPerSecond == 10 ^ NanosDigits
IntMin == -IntMax - 1

ASSUME TimestampsAssumption ==
  /\ NanosDigits \in Nat \ {0}
  /\ kNanosPerSecond \in Nat \ {0, 1}
  /\ IntMax \in Nat /\ kNanosPerSecond <= IntMax
  /\ kYearMax <= IntMax      \* an int is narrower

\* A StatusOr<T> is Ok(v) or Failed.
Ok(v) == [ok |-> TRUE, value |-> v]
Failed == [ok |-> FALSE]

\* The value of an expression of type std::int64_t.
Wrap(x) == WrapTo(x, IntMin)

(***************************************************************************)
(* Timestamp: seconds and nanoseconds, the latter never negative.          *)
(***************************************************************************)
OutOfRange == Failed
MakeTimestamp(sec, nsec) == Ok([sec |-> sec, nsec |-> nsec])

\* Mutant: the carry of a negative fraction is forgotten.
FromCounts_NoBorrow(sec, nsec) ==
  MakeTimestamp(Wrap(sec + Quot(nsec, kNanosPerSecond)), nsec % kNanosPerSecond)

\* Nanoseconds out of range are carried into the seconds.
FromCounts(sec, nsec) ==
  LET nanos == Rem(nsec, kNanosPerSecond)
      carry == Quot(nsec, kNanosPerSecond) - (IF nanos < 0 THEN 1 ELSE 0)
  IN IF \/ sec >= 0 /\ carry > 0 /\ sec > Wrap(IntMax - carry)
        \/ sec < 0 /\ carry < 0 /\ sec < Wrap(IntMin - carry)
     THEN OutOfRange
     ELSE MakeTimestamp(Wrap(sec + carry), nanos % kNanosPerSecond)

\* Mutant: the last timestamp has no fraction.
FromProto_Whole(proto) ==
  LET ts == FromCounts(proto.sec, proto.nsec)
  IN IF ts.ok THEN ts.value
     ELSE IF proto.sec >= 0 THEN [sec |-> IntMax, nsec |-> 0]
     ELSE [sec |-> IntMin, nsec |-> 0]

\* A protobuf that cannot be normalised becomes the last or the first
\* timestamp.
FromProto(proto) ==
  LET ts == FromCounts(proto.sec, proto.nsec)
  IN IF ts.ok THEN ts.value
     ELSE IF proto.sec >= 0 THEN [sec |-> IntMax, nsec |-> kNanosPerSecond - 1]
     ELSE [sec |-> IntMin, nsec |-> 0]

ToProto(ts) == [sec |-> ts.sec, nsec |-> ts.nsec]

\* count * numerator / denominator seconds as a timestamp.
FromRatio(count, numerator, denominator) ==
  LET q == Quot(count, denominator)
      sec == Wrap(q * numerator)
      sscount == Wrap(count - Quot(Wrap(sec * denominator), numerator))
      divider == denominator \div kNanosPerSecond
      multiplier == kNanosPerSecond \div denominator
  IN IF \/ q >= 0 /\ q > Quot(IntMax, numerator)
        \/ q < 0 /\ q < Quot(IntMin, numerator)
     THEN OutOfRange
     ELSE IF denominator > kNanosPerSecond
     THEN LET floored == IF sscount < 0 THEN sscount - (divider - 1) ELSE sscount
          IN FromCounts(sec, Wrap(Quot(floored, divider) * numerator))
     ELSE FromCounts(sec, Wrap(Wrap(sscount * multiplier) * numerator))

\* A timestamp as a count, from min to max, of numerator / denominator seconds.
ToRatio(ts, min, max, numerator, denominator) ==
  LET q == Quot(ts.sec, numerator)
      count == Wrap(q * denominator)
      n == Quot(ts.nsec, numerator)
      ncount == IF denominator < kNanosPerSecond
                THEN Quot(n, kNanosPerSecond \div denominator)
                ELSE Wrap(n * (denominator \div kNanosPerSecond))
  IN IF \/ q >= 0 /\ q > Quot(IntMax, denominator)
        \/ q < 0 /\ q < Quot(IntMin, denominator)
        \/ count > IntMax - ncount
        \/ count + ncount \notin min .. max
     THEN OutOfRange
     ELSE Ok(count + ncount)

(***************************************************************************)
(* Durations.                                                              *)
(***************************************************************************)
\* Mutant: the seconds are rounded down, as those of a Timestamp are.
DurationToProto_Floor(ns, per_second) ==
  [seconds |-> ns \div per_second, nanos |-> ns % per_second]

\* duration_cast<> rounds towards zero.
DurationToProto(ns, per_second) ==
  [seconds |-> Quot(ns, per_second), nanos |-> Rem(ns, per_second)]
=============================================================================
