------------------------------- MODULE Dates -------------------------------
(***************************************************************************)
(* The constructor of Date, which accepts any numbers and normalises them  *)
(* (date.cc), and DateFromString(), which refuses the numbers that the     *)
(* constructor changes (internal/date.cc).                                 *)
(*                                                                         *)
(* The rounds of the constructor's loop are steps.  Numbers are unbounded: *)
(* years next to the ends of their type would overflow in the code.        *)
(***************************************************************************)
EXTENDS Calendar

CONSTANTS Years, Months, Days     \* what the constructor is called with

ASSUME DatesAssumption == Years \cup Months \cup Days \subseteq Int

VARIABLES
  args,                  \* the arguments of the constructor
  year_, month_, day_,   \* the members of Date
  pc                     \* the next statement of the constructor, or "done"

dateVars == <<args, year_, month_, day_, pc>>

DateInit ==
  /\ args \in [year : Years, month : Months, day : Days]
  /\ year_ = args.year /\ month_ = args.month /\ day_ = args.day
  /\ pc = "months"

\* Mutant: month zero is December of the same year.
NormalMonth_Zero(year, month) ==
  IF Rem(month, 12) < 0
  THEN [year |-> year + Quot(month, 12) - 1, mon |-> Rem(month, 12) + 12]
  ELSE [year |-> year + Quot(month, 12),
        mon |-> IF Rem(month, 12) = 0 THEN 12 ELSE Rem(month, 12)]

NormalMonth(year, month) ==
  IF Rem(month, 12) <= 0
  THEN [year |-> year + Quot(month, 12) - 1, mon |-> Rem(month, 12) + 12]
  ELSE [year |-> year + Quot(month, 12), mon |-> Rem(month, 12)]

\* 12 months are a year.
NormaliseMonth ==
  /\ pc = "months"
  /\ year_' = NormalMonth(year_, month_).year
  /\ month_' = NormalMonth(year_, month_).mon
  /\ pc' = "days"
  /\ UNCHANGED <<args, day_>>

\* 146097 days are 400 years.
NormaliseDay ==
  /\ pc = "days"
  /\ LET day == Rem(day_, 146097)
         year == year_ + 400 * Quot(day_, 146097)
     IN IF day <= 0 THEN year_' = year - 400 /\ day_' = day + 146097
        ELSE year_' = year /\ day_' = day
  /\ pc' = "carry"
  /\ UNCHANGED <<args, month_>>

\* Mutant: the first of the next month belongs to this one.
Exceeds_OffByOne(day, n) == day > n + 1

\* The condition of the loop.
Exceeds(day, n) == day > n

\* Mutant: the length of the month that follows is taken off.
DaysLeft_NextMonth(year, month, day) ==
  day - DaysPerMonth(year, IF month = 12 THEN 1 ELSE month + 1)

DaysLeft(year, month, day) == day - DaysPerMonth(year, month)

NextMonth(year, month) ==
  IF month = 12 THEN [year |-> year + 1, mon |-> 1]
  ELSE [year |-> year, mon |-> month + 1]

\* A round of the loop: the days that are not in the month are carried into
\* the next one.
CarryDays ==
  /\ pc = "carry"
  /\ Exceeds(day_, DaysPerMonth(year_, month_))
  /\ day_' = DaysLeft(year_, month_, day_)
  /\ year_' = NextMonth(year_, month_).year
  /\ month_' = NextMonth(year_, month_).mon
  /\ UNCHANGED <<args, pc>>

Return ==
  /\ pc = "carry"
  /\ ~Exceeds(day_, DaysPerMonth(year_, month_))
  /\ pc' = "done"
  /\ UNCHANGED <<args, year_, month_, day_>>

DateNext == NormaliseMonth \/ NormaliseDay \/ CarryDays \/ Return

DateSpec == DateInit /\ [][DateNext]_dateVars

-----------------------------------------------------------------------------
\* DateFromString(): the numbers are those of the date.
Accepts == month_ = args.month /\ day_ = args.day

\* A Date made of any numbers is the day that is that many days and months
\* away from the first of its year, as ZTime() and TimeZ(), which know
\* nothing of Date, count days.
DateIsNormal ==
  pc = "done" =>
    LET first == DayOf(args.year + (args.month - 1) \div 12,
                       ((args.month - 1) % 12) + 1, 1)
    IN [year |-> year_, mon |-> month_, mday |-> day_]
         = CivilDay(first + args.day - 1)

\* A text is accepted if its numbers are a date, and then it is that date.
DateTextAgrees ==
  pc = "done" =>
    /\ Accepts <=> IsDate(args.year, args.month, args.day)
    /\ Accepts => year_ = args.year

\* The dates of date.cc are those of the calendar of timestamp.cc.
DatesAgree == DateIsNormal /\ DateTextAgrees

\* Every round of the loop leaves fewer days, and at least one: it ends,
\* whatever the constructor is given.
DaysRunOut ==
  [][pc = "carry" /\ pc' = "carry" => day_' \in 1 .. day_ - 1]_dateVars
=============================================================================
