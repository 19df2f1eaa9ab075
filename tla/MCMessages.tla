---------------------------- MODULE MCMessages ----------------------------
(***************************************************************************)
(* What becomes of the data of an application on its way to the service    *)
(* and back: conversions, the constructor of Date, the builders of         *)
(* requests and the stubs, one of them at a time.                          *)
(***************************************************************************)
EXTENDS MCCodecs, Dates, InstanceBuilders, Stubs

VARIABLE part       \* the one that is at work

messageVars == <<part, input, dateVars, builderVars, stubVars>>

\* Around the epoch, the ends of 4, 100 and 400 years, year zero, and the first
\* and the last year of a std::tm.
SomeDays == Near(0, 800) \cup Near(10957, 70) \cup Near(47482, 70)
              \cup Near(-719468, 400) \cup Near(-719468 - 146097, 70)
              \cup Near(DaysUntil(kYearMin, 1, 1), 70)
              \cup Near(DaysUntil(kYearMax + 1, 1, 1), 70)
MCSeconds == {d * kSecsPerDay + s : d \in SomeDays, s \in {0, 3, kSecsPerDay - 1}}
MCCounts ==
  Near(0, 120) \cup (IntMax - 120 .. IntMax) \cup (IntMin .. IntMin + 120)
    \cup Near(IntMax \div kSecsPerDay, 3) \cup Near(-(IntMax \div kSecsPerDay), 3)

\* Seconds, minutes, days; tenths, the smallest unit, and less than that.
MCPeriods ==
  {<<1, 1>>, <<kSecsPerMinute, 1>>, <<kSecsPerDay, 1>>,
   <<1, kNanosPerSecond \div 10>>, <<1, kNanosPerSecond>>,
   <<1, kNanosPerSecond * 10>>}
MCNanos == {n * kNanosPerSecond + d : n \in {-2, -1, 0, 1, 2}, d \in {-1, 0, 1}}
MCDurations == Near(0, 3 * kNanosPerSecond)

MCYears == {-1, 1899, 2000}
MCMonths == {-12, -1, 0, 1, 2, 3, 12, 13, 25}
MCDays == {1 - 2 * 146097, 0, 1, 28, 29, 30, 31, 32, 366, 367, 146098}

MCIds == [project : {"p"}, instance : {"m", "n"}]
MCLabels == {[j |-> "1"], [k |-> "2"], [j |-> "3", k |-> "4"]}
MCInstances ==
  {[display_name |-> "old", node_count |-> 3, labels |-> [j |-> "0"]],
   [display_name |-> "x", node_count |-> 7, labels |-> NoLabels]}

MCReplies == {[status |-> OkStatus, value |-> {"response"}],
              [status |-> Unavailable, value |-> {}],
              [status |-> SessionNotFound, value |-> {}]}

-----------------------------------------------------------------------------
\* The parts that are not at work.
NoDate ==
  /\ args = [year |-> 1970, month |-> 1, day |-> 1]
  /\ year_ = 1970 /\ month_ = 1 /\ day_ = 1 /\ pc = "done"

NoBuilder ==
  /\ builder = "update" /\ given = UpdateInstanceRequest(NoName)
  /\ stored = [n \in Names |-> CHOOSE i \in Instances : TRUE]
  /\ instance = given /\ field_mask = <<>> /\ calls = <<>>

NoCall ==
  LET in == CHOOSE in \in Ids : TRUE
  IN /\ call = [service |-> "spanner", rpc |-> "GetSession", is_idempotent |-> TRUE,
                request |-> MakeRequest("spanner", "GetSession",
                                        ObjectOf("spanner", "GetSession", in))]
     /\ tracing = {} /\ at = "loop" /\ context = <<>> /\ failures = 0
     /\ sent = <<>> /\ replies = <<>> /\ log = <<>>
     /\ result = [status |-> OkStatus, value |-> {}]

MessagesInit ==
  /\ part \in {"codec", "date", "builder", "stub"}
  /\ TimesInit
  /\ IF part = "date" THEN DateInit ELSE NoDate
  /\ IF part = "builder" THEN BuilderInit ELSE NoBuilder
  /\ IF part = "stub" THEN StubInit ELSE NoCall

MessagesNext ==
  \/ /\ part = "codec"
     /\ \/ TimesNext
        \/ input.codec = "none" /\ TryCodec
     /\ UNCHANGED <<part, dateVars, builderVars, stubVars>>
  \/ /\ part = "date" /\ DateNext
     /\ UNCHANGED <<part, input, builderVars, stubVars>>
  \/ /\ part = "builder" /\ BuilderNext
     /\ UNCHANGED <<part, input, dateVars, stubVars>>
  \/ /\ part = "stub" /\ StubNext
     /\ UNCHANGED <<part, input, dateVars, builderVars>>

MessagesSpec == MessagesInit /\ [][MessagesNext]_messageVars
=============================================================================
