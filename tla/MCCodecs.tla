------------------------------ MODULE MCCodecs ------------------------------
(***************************************************************************)
(* The conversions of the library, each compared with a reference          *)
(* definition on the inputs that a state holds: dates and timestamps,      *)
(* bytes, values, rows and requests.                                       *)
(***************************************************************************)
EXTENDS RowStreams, Requests, Times

(***************************************************************************)
(* Dates and timestamps.                                                   *)
(***************************************************************************)
Near(x, r) == (x - r) .. (x + r)

Tm(y, mon, d, h, min, s) ==
  [year |-> y, mon |-> mon, mday |-> d, hour |-> h, min |-> min, sec |-> s]
Text(tm, frac, point, offset) ==
  [tm |-> tm, frac |-> frac, point |-> point, offset |-> offset]

Offsets == [zone : {"Z"}] \cup [zone : {"+", "-"}, hours : {0, 2, 3}, minutes : {0, 1, 2}]
Fracs   == {<<>>, <<0>>, <<5>>, <<0, 5>>, <<1, 2, 3>>, <<9, 9, 9>>}

TryText ==
  \/ \E y \in {0, 1900, 1999, 2000} \cup {kYearMin - 1, kYearMin, kYearMax, kYearMax + 1},
        mon \in {0, 2, 12, 13}, d \in {0, 28, 29, 30, 31},
        h \in {0, 2, 3}, min \in {0, 2}, s \in {1, 2, 3} :
       input' = [codec |-> "text",
                 text |-> Text(Tm(y, mon, d, h, min, s), <<>>, FALSE, [zone |-> "Z"])]
  \/ \E frac \in Fracs, point \in BOOLEAN, o \in Offsets, y \in {kYearMin, -1, 1970} :
       input' = [codec |-> "text",
                 text |-> Text(Tm(y, 1, 1, 0, 0, 0), frac, point, o)]

\* The days since the epoch to a date, by the lengths of years and of months.
LeapYearsBefore(y) == (y - 1) \div 4 - (y - 1) \div 100 + (y - 1) \div 400
DaysUntil(y, m, d) ==
  LET months[i \in 1 .. m] == IF i = 1 THEN 0 ELSE months[i - 1] + DaysPerMonth(y, i - 1)
  IN 365 * (y - 1970) + LeapYearsBefore(y) - LeapYearsBefore(1970) + months[m] + d - 1

SecondOf(tm) ==
  DaysUntil(tm.year, tm.mon, tm.mday) * kSecsPerDay
    + tm.hour * kSecsPerHour + tm.min * kSecsPerMinute + tm.sec

FirstSecond == SecondOf(Tm(kYearMin, 1, 1, 0, 0, 0))
LastSecond  == SecondOf(Tm(kYearMax + 1, 1, 1, 0, 0, 0)) - 1

\* The format, with the years that there are and a second more for a leap
\* second.
IsText(text) ==
  LET tm == text.tm
  IN /\ tm.year \in kYearMin .. kYearMax /\ IsDate(tm.year, tm.mon, tm.mday)
     /\ tm.hour * kSecsPerHour < kSecsPerDay
     /\ tm.min * kSecsPerMinute < kSecsPerHour
     /\ tm.sec <= kSecsPerMinute
     /\ text.point => text.frac # <<>>
     /\ text.offset.zone # "Z"
          => /\ text.offset.hours * kSecsPerHour < kSecsPerDay
             /\ text.offset.minutes * kSecsPerMinute < kSecsPerHour

\* The local time less the time in Zulu, in seconds.
Ahead(offset) ==
  CASE offset.zone = "Z" -> 0
    [] offset.zone = "+" -> offset.hours * kSecsPerHour + offset.minutes * kSecsPerMinute
    [] offset.zone = "-" -> -(offset.hours * kSecsPerHour + offset.minutes * kSecsPerMinute)

\* What only ValidDay() takes for a date.
IsFalseLeapDay(tm) == tm.mon = 2 /\ tm.mday = 29 /\ ~IsLeapYear(tm.year)

\* A text is a timestamp if and only if it has the format (nothing is said of
\* the 29th of February in a common year, which is accepted).  It is then the
\* second that its fields say, moved by its whole offset, forward by an offset
\* with a plus, as timestamp_test.cc (163-173) has it; the digits of the
\* fraction count from the point; and the text of the timestamp is the same
\* timestamp, unless the offset has moved it out of the years there are.
TextAgrees ==
  input.codec = "text" =>
    LET text == input.text
        ts   == FromRFC3339(text)
        frac[i \in 0 .. Len(text.frac)] ==
          IF i = 0 THEN 0 ELSE 10 * frac[i - 1] + text.frac[i]
        digits == Len(text.frac)
    IN /\ ~IsFalseLeapDay(text.tm) => (ts.ok <=> IsText(text))
       /\ IsText(text) =>
            /\ ts.value.sec = SecondOf(text.tm) + Ahead(text.offset)
            /\ ts.value.sec \in FirstSecond .. LastSecond =>
                 FromRFC3339(ToRFC3339(ts.value)) = ts
            /\ ts.value.nsec \in 0 .. kNanosPerSecond - 1
            /\ ~text.point => ts.value.nsec = 0
            /\ text.point =>
                 /\ ts.value.nsec * 10 ^ digits <= frac[digits] * kNanosPerSecond
                 /\ frac[digits] * kNanosPerSecond < (ts.value.nsec + 1) * 10 ^ digits

\* A text is the time that RFC 3339 says: the offset is what the local time is
\* ahead of Zulu time (timestamp.h: "Conversion from/to RFC3339 string").
TextSaysTime ==
  input.codec = "text" /\ IsText(input.text) =>
    FromRFC3339(input.text).value.sec = SecondOf(input.text.tm) - Ahead(input.text.offset)

\* Years, and the ends of the range with a digit more or less.
NumbersOf(y) == {FormatYear(y), NumberText(y < 0, <<0>> \o FormatYear(y).digits)}
                  \cup {NumberText(neg, FormatYear(y).digits \o <<d>>) :
                          neg \in BOOLEAN, d \in {0, 2, 3, 4, 9}}
TextYears == Near(0, 120) \cup Near(1000, 3) \cup Near(10000, 3) \cup Near(-1000, 3)
           \cup Near(IntMax \div 10, 3) \cup Near(-(IntMax \div 10), 3)
           \cup {IntMax - 1, IntMax, IntMin, IntMin + 1}

TryNumber ==
  \E y \in TextYears : \E number \in NumbersOf(y) \cup {NumberText(y < 0, <<>>)} :
    input' = [codec |-> "number", year |-> y, number |-> number]

\* The value that digits and a sign stand for.
Valued(digits, neg) ==
  LET v[i \in 0 .. Len(digits)] == IF i = 0 THEN 0 ELSE 10 * v[i - 1] + digits[i]
  IN IF neg THEN -v[Len(digits)] ELSE v[Len(digits)]

\* A text is a number if it has digits and its value fits, also when the value
\* is the smallest of its type; the text of a year is that year, and has at
\* least four characters.
NumberTextAgrees ==
  input.codec = "number" =>
    LET digits == input.number.digits
        text == FormatYear(input.year)
        least == Quot(IntMin, 10)
        value == Valued(digits, input.number.neg)
    IN /\ ParseInt(input.number, IntMin, IntMax, IntMin)
            = IF digits # <<>> /\ value \in IntMin .. IntMax
              THEN [ok |-> TRUE, value |-> value] ELSE NotANumber
       /\ ParseInt(input.number, 0, 23, least).ok
            <=> digits # <<>> /\ value \in 0 .. 23
       /\ ParseInt(text, IntMin, IntMax, IntMin) = [ok |-> TRUE, value |-> input.year]
       /\ Len(text.digits) + (IF text.neg THEN 1 ELSE 0) >= 4

\* Texts of timestamps and of the numbers in them are read as what they say.
TimestampTextAgrees == TextAgrees /\ NumberTextAgrees

(***************************************************************************)
(* Bytes.                                                                  *)
(***************************************************************************)
TryBytes ==
  \E n \in 0 .. 4 : \E octets \in [1 .. n -> {0, 1, 7, 15}] :
    input' = [codec |-> "bytes", octets |-> octets]

TryBase64 ==
  \E n \in {0, 3, 4} : \E rep \in [1 .. n -> {0, 1, 2, 4, 7, kPadding, kOther}] :
    input' = [codec |-> "base64", rep |-> rep]

\* The texts of one to three octets.
Chunks == UNION {{Encode(o) : o \in [1 .. n -> Octets]} : n \in 1 .. 3}

\* Octets come back from their base64 text, and a text is accepted if and only
\* if it is the text of some octets.
BytesSurvive ==
  /\ input.codec = "bytes" =>
       /\ IsBase64(Encode(input.octets))
       /\ Decode(Encode(input.octets)) = input.octets
  /\ input.codec = "base64" =>
       /\ IsBase64(input.rep) => Encode(Decode(input.rep)) = input.rep
       /\ Len(input.rep) = 4 => (IsBase64(input.rep) <=> input.rep \in Chunks)

(***************************************************************************)
(* Values.                                                                 *)
(***************************************************************************)
Codes == {"BOOL", "INT64", "FLOAT64", "STRING", "BYTES", "TIMESTAMP", "DATE",
          "COMMIT_TIMESTAMP"}

ScalarsOf(code) ==
  CASE code = "BOOL"      -> BOOLEAN
    [] code = "INT64"     -> {IntMin, 0, IntMax}
    [] code = "FLOAT64"   -> {"0.5", "Infinity", "-Infinity"}
    [] code = "STRING"    -> {"", "NaN", "Infinity"}
    [] code = "BYTES"     -> {<<>>, <<1>>, <<1, 2, 3, 4>>}
    [] code = "TIMESTAMP" -> [sec : {FirstSecond, -13, LastSecond}, nsec : {0, 7, 50}]
    [] code = "DATE"      -> [year : {-1, 2000}, mon : {2, 12}, mday : {28}]
    [] OTHER              -> {"CommitTimestamp"}

\* Typed values: a C++ type and a value of it.
ScalarsIn(codes) == UNION {{<<Scalar(c), v>> : v \in ScalarsOf(c)} : c \in codes}
OptionalsOf(xs) ==
  {<<Optional(x[1]), Some(x[2])>> : x \in xs} \cup {<<Optional(x[1]), Null>> : x \in xs}
VectorsOf(xs) ==
  {<<Vector(x[1]), <<>>>> : x \in xs} \cup {<<Vector(x[1]), <<x[2]>>>> : x \in xs}
    \cup {<<Vector(p[1][1]), <<p[1][2], p[2][2]>>>> :
            p \in {q \in xs \X xs : q[1][1] = q[2][1]}}
Member(n, x) == [name |-> n, value |-> x[2]]
TuplesOf(xs) ==
  {<<Tuple(<<Elem(x[1], TRUE)>>), <<Member("a", x)>>>> : x \in xs}
    \cup {<<Tuple(<<Elem(p[1][1], FALSE), Elem(p[2][1], TRUE)>>),
            <<Member("", p[1]), Member("b", p[2])>>>> : p \in xs \X xs}

Some2 == ScalarsIn({"BOOL", "STRING"})
TypedValues ==
  ScalarsIn(Codes) \cup OptionalsOf(ScalarsIn(Codes)) \cup VectorsOf(ScalarsIn(Codes))
    \cup VectorsOf(OptionalsOf(Some2)) \cup OptionalsOf(VectorsOf(Some2))
    \cup TuplesOf(Some2 \cup OptionalsOf(Some2)) \cup TuplesOf(VectorsOf(ScalarsIn({"BOOL"})))
    \cup OptionalsOf(TuplesOf(Some2)) \cup VectorsOf(TuplesOf(ScalarsIn({"BOOL"})))
    \cup TuplesOf(TuplesOf(ScalarsIn({"BOOL"})))
    \cup VectorsOf(OptionalsOf(TuplesOf(ScalarsIn({"BOOL"}))))

\* The types that a value is read as, to see which ones it refuses.
OtherTypes ==
  {Scalar(c) : c \in Codes} \cup {Optional(Scalar("BOOL"))}
    \cup {Vector(Scalar(c)) : c \in {"BOOL", "STRING"}}
    \cup {Tuple(<<Elem(Scalar(c), TRUE)>>) : c \in {"BOOL", "STRING"}}

TryValue == \E x \in TypedValues : input' = [codec |-> "value", T |-> x[1], v |-> x[2]]

RECURSIVE SameProto(_, _)
SameProto(T, U) ==
  \/ T.cpp = "optional" /\ SameProto(T.of[1], U)
  \/ U.cpp = "optional" /\ SameProto(T, U.of[1])
  \/ T.cpp = "scalar" /\ U.cpp = "scalar" /\ TypeCode(T.code) = TypeCode(U.code)
  \/ T.cpp = "vector" /\ U.cpp = "vector" /\ SameProto(T.of[1], U.of[1])
  \/ /\ T.cpp = "tuple" /\ U.cpp = "tuple" /\ Len(T.of) = Len(U.of)
     /\ \A i \in DOMAIN T.of : SameProto(T.of[i].T, U.of[i].T)

RECURSIVE Unnamed(_, _)
\* A value without the names of its fields.
Unnamed(T, v) ==
  CASE T.cpp = "scalar"   -> v
    [] T.cpp = "optional" -> IF v.has THEN Some(Unnamed(T.of[1], v.value)) ELSE v
    [] T.cpp = "vector"   -> [i \in DOMAIN v |-> Unnamed(T.of[1], v[i])]
    [] OTHER -> [i \in DOMAIN v |-> Member("", <<T.of[i].T, Unnamed(T.of[i].T, v[i].value)>>)]

\* A value with the names of a struct, or of the structs of an array, but not
\* with those of a struct in an optional or in another struct.
OuterNames(T, v) ==
  LET Outer(U, w) ==
        [i \in DOMAIN w |-> [w[i] EXCEPT !.value = Unnamed(U.of[i].T, @)]]
  IN CASE T.cpp = "tuple" -> Outer(T, v)
       [] T.cpp = "vector" /\ T.of[1].cpp = "tuple" ->
            [i \in DOMAIN v |-> Outer(T.of[1], v[i])]
       [] OTHER -> Unnamed(T, v)

\* A value comes back as what it was, also from the parameter of a statement,
\* and from a key or the row of a mutation by whoever knows the type of the
\* column.  It is never taken for a value of another type, not even if it is
\* absent or empty.  Times are those of the years that a std::tm has.  Nothing
\* is said of the field names of a struct in an optional or in another struct.
ValuesSurvive ==
  input.codec = "value" =>
    LET value == MakeValue(input.T, input.v)
        IsBack(r) == /\ r.ok
                     /\ OuterNames(input.T, r.value) = OuterNames(input.T, input.v)
        Untyped(proto) == [type |-> value.type, value |-> proto]
        mutation == MakeWriteMutation("insert", "table", <<"c">>, <<value>>)
        written == [sql |-> "sql", params |-> [p |-> value]]
        statement == StatementToProto(written)
    IN /\ IsBack(Get(input.T, value))
       /\ IsBack(Get(input.T, Untyped(mutation.values[1][1])))
       /\ IsBack(Get(input.T, Untyped(AppendKey(<<value>>)[1])))
       /\ IsBack(Get(input.T, [type |-> statement.param_types.p,
                               value |-> statement.params.p]))
       /\ IsBack(Get(input.T, GetParameter(written, "p").value))
       /\ \A U \in OtherTypes : Get(U, value).ok => SameProto(input.T, U)

EqualValues ==
  {x \in TypedValues :
     \/ x[1].cpp = "vector" /\ x[1].of[1].code # "COMMIT_TIMESTAMP"
     \/ x[1].cpp = "optional" /\ x[1].of[1].cpp # "scalar"
     \/ x[1].cpp = "tuple" \/ x[1] = Scalar("STRING")}
    \cup {<<Scalar("FLOAT64"), d>> : d \in {"0.5", "NaN"}}
    \cup {<<Vector(Scalar("FLOAT64")), <<d>>>> : d \in {"0.5", "NaN"}}

TryEqual ==
  \E x \in EqualValues : \E y \in {z \in EqualValues : z[1].cpp = x[1].cpp} :
    input' = [codec |-> "equal", x |-> x, y |-> y]

HasNaN(x) == x = <<Scalar("FLOAT64"), "NaN">>
               \/ x = <<Vector(Scalar("FLOAT64")), <<"NaN">>>>

RECURSIVE HasNullStruct(_, _)
HasNullStruct(type, pv) ==
  \/ type.code = "STRUCT" /\ pv.kind = "null"
  \/ /\ type.code = "ARRAY"
     /\ \E i \in DOMAIN Elements(pv) : HasNullStruct(ElementType(type), pv.list[i])
  \/ /\ type.code = "STRUCT"
     /\ \E i \in DOMAIN Elements(pv) : HasNullStruct(type.fields[i].type, pv.list[i])

IsArrayOfStructs(type) == type.code = "ARRAY" /\ ElementType(type).code = "STRUCT"

\* Values are equal if and only if their types and protobufs are, at any depth,
\* and a NaN, also inside of an array, is equal to nothing.  (Two things are
\* not said: that a null STRUCT is equal to itself, and that equal arrays of
\* STRUCTs have fields of the same names and types.)
EqualityAgrees ==
  input.codec = "equal" =>
    LET a == MakeValue(input.x[1], input.x[2])
        b == MakeValue(input.y[1], input.y[2])
        IsNaN == HasNaN(input.x) \/ HasNaN(input.y)
    IN /\ Same(a, b) =>
            /\ a.value = b.value /\ ~IsNaN
            /\ ~IsArrayOfStructs(a.type) => a.type = b.type
       /\ a.type = b.type /\ a.value = b.value /\ ~IsNaN
            /\ ~HasNullStruct(a.type, a.value) => Same(a, b)

\* What is given to the library comes back from it: values of every type,
\* equal if they were, and the octets of a BYTES value from its text.
ConversionsInvert == ValuesSurvive /\ BytesSurvive /\ EqualityAgrees

(***************************************************************************)
(* Values in pieces.                                                       *)
(***************************************************************************)
Atoms == {BoolValue(TRUE), Chars(<<>>), Chars(<<"x">>), Chars(<<"x", "y">>)}
Lists1 == {ListValue(<<>>)} \cup {ListValue(<<a>>) : a \in Atoms}
            \cup {ListValue(p) : p \in Atoms \X Atoms}
Wholes == (Atoms \ {BoolValue(TRUE)}) \cup Lists1
            \cup {ListValue(p) : p \in Lists1 \X Atoms}
            \cup {ListValue(p) : p \in Lists1 \X Lists1}

TryMerge ==
  \E pv \in Wholes : \E b \in Breaks(pv) :
    input' = [codec |-> "merge", whole |-> pv, parts |-> b]

\* However the service breaks a value in two, MergeChunk() makes it whole
\* again, also when one of the pieces is broken once more.
ChunksMerge ==
  input.codec = "merge" =>
    LET first == input.parts[1]
        second == input.parts[2]
    IN /\ MergeChunk(first, second) = Ok(input.whole)
       /\ \A b \in Breaks(first) :
            LET r == MergeChunk(b[1], b[2])
            IN r.ok /\ MergeChunk(r.value, second) = Ok(input.whole)

(***************************************************************************)
(* Rows.                                                                   *)
(***************************************************************************)
Columns == {<<Scalar("STRING"), "x">>, <<Scalar("BOOL"), TRUE>>}

TryRow ==
  \E n \in 0 .. 3 : \E names \in [1 .. n -> {"a", "b"}], xs \in [1 .. n -> Columns] :
    input' = [codec |-> "row", names |-> names, xs |-> xs]

\* A row has its values under their positions and their names, the first one
\* where a name comes twice, and converts to a tuple if it has as many columns,
\* each of the type asked for.
RowConverts ==
  input.codec = "row" =>
    LET xs == input.xs
        row == Row([i \in DOMAIN xs |-> MakeValue(xs[i][1], xs[i][2])], input.names)
        Ts == <<Scalar("STRING"), Scalar("BOOL")>>
        Named(name) == {i \in DOMAIN xs : input.names[i] = name}
    IN /\ GetTuple(Ts, row) = IF [i \in DOMAIN xs |-> xs[i][1]] = Ts
                              THEN Ok([i \in DOMAIN xs |-> xs[i][2]]) ELSE Failed
       /\ \A pos \in 0 .. 3 : GetAt(row, pos).ok <=> pos < Len(xs)
       /\ \A name \in {"a", "b", "c"} :
            IF Named(name) = {} THEN ~GetNamed(row, name).ok
            ELSE \E i \in Named(name) :
                   /\ \A j \in Named(name) : i <= j
                   /\ GetNamed(row, name) = Ok(row.values[i])

(***************************************************************************)
(* Results.                                                                *)
(***************************************************************************)
\* What can come with a message.
Metadata == {Null} \cup
  {Some([transaction |-> t]) :
     t \in {Null} \cup {Some([read_timestamp |-> r]) : r \in {Null, Some(1), Some(2)}}}
Stats == {Null} \cup
  {Some([query_stats |-> q, query_plan |-> p, row_count_exact |-> n]) :
     q \in {Null, Some("s")}, p \in {Null, Some("p")}, n \in {0, 2}}
Messages == [metadata : Metadata, stats : Stats]

TryResult ==
  \E a, b \in Messages, m \in Metadata :
    /\ a.metadata.has
    /\ input' = [codec |-> "result",
                 messages |-> <<a, [metadata |-> m, stats |-> Null], b>>]

\* A result says the same of the time of its read from its first message to
\* its last; at the end it has the statistics that came last, as a DML result
\* has its only ones; and a result that is only an error says nothing.
ResultsReport ==
  input.codec = "result" =>
    LET m == input.messages
        read[i \in 0 .. Len(m)] ==
          IF i = 0 THEN StatusOnlyResultSetSource ELSE ReadFromStream(read[i - 1], m[i])
        At(i) == ProfileQueryResult(read[i])
        with == {i \in DOMAIN m : m[i].stats.has}
        last == CHOOSE i \in with : \A j \in with : j <= i
    IN /\ \A i \in DOMAIN m : At(i).ReadTimestamp = At(1).ReadTimestamp
       /\ At(1).ReadTimestamp.has =>
            /\ At(1).ReadTimestamp = m[1].metadata.value.transaction.value.read_timestamp
            /\ RowStream(read[Len(m)]).ReadTimestamp = At(1).ReadTimestamp
       /\ with # {} =>
            LET dml == DmlResultSetSource(m[last])
                stats == m[last].stats.value
            IN /\ At(Len(m)).ExecutionStats = stats.query_stats
               /\ At(Len(m)).ExecutionPlan = stats.query_plan
               /\ DmlResult(dml).RowsModified = stats.row_count_exact
               /\ ProfileDmlResult(dml).ExecutionPlan = stats.query_plan
       /\ with = {} => ~At(Len(m)).ExecutionStats.has /\ ~At(Len(m)).ExecutionPlan.has
       /\ At(0) = [ReadTimestamp |-> Null, ExecutionStats |-> Null, ExecutionPlan |-> Null]

\* Rows, the values that were broken to send them, and what is told about
\* them, get to the application as they came.
ResultsAreComplete == RowConverts /\ ChunksMerge /\ ResultsReport

(***************************************************************************)
(* Requests.                                                               *)
(***************************************************************************)
KeyRange == 1 .. 3
KeyOf(k) == <<MakeValue(Scalar("INT64"), k)>>
KeyCalls ==
  {<<"key", k>> : k \in KeyRange}
    \cup {<<"range", s, e, b1, b2>> : s \in KeyRange, e \in KeyRange,
            b1 \in {"kClosed", "kOpen"}, b2 \in {"kClosed", "kOpen"}}

KeyCall(ks, call) ==
  IF call[1] = "key" THEN AddKey(ks, KeyOf(call[2]))
  ELSE AddRange(ks, KeyBound(KeyOf(call[2]), call[4]), KeyBound(KeyOf(call[3]), call[5]))

TryKeys ==
  \E all \in BOOLEAN, c1 \in KeyCalls, c2 \in KeyCalls :
    input' = [codec |-> "keys", all |-> all, calls |-> <<c1, c2>>]

\* What the service reads in the protobuf of a key set.
Number(protos) == protos[1].text
InRange(k, r) ==
  /\ Number(r.start.key) < k \/ (r.start.bound = "kClosed" /\ Number(r.start.key) = k)
  /\ k < Number(r.end.key) \/ (r.end.bound = "kClosed" /\ k = Number(r.end.key))
Covers(ks, k) ==
  \/ ks.all
  \/ \E i \in DOMAIN ks.keys : Number(ks.keys[i]) = k
  \/ \E i \in DOMAIN ks.ranges : InRange(k, ks.ranges[i])

\* A key set has the keys and the ranges that were added to it, each bound
\* with its own kind, or all keys whatever is added; so has the mutation that
\* deletes them.
KeySetCovers ==
  input.codec = "keys" =>
    LET ks == KeyCall(KeyCall(KeySetOf(input.all), input.calls[1]), input.calls[2])
        Added(k, c) ==
          IF c[1] = "key" THEN c[2] = k
          ELSE k \in ((IF c[4] = "kOpen" THEN c[2] + 1 ELSE c[2])
                       .. (IF c[5] = "kOpen" THEN c[3] - 1 ELSE c[3]))
    IN \A k \in KeyRange :
         Covers(MakeDeleteMutation("table", ks).key_set, k)
           <=> input.all \/ Added(k, input.calls[1]) \/ Added(k, input.calls[2])

TryPartition ==
  \E all \in BOOLEAN, index \in {"", "i"}, limit \in {0, 5}, n \in 0 .. 2,
     x \in Some2 \cup OptionalsOf(Some2), call \in BOOLEAN, client \in BOOLEAN :
    input' = [codec |-> "partition", all |-> all, index |-> index, limit |-> limit,
              params |-> [p \in 1 .. n |-> MakeValue(x[1], x[2])],
              preferred |-> IF call THEN Some("1") ELSE Null,
              fallback |-> IF client THEN Some("2") ELSE Null]

\* A process that is sent a part of a read or a query asks for exactly that
\* part of it: the same session, transaction, table, index, keys, columns,
\* limit, statement and parameters.  The optimizer version is not sent: the
\* one that counts is that of the process that runs the part.
PartitionKeepsRequest ==
  input.codec = "partition" =>
    LET params == [table |-> "t", index |-> input.index, columns |-> <<"a", "b">>,
                   keys |-> AddKey(KeySetOf(input.all), KeyOf(1)),
                   limit |-> input.limit, partition_token |-> ""]
        wholeRead == PartitionReadRequest("s", BeginSelector("read_only", {}), params)
        part == DeserializeReadPartition(SerializeReadPartition(
                  MakeReadPartition("txn", "s", "token", params)))
        read == MakeReadParams(part.value)
        sent == ReadRequest(read.session, read.selector, read.params)
        statement == [sql |-> "sql", params |-> input.params]
        query == MakeQueryPartition("txn", "s", "token", statement)
        back == DeserializeQueryPartition(SerializeQueryPartition(query))
        version == OverlayQueryOptions(input.preferred, input.fallback, Null)
        run == MakeSqlParams(back.value, version)
        sql == SqlRequest(run.session, run.selector, run.params)
    IN /\ part.ok
       /\ \A f \in DOMAIN wholeRead \ {"transaction"} : sent[f] = wholeRead[f]
       /\ sent.transaction = IdSelector("txn") /\ sent.partition_token = "token"
       /\ sent.limit = input.limit
       /\ back = Ok(query)
       /\ sql = [session |-> "s", transaction |-> IdSelector("txn"),
                 sql |-> StatementToProto(statement), partition_token |-> "token",
                 optimizer_version |-> IF input.preferred # Null THEN input.preferred
                                       ELSE input.fallback]

TryStaleness ==
  \E ns \in Near(0, 3 * kNanosPerSecond) :
    input' = [codec |-> "staleness", ns |-> ns]

\* A stale read asks for the duration that the application gave.
StalenessIsExact ==
  input.codec = "staleness" =>
    LET bound == StalenessOptions("max_staleness", input.ns, kNanosPerSecond)
        d == SingleUseSelector(bound).opts.value
    IN d.seconds * kNanosPerSecond + d.nanos = input.ns

\* A request asks for what the application asked for: the keys and ranges of
\* its key set, and the part of a read or a query that it was given.
RequestsAreFaithful == KeySetCovers /\ PartitionKeepsRequest /\ StalenessIsExact

-----------------------------------------------------------------------------
TryCodec ==
  \/ TryText \/ TryNumber \/ TryStaleness
  \/ TryBytes \/ TryBase64 \/ TryValue \/ TryEqual \/ TryMerge \/ TryRow \/ TryResult
  \/ TryKeys \/ TryPartition
=============================================================================
