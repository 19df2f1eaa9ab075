------------------------------- MODULE Values -------------------------------
(***************************************************************************)
(* Value: a C++ value as a pair of Type and Value protobufs (value.h,      *)
(* value.cc), and MergeChunk(), which puts together a protobuf that came   *)
(* in pieces (internal/merge_chunk.cc).                                    *)
(*                                                                         *)
(* T is a C++ type: a scalar, optional<T>, vector<T> or a tuple whose      *)
(* elements may be pairs of a name and a value.  A string_value is a       *)
(* record that says what the string is the text of.                        *)
(***************************************************************************)
EXTENDS Timestamps, Bytes

(***************************************************************************)
(* C++ types and their values.                                             *)
(***************************************************************************)
Scalar(code) == [cpp |-> "scalar", code |-> code, of |-> <<>>]
Optional(T) == [cpp |-> "optional", code |-> "", of |-> <<T>>]
Vector(T) == [cpp |-> "vector", code |-> "", of |-> <<T>>]
\* of[i] is the type of the element, or of the second of the pair; the value
\* of a tuple is a sequence of records with that value and the name.
Tuple(Ts) == [cpp |-> "tuple", code |-> "", of |-> Ts]
Elem(T, pair) == [T |-> T, pair |-> pair]

Null == [has |-> FALSE]
Some(v) == [has |-> TRUE, value |-> v]

(***************************************************************************)
(* Type protobufs.                                                         *)
(***************************************************************************)
Type(code, element, fields) ==
  [code |-> code, element |-> element, fields |-> fields]
NoType == Type("TYPE_CODE_UNSPECIFIED", <<>>, <<>>)

\* The array_element_type() of a type, which is a default if it has none.
ElementType(type) == IF type.element = <<>> THEN NoType ELSE type.element[1]

TypeCode(code) == IF code = "COMMIT_TIMESTAMP" THEN "TIMESTAMP" ELSE code

RECURSIVE MakeTypeProto(_, _)
\* The value matters for its names only: an absent or empty one has none, and
\* those of the value in an optional are not looked at.  The constructor throws
\* when the elements of a vector differ in their names.
MakeTypeProto(T, v) ==
  CASE T.cpp = "scalar"   -> Type(TypeCode(T.code), <<>>, <<>>)
    [] T.cpp = "optional" -> MakeTypeProto(T.of[1], <<>>)
    [] T.cpp = "vector"   ->
         Type("ARRAY",
              <<MakeTypeProto(T.of[1], IF v = <<>> THEN <<>> ELSE v[1])>>, <<>>)
    [] OTHER ->
         Type("STRUCT", <<>>,
              [i \in DOMAIN T.of |->
                 [name |-> IF v = <<>> \/ ~T.of[i].pair THEN "" ELSE v[i].name,
                  type |-> MakeTypeProto(T.of[i].T,
                             IF v = <<>> THEN <<>> ELSE v[i].value)]])

RECURSIVE TypeProtoIs(_, _)

\* Mutant: an array is an array, whatever it is of.
TypeProtoIs_AnyElement(T, type) ==
  CASE T.cpp = "scalar"   -> type.code = TypeCode(T.code)
    [] T.cpp = "optional" -> TypeProtoIs(T.of[1], type)
    [] T.cpp = "vector"   -> type.code = "ARRAY"
    [] OTHER -> type.code = "STRUCT" /\ Len(type.fields) = Len(T.of)

TypeProtoIs(T, type) ==
  CASE T.cpp = "scalar"   -> type.code = TypeCode(T.code)
    [] T.cpp = "optional" -> TypeProtoIs(T.of[1], type)
    [] T.cpp = "vector"   -> type.code = "ARRAY"
                               /\ TypeProtoIs(T.of[1], ElementType(type))
    [] OTHER -> /\ type.code = "STRUCT"
                /\ Len(type.fields) = Len(T.of)
                /\ \A i \in DOMAIN T.of : TypeProtoIs(T.of[i].T, type.fields[i].type)

(***************************************************************************)
(* Value protobufs.                                                        *)
(***************************************************************************)
NullValue == [kind |-> "null"]
BoolValue(b) == [kind |-> "bool", bool |-> b]
NumberValue(x) == [kind |-> "number", number |-> x]
ListValue(s) == [kind |-> "list", list |-> s]
StringValue(form, text) == [kind |-> "string", form |-> form, text |-> text]

\* Numbers that JSON does not have are sent as their names.
MakeDouble(d) ==
  IF d \in {"NaN", "Infinity", "-Infinity"} THEN StringValue("word", d)
  ELSE NumberValue(d)

MakeScalar(code, v) ==
  CASE code = "BOOL"      -> BoolValue(v)
    [] code = "INT64"     -> StringValue("decimal", v)
    [] code = "FLOAT64"   -> MakeDouble(v)
    [] code = "STRING"    -> StringValue("word", v)
    [] code = "BYTES"     -> StringValue("base64", Encode(v))
    [] code = "TIMESTAMP" -> StringValue("date-time", ToRFC3339(v))
    [] code = "DATE"      -> StringValue("full-date", DateToString(v))
    [] OTHER              -> StringValue("word", "spanner.commit_timestamp()")

RECURSIVE MakeValueProto(_, _)
MakeValueProto(T, v) ==
  CASE T.cpp = "scalar"   -> MakeScalar(T.code, v)
    [] T.cpp = "optional" -> IF v.has THEN MakeValueProto(T.of[1], v.value)
                             ELSE NullValue
    [] T.cpp = "vector"   ->
         ListValue([i \in DOMAIN v |-> MakeValueProto(T.of[1], v[i])])
    [] OTHER ->
         ListValue([i \in DOMAIN v |-> MakeValueProto(T.of[i].T, v[i].value)])

MakeValue(T, v) == [type |-> MakeTypeProto(T, v), value |-> MakeValueProto(T, v)]

\* What a text of one form is for a parser of another is not a number, a
\* date or base64; the texts of this model have one form each.
GetScalar(code, pv) ==
  CASE code = "BOOL" -> IF pv.kind = "bool" THEN Ok(pv.bool) ELSE Failed
    [] code = "FLOAT64" ->
         IF pv.kind = "number" THEN Ok(pv.number)
         ELSE IF pv.kind = "string" /\ pv.form = "word"
                   /\ pv.text \in {"NaN", "Infinity", "-Infinity"}
         THEN Ok(pv.text) ELSE Failed
    [] pv.kind # "string" -> Failed
    [] code = "INT64" ->
         IF pv.form = "decimal" /\ pv.text \in IntMin .. IntMax
         THEN Ok(pv.text) ELSE Failed
    [] code = "STRING" -> Ok(pv.text)
    [] code = "BYTES" -> IF pv.form = "base64" /\ IsBase64(pv.text)
                         THEN Ok(Decode(pv.text)) ELSE Failed
    [] code = "TIMESTAMP" -> IF pv.form = "date-time" THEN FromRFC3339(pv.text)
                             ELSE Failed
    [] code = "DATE" -> IF pv.form = "full-date" THEN DateFromString(pv.text)
                        ELSE Failed
    [] OTHER -> IF pv.form = "word" /\ pv.text = "spanner.commit_timestamp()"
                THEN Ok("CommitTimestamp") ELSE Failed

\* Mutant: the index is not advanced.
FieldName_First(type, i) == IF type.fields # <<>> THEN type.fields[1].name
                            ELSE "undefined"

\* The name of a field; beyond the fields there are, anything.
FieldName(type, i) == IF i \in DOMAIN type.fields THEN type.fields[i].name
                      ELSE "undefined"

RECURSIVE GetValue(_, _, _)
\* An element of a tuple is extracted with the type of the tuple itself.
GetValue(T, pv, type) ==
  CASE T.cpp = "scalar" -> GetScalar(T.code, pv)
    [] T.cpp = "optional" ->
         IF pv.kind = "null" THEN Ok(Null)
         ELSE LET r == GetValue(T.of[1], pv, type)
              IN IF r.ok THEN Ok(Some(r.value)) ELSE Failed
    [] pv.kind # "list" -> Failed
    [] T.cpp = "vector" ->
         LET r == [i \in DOMAIN pv.list |->
                     GetValue(T.of[1], pv.list[i], ElementType(type))]
         IN IF \A i \in DOMAIN r : r[i].ok THEN Ok([i \in DOMAIN r |-> r[i].value])
            ELSE Failed
    [] OTHER ->
         LET r == [i \in DOMAIN T.of |-> GetValue(T.of[i].T, pv.list[i], type)]
         IN IF \A i \in DOMAIN r : r[i].ok
            THEN Ok([i \in DOMAIN r |->
                       [name |-> IF T.of[i].pair THEN FieldName(type, i) ELSE "",
                        value |-> r[i].value]])
            ELSE Failed

\* Value::get<T>().
Get(T, value) ==
  IF ~TypeProtoIs(T, value.type) THEN Failed
  ELSE IF value.value.kind = "null"
  THEN IF T.cpp = "optional" THEN Ok(Null) ELSE Failed
  ELSE GetValue(T, value.value, value.type)

\* The list of values that a protobuf has; a null has none.
Elements(pv) == IF pv.kind = "list" THEN pv.list ELSE <<>>

\* Mutant: NaN is equal to itself.
SameScalar_NaN(code, pv1, pv2) == pv1 = pv2

SameScalar(code, pv1, pv2) ==
  /\ pv1 = pv2
  /\ ~(code = "FLOAT64" /\ pv1.kind = "string" /\ pv1.text = "NaN")

RECURSIVE Equal(_, _, _, _)
\* operator==.  The elements of both arrays are compared by the element type
\* of the first; a null struct has fewer values than fields.
Equal(pt1, pv1, pt2, pv2) ==
  /\ pt1.code = pt2.code
  /\ pv1.kind = pv2.kind
  /\ LET v1 == Elements(pv1)
         v2 == Elements(pv2)
     IN CASE pt1.code = "ARRAY" ->
               /\ ElementType(pt1).code = ElementType(pt2).code
               /\ Len(v1) = Len(v2)
               /\ \A i \in DOMAIN v1 :
                    Equal(ElementType(pt1), v1[i], ElementType(pt1), v2[i])
          [] pt1.code = "STRUCT" ->
               /\ Len(pt1.fields) = Len(pt2.fields)
               /\ Len(pt1.fields) = Len(v1) /\ Len(v1) = Len(v2)
               /\ \A i \in DOMAIN v1 :
                    /\ pt1.fields[i].name = pt2.fields[i].name
                    /\ Equal(pt1.fields[i].type, v1[i], pt2.fields[i].type, v2[i])
          [] OTHER -> SameScalar(pt1.code, pv1, pv2)

Same(a, b) == Equal(a.type, a.value, b.type, b.value)

(***************************************************************************)
(* Values in pieces.  Here a string is the sequence of its characters.     *)
(***************************************************************************)
Chars(s) == [kind |-> "chars", list |-> s]

Merges(pv) == pv.kind \in {"chars", "list"}

RECURSIVE MergeChunk(_, _)

\* Mutant: the elements next to the break are never put together.
MergeLists_Append(v, c) == Ok(ListValue(v \o c))

\* The last element so far and the first one of the chunk are one, if they
\* are strings or lists.
MergeLists(v, c) ==
  IF v = <<>> THEN Ok(ListValue(c))
  ELSE IF c = <<>> THEN Ok(ListValue(v))
  ELSE IF ~Merges(v[Len(v)]) THEN Ok(ListValue(v \o c))
  ELSE LET r == MergeChunk(v[Len(v)], c[1])
       IN IF ~r.ok THEN Failed
          ELSE Ok(ListValue(SubSeq(v, 1, Len(v) - 1) \o <<r.value>>
                              \o SubSeq(c, 2, Len(c))))

MergeChunk(value, chunk) ==
  IF value.kind # chunk.kind \/ ~Merges(value) THEN Failed
  ELSE IF value.kind = "chars" THEN Ok(Chars(value.list \o chunk.list))
  ELSE MergeLists(value.list, chunk.list)

\* The ways in which the service may break a value in two: anywhere in a
\* string; in a list inside of an element, or after one that does not merge.
RECURSIVE Breaks(_)
Breaks(pv) ==
  IF pv.kind = "chars"
  THEN {<<Chars(SubSeq(pv.list, 1, i)), Chars(SubSeq(pv.list, i + 1, Len(pv.list)))>> :
          i \in 0 .. Len(pv.list)}
  ELSE LET Before(i) == SubSeq(pv.list, 1, i)
           After(i) == SubSeq(pv.list, i + 1, Len(pv.list))
       IN {<<ListValue(<<>>), pv>>, <<pv, ListValue(<<>>)>>}
            \cup {<<ListValue(Before(i)), ListValue(After(i))>> :
                    i \in {k \in DOMAIN pv.list : ~Merges(pv.list[k])}}
            \cup UNION {{<<ListValue(Before(i - 1) \o <<b[1]>>),
                           ListValue(<<b[2]>> \o After(i))>> :
                           b \in Breaks(pv.list[i])} :
                         i \in {k \in DOMAIN pv.list : Merges(pv.list[k])}}
=============================================================================
