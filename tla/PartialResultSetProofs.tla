----------------------- MODULE PartialResultSetProofs -----------------------
(***************************************************************************)
(* Proofs about PartialResultSet and ResultLoop, for any result, any cut   *)
(* of it into pieces and messages and any retry policy, when every message *)
(* has a resume token: the rows returned are those of the result, the end  *)
(* is announced after the last of them, and a loop that ends without an    *)
(* error has seen them all.                                                *)
(***************************************************************************)
EXTENDS ResultLoop, FiniteSetTheorems, SequenceTheorems, TLAPS

(***************************************************************************)
(* The pieces of a result and its values.                                  *)
(***************************************************************************)
LEMMA StreamFacts ==
  /\ NumPieces \in Nat /\ NumValues \in Nat /\ NumColumns \in Nat \ {0}
  /\ \A p \in 1 .. NumPieces :
       Stream[p] \in Nat \ {0} /\ Stream[p] <= NumValues
  /\ \A p, q \in 1 .. NumPieces : p <= q => Stream[p] <= Stream[q]
  /\ \A v \in 1 .. NumValues : \E p \in 1 .. NumPieces : Stream[p] = v
<1>1. /\ NumPieces \in Nat
      /\ \A p \in 1 .. NumPieces : Stream[p] \in Nat \ {0}
  BY StreamAssumption DEF NumPieces
<1>2. NumValues \in Nat
  BY <1>1 DEF NumValues
<1>3. \A p \in 1 .. NumPieces : Stream[p] <= NumValues
  BY <1>1, StreamAssumption DEF NumValues
<1> QED
  BY <1>1, <1>2, <1>3, StreamAssumption

\* The pieces of the values before v are those before FirstPiece(v): they are
\* an initial segment, and there are as many as FirstPiece(v) says.
LEMMA FirstPieceSplits ==
  ASSUME NEW v \in Nat
  PROVE  /\ FirstPiece(v) \in 1 .. (NumPieces + 1)
         /\ \A p \in 1 .. NumPieces : Stream[p] < v <=> p < FirstPiece(v)
<1> DEFINE before == {p \in 1 .. NumPieces : Stream[p] < v}
           n == Cardinality(before)
<1>1. IsFiniteSet(1 .. NumPieces) /\ Cardinality(1 .. NumPieces) = NumPieces
  BY StreamFacts, FS_Interval
<1>2. IsFiniteSet(before) /\ n \in Nat /\ n <= NumPieces
  <2>1. before \in SUBSET (1 .. NumPieces)
    OBVIOUS
  <2> QED
    BY <1>1, <2>1, FS_Subset, FS_CardinalityType
<1>3. ASSUME NEW p \in before PROVE p \in 1 .. n
  <2>1. p \in 1 .. NumPieces /\ p \in Nat /\ p >= 1
    BY StreamFacts
  <2>2. 1 .. p \in SUBSET before
    <3>1. ASSUME NEW q \in 1 .. p PROVE q \in before
      <4>1. q \in 1 .. NumPieces /\ Stream[q] <= Stream[p] /\ Stream[p] < v
        BY <2>1, StreamFacts
      <4> QED
        BY <2>1, <4>1, StreamFacts
    <3> QED
      BY <3>1
  <2>3. IsFiniteSet(1 .. p) /\ Cardinality(1 .. p) = p
    BY <2>1, FS_Interval
  <2>4. p <= n
    BY <1>2, <2>2, <2>3, FS_Subset
  <2> QED
    BY <1>2, <2>1, <2>4
<1>4. IsFiniteSet(1 .. n) /\ Cardinality(1 .. n) = n
  BY <1>2, FS_Interval
<1>5. before = 1 .. n
  <2>1. before \in SUBSET (1 .. n)
    BY <1>3
  <2> HIDE DEF before
  <2> QED
    BY <1>4, <2>1, FS_Subset
<1>6. FirstPiece(v) = n + 1
  BY DEF FirstPiece
<1>7. \A p \in 1 .. NumPieces : Stream[p] < v <=> p \in before
  OBVIOUS
<1> HIDE DEF before, n
<1> QED
  BY <1>2, <1>5, <1>6, <1>7, StreamFacts

\* The value that piece p + 1 belongs to.
NextValue(p) == IF p = NumPieces THEN NumValues + 1 ELSE Stream[p + 1]

LEMMA PieceOrder ==
  /\ \A v \in 1 .. NumValues : FirstPiece(v) < FirstPiece(v + 1)
  /\ FirstPiece(1) = 1 /\ FirstPiece(NumValues + 1) = NumPieces + 1
  /\ \A p \in 1 .. NumPieces :
       FirstPiece(Stream[p]) <= p /\ p <= LastPiece(Stream[p])
<1>1. ASSUME NEW v \in 1 .. NumValues PROVE FirstPiece(v) < FirstPiece(v + 1)
  <2>1. v \in Nat /\ v + 1 \in Nat
    BY StreamFacts
  <2>2. PICK p \in 1 .. NumPieces : Stream[p] = v
    BY StreamFacts
  <2>3. ~(p < FirstPiece(v)) /\ p < FirstPiece(v + 1)
    BY <2>1, <2>2, FirstPieceSplits
  <2> QED
    BY <2>1, <2>3, FirstPieceSplits, StreamFacts
<1>2. FirstPiece(1) = 1
  <2>1. /\ FirstPiece(1) \in 1 .. (NumPieces + 1)
        /\ \A p \in 1 .. NumPieces : Stream[p] < 1 <=> p < FirstPiece(1)
    BY FirstPieceSplits
  <2>2. NumPieces > 0 => ~(1 < FirstPiece(1))
    BY <2>1, StreamFacts
  <2> QED
    BY <2>1, <2>2, StreamFacts
<1>3. FirstPiece(NumValues + 1) = NumPieces + 1
  <2>1. /\ FirstPiece(NumValues + 1) \in 1 .. (NumPieces + 1)
        /\ \A p \in 1 .. NumPieces :
             Stream[p] < NumValues + 1 <=> p < FirstPiece(NumValues + 1)
    BY FirstPieceSplits, StreamFacts
  <2>2. NumPieces > 0 => NumPieces < FirstPiece(NumValues + 1)
    BY <2>1, StreamFacts
  <2> QED
    BY <2>1, <2>2, StreamFacts
<1>4. ASSUME NEW p \in 1 .. NumPieces
      PROVE  FirstPiece(Stream[p]) <= p /\ p <= LastPiece(Stream[p])
  <2>1. Stream[p] \in Nat /\ Stream[p] + 1 \in Nat
    BY StreamFacts
  <2>2. ~(p < FirstPiece(Stream[p])) /\ p < FirstPiece(Stream[p] + 1)
    BY <2>1, FirstPieceSplits
  <2> QED
    BY <2>1, <2>2, FirstPieceSplits, StreamFacts DEF LastPiece
<1> QED
  BY <1>1, <1>2, <1>3, <1>4

LEMMA PiecesFacts ==
  ASSUME NEW a \in Int, NEW b \in Int
  PROVE  /\ Pieces(a, b) \in Seq(Int)
         /\ Len(Pieces(a, b)) = IF b < a THEN 0 ELSE b - a + 1
         /\ \A i \in 1 .. (b - a + 1) : Pieces(a, b)[i] = a + i - 1
         /\ Pieces(a, b) = <<>> <=> b < a
<1> DEFINE n == IF b < a THEN 0 ELSE b - a + 1
           s == Pieces(a, b)
<1>1. n \in Nat /\ 1 .. (b - a + 1) = 1 .. n
  OBVIOUS
<1>2. s = [i \in 1 .. n |-> a + i - 1]
  BY <1>1 DEF Pieces
<1> HIDE DEF n, s
<1>3. s \in Seq(Int) /\ Len(s) = n /\ \A i \in 1 .. n : s[i] = a + i - 1
  BY <1>1, <1>2
<1>4. s = <<>> <=> n = 0
  BY <1>1, <1>3, EmptySeq
<1> QED
  BY <1>1, <1>3, <1>4 DEF n, s

\* Pieces that follow each other make up a longer part of the value.
LEMMA PiecesJoin ==
  ASSUME NEW x \in Int, NEW y \in Int, NEW z \in Int, x <= y + 1, y <= z
  PROVE  Pieces(x, y) \o Pieces(y + 1, z) = Pieces(x, z)
<1>1. PICK s : s = Pieces(x, y)
  OBVIOUS
<1>2. PICK t : t = Pieces(y + 1, z)
  OBVIOUS
<1>3. PICK u : u = Pieces(x, z)
  OBVIOUS
<1>4. /\ s \in Seq(Int) /\ Len(s) = y - x + 1
      /\ \A i \in 1 .. (y - x + 1) : s[i] = x + i - 1
  <2>1. /\ s \in Seq(Int)
        /\ Len(s) = IF y < x THEN 0 ELSE y - x + 1
        /\ \A i \in 1 .. (y - x + 1) : s[i] = x + i - 1
    BY <1>1, PiecesFacts
  <2>2. (IF y < x THEN 0 ELSE y - x + 1) = y - x + 1
    OBVIOUS
  <2> QED
    BY <2>1, <2>2
<1>5. /\ t \in Seq(Int) /\ Len(t) = z - y
      /\ \A i \in 1 .. (z - y) : t[i] = y + i
  <2>1. PICK y1 \in Int : y1 = y + 1
    OBVIOUS
  <2>2. /\ t \in Seq(Int)
        /\ Len(t) = IF z < y1 THEN 0 ELSE z - y1 + 1
        /\ \A i \in 1 .. (z - y1 + 1) : t[i] = y1 + i - 1
    BY <1>2, <2>1, PiecesFacts
  <2> QED
    BY <2>1, <2>2
<1>6. /\ u \in Seq(Int) /\ Len(u) = z - x + 1
      /\ \A i \in 1 .. (z - x + 1) : u[i] = x + i - 1
  <2>1. /\ u \in Seq(Int)
        /\ Len(u) = IF z < x THEN 0 ELSE z - x + 1
        /\ \A i \in 1 .. (z - x + 1) : u[i] = x + i - 1
    BY <1>3, PiecesFacts
  <2>2. (IF z < x THEN 0 ELSE z - x + 1) = z - x + 1
    OBVIOUS
  <2> QED
    BY <2>1, <2>2
<1>7. /\ s \o t \in Seq(Int) /\ Len(s \o t) = z - x + 1
      /\ \A i \in 1 .. (z - x + 1) :
           (s \o t)[i] = IF i <= y - x + 1 THEN s[i] ELSE t[i - (y - x + 1)]
  <2>1. /\ s \o t \in Seq(Int) /\ Len(s \o t) = Len(s) + Len(t)
        /\ \A i \in 1 .. (Len(s) + Len(t)) :
             (s \o t)[i] = IF i <= Len(s) THEN s[i] ELSE t[i - Len(s)]
    BY <1>4, <1>5, ConcatProperties
  <2>2. Len(s) + Len(t) = z - x + 1
    BY <1>4, <1>5
  <2> QED
    BY <1>4, <2>1, <2>2
<1>8. ASSUME NEW i \in 1 .. (z - x + 1) PROVE (s \o t)[i] = u[i]
  <2>1. CASE i <= y - x + 1
    <3>1. i \in 1 .. (y - x + 1)
      BY <2>1
    <3> QED
      BY <1>4, <1>6, <1>7, <2>1, <3>1
  <2>2. CASE ~(i <= y - x + 1)
    <3>1. (s \o t)[i] = t[i - (y - x + 1)]
      BY <1>7, <2>2
    <3>2. i - (y - x + 1) \in 1 .. (z - y)
      BY <2>2
    <3>3. t[i - (y - x + 1)] = y + (i - (y - x + 1))
      BY <1>5, <3>2
    <3> QED
      BY <1>6, <3>1, <3>3
  <2> QED
    BY <2>1, <2>2
<1>9. s \o t = u
  BY <1>6, <1>7, <1>8, SeqEqual
<1> QED
  BY <1>1, <1>2, <1>3, <1>9

\* A complete value.
Value(v) == Pieces(FirstPiece(v), LastPiece(v))

LEMMA FirstPieceType ==
  \A v \in Nat : FirstPiece(v) \in Nat /\ LastPiece(v) \in Int
<1>1. ASSUME NEW v \in Nat PROVE FirstPiece(v) \in Nat
  BY FirstPieceSplits, StreamFacts
<1> QED
  BY <1>1 DEF LastPiece

\* What ReadFromStream() makes of the values of a message and the chunk.
Merged(chunk, values) ==
  IF chunk = <<>> \/ values = <<>> THEN values
  ELSE [values EXCEPT ![1] = chunk \o @]

\* After the merge the values of a message start where they should, and all
\* but the last are complete.
LEMMA MergedValues ==
  ASSUME NEW p \in Nat, NEW b \in Nat, p < b, b <= NumPieces
  PROVE  LET w == Stream[p + 1]
             values == Values(p + 1, b)
             merged == Merged(Pieces(FirstPiece(w), p), values)
         IN  /\ Stream[b] - w \in Nat /\ w \in Nat \ {0} /\ Stream[b] \in Nat
             /\ values # <<>>
             /\ merged \in Seq(Seq(Int))
             /\ Len(merged) = Stream[b] - w + 1
             /\ \A k \in 1 .. (Stream[b] - w) : merged[k] = Value(w + k - 1)
             /\ merged[Stream[b] - w + 1] = Pieces(FirstPiece(Stream[b]), b)
<1> DEFINE a == p + 1
           w == Stream[a]
           n == Stream[b] - w + 1
           low(v) == IF FirstPiece(v) < a THEN a ELSE FirstPiece(v)
           high(v) == IF LastPiece(v) > b THEN b ELSE LastPiece(v)
           values == Values(a, b)
           chunk == Pieces(FirstPiece(w), p)
           merged == Merged(chunk, values)
<1>1. /\ a \in 1 .. NumPieces /\ b \in 1 .. NumPieces /\ a <= b
      /\ w \in Nat \ {0} /\ Stream[b] \in Nat /\ w <= Stream[b]
  BY StreamFacts
<1>2. n \in Nat \ {0}
  BY <1>1
<1>3. values = [k \in 1 .. n |-> Pieces(low(w + k - 1), high(w + k - 1))]
  BY <1>1 DEF Values
<1>4. FirstPiece(w) <= a /\ a <= LastPiece(w)
  BY <1>1, PieceOrder
<1>5. \A v \in Nat : /\ FirstPiece(v) \in Nat /\ LastPiece(v) \in Int
                     /\ low(v) \in Int /\ high(v) \in Int
  BY <1>1, FirstPieceType
<1>6. ASSUME NEW k \in 1 .. n, k # 1
      PROVE  low(w + k - 1) = FirstPiece(w + k - 1)
  <2>1. w + k - 1 \in Nat /\ w < w + k - 1
    BY <1>1, <1>2, <1>6
  <2>2. a < FirstPiece(w + k - 1)
    BY <1>1, <2>1, FirstPieceSplits
  <2> QED
    BY <1>1, <1>5, <2>1, <2>2
<1>7. ASSUME NEW k \in 1 .. n
      PROVE  high(w + k - 1) = IF k = n THEN b ELSE LastPiece(w + k - 1)
  <2>1. CASE k = n
    <3>1. w + k - 1 = Stream[b]
      BY <1>1, <2>1
    <3>2. b <= LastPiece(Stream[b])
      BY <1>1, PieceOrder
    <3> QED
      BY <1>1, <1>5, <2>1, <3>1, <3>2
  <2>2. CASE k # n
    <3>1. w + k - 1 \in Nat /\ w + k - 1 < Stream[b] /\ w + k \in Nat
      BY <1>1, <1>2, <2>2
    <3>2. ~(b < FirstPiece(w + k))
      <4>1. ~(Stream[b] < w + k)
        BY <1>1, <1>2, <3>1
      <4> QED
        BY <1>1, <3>1, <4>1, FirstPieceSplits
    <3>3. LastPiece(w + k - 1) = FirstPiece(w + k) - 1
      BY <1>1, <3>1 DEF LastPiece
    <3> QED
      BY <1>1, <1>5, <2>2, <3>1, <3>2, <3>3
  <2> QED
    BY <2>1, <2>2
<1> HIDE DEF low, high
<1>8. /\ values \in Seq(Seq(Int)) /\ Len(values) = n /\ values # <<>>
      /\ \A k \in 1 .. n : values[k] = Pieces(low(w + k - 1), high(w + k - 1))
  <2>1. \A k \in 1 .. n : Pieces(low(w + k - 1), high(w + k - 1)) \in Seq(Int)
    <3>1. ASSUME NEW k \in 1 .. n
          PROVE  Pieces(low(w + k - 1), high(w + k - 1)) \in Seq(Int)
      <4>1. w + k - 1 \in Nat
        BY <1>1, <1>2
      <4> QED
        BY <1>5, <4>1, PiecesFacts
    <3> QED
      BY <3>1
  <2> HIDE DEF values, n
  <2> QED
    BY <1>2, <1>3, <2>1
<1>9. /\ merged \in Seq(Seq(Int)) /\ Len(merged) = n
      /\ \A k \in 1 .. n : k # 1 => merged[k] = values[k]
      /\ merged[1] = chunk \o values[1]
  <2>1. chunk \in Seq(Int) /\ 1 \in 1 .. n /\ values[1] \in Seq(Int)
    <3>1. w \in Nat /\ FirstPiece(w) \in Int /\ p \in Int
      BY <1>1, <1>5
    <3>2. chunk \in Seq(Int)
      BY <3>1, PiecesFacts
    <3>3. 1 \in 1 .. n
      BY <1>2
    <3> HIDE DEF chunk, values, n
    <3> QED
      BY <1>2, <1>8, <3>2, <3>3
  <2> HIDE DEF chunk, values, n
  <2>2. CASE chunk = <<>>
    <3>1. merged = values
      BY <2>2 DEF Merged
    <3>2. chunk \o values[1] = values[1]
      BY <2>1, <2>2, ConcatEmptySeq
    <3> QED
      BY <1>8, <3>1, <3>2
  <2>3. CASE chunk # <<>>
    <3>1. merged = [values EXCEPT ![1] = chunk \o values[1]]
      BY <1>8, <2>3 DEF Merged
    <3>2. chunk \o values[1] \in Seq(Int)
      BY <2>1, ConcatProperties
    <3> HIDE DEF merged
    <3>3. /\ merged \in Seq(Seq(Int)) /\ Len(merged) = Len(values)
          /\ \A k \in 1 .. Len(values) :
               merged[k] = IF k = 1 THEN chunk \o values[1] ELSE values[k]
      BY <1>2, <1>8, <2>1, <3>1, <3>2, ExceptSeq
    <3> QED
      BY <1>8, <2>1, <3>3
  <2> QED
    BY <2>2, <2>3
<1>10. merged[1] = Pieces(FirstPiece(w), high(w))
  <2>1. /\ low(w) = a /\ w \in Nat /\ FirstPiece(w) \in Int /\ high(w) \in Int
        /\ a <= high(w)
    BY <1>1, <1>4, <1>5 DEF low, high
  <2>2. values[1] = Pieces(low(w), high(w))
    <3>1. 1 \in 1 .. n /\ w + 1 - 1 = w
      BY <1>1, <1>2
    <3> HIDE DEF values, n, w
    <3> QED
      BY <1>8, <3>1
  <2>3. FirstPiece(w) <= p + 1 /\ p <= high(w) /\ p \in Int
    BY <1>4, <2>1
  <2>4. Pieces(FirstPiece(w), p) \o Pieces(p + 1, high(w))
          = Pieces(FirstPiece(w), high(w))
    BY <2>1, <2>3, PiecesJoin
  <2> HIDE DEF merged, values, w
  <2> QED
    BY <1>9, <2>1, <2>2, <2>4
<1>11. ASSUME NEW k \in 1 .. n
       PROVE  merged[k] = Pieces(FirstPiece(w + k - 1),
                            IF k = n THEN b ELSE LastPiece(w + k - 1))
  <2>1. CASE k = 1
    <3>1. w + k - 1 = w
      BY <1>1, <2>1
    <3> HIDE DEF merged, w, n
    <3> QED
      BY <1>7, <1>10, <2>1, <3>1
  <2>2. CASE k # 1
    <3> HIDE DEF merged, w, n, values
    <3> QED
      BY <1>6, <1>7, <1>8, <1>9, <2>2
  <2> QED
    BY <2>1, <2>2
<1>12. ASSUME NEW k \in 1 .. (Stream[b] - w) PROVE merged[k] = Value(w + k - 1)
  <2>1. k \in 1 .. n /\ k # n
    BY <1>1
  <2> HIDE DEF merged, w, n
  <2> QED
    BY <1>11, <2>1 DEF Value
<1>13. merged[n] = Pieces(FirstPiece(Stream[b]), b)
  <2>1. n \in 1 .. n /\ w + n - 1 = Stream[b]
    BY <1>1, <1>2
  <2> HIDE DEF merged, w, n
  <2> QED
    BY <1>11, <2>1
<1>14. Stream[b] - w \in Nat
  BY <1>1
<1> HIDE DEF merged, values, chunk
<1> QED
  BY <1>1, <1>8, <1>9, <1>12, <1>13, <1>14 DEF merged, values, chunk

\* Piece b is the last of its value unless the next message goes on with it.
LEMMA MessageEnd ==
  ASSUME NEW a \in Nat \ {0}, NEW b \in Nat, a <= b, b <= NumPieces
  PROVE  /\ Chunked(a, b) => NextValue(b) = Stream[b]
         /\ ~Chunked(a, b) => /\ NextValue(b) = Stream[b] + 1
                              /\ FirstPiece(Stream[b] + 1) = b + 1
<1>1. b \in 1 .. NumPieces /\ Stream[b] \in Nat /\ NumPieces \in Nat
  BY StreamFacts
<1>2. ASSUME Chunked(a, b) PROVE NextValue(b) = Stream[b]
  BY <1>1, <1>2 DEF Chunked, NextValue
<1>3. ASSUME ~Chunked(a, b) PROVE NextValue(b) = Stream[b] + 1
  <2>1. CASE b = NumPieces
    BY <1>1, <2>1 DEF NextValue, NumValues
  <2>2. CASE b # NumPieces
    <3>1. /\ b + 1 \in 1 .. NumPieces /\ Stream[b + 1] \in Nat
          /\ Stream[b] <= Stream[b + 1] /\ Stream[b + 1] <= NumValues
          /\ NumValues \in Nat
      BY <1>1, <2>2, StreamFacts
    <3>2. Stream[b] # Stream[b + 1]
      BY <1>1, <1>3, <2>2 DEF Chunked
    <3>3. ~(Stream[b] + 1 < Stream[b + 1])
      <4>1. SUFFICES ASSUME Stream[b] + 1 < Stream[b + 1] PROVE FALSE
        OBVIOUS
      <4>2. Stream[b] + 1 \in 1 .. NumValues
        BY <1>1, <3>1, <4>1
      <4>3. PICK q \in 1 .. NumPieces : Stream[q] = Stream[b] + 1
        BY <4>2, StreamFacts
      <4>4. q <= b => Stream[q] <= Stream[b]
        BY <1>1, StreamFacts
      <4>5. b + 1 <= q => Stream[b + 1] <= Stream[q]
        BY <3>1, StreamFacts
      <4>6. q <= b \/ b + 1 <= q
        BY <1>1
      <4> QED
        BY <1>1, <3>1, <4>1, <4>3, <4>4, <4>5, <4>6
    <3> QED
      BY <1>1, <2>2, <3>1, <3>2, <3>3 DEF NextValue
  <2> QED
    BY <2>1, <2>2
<1>4. ASSUME ~Chunked(a, b) PROVE FirstPiece(Stream[b] + 1) = b + 1
  <2>1. PICK v \in Nat : v = Stream[b] + 1
    BY <1>1
  <2>2. /\ FirstPiece(v) \in 1 .. (NumPieces + 1)
        /\ \A p \in 1 .. NumPieces : Stream[p] < v <=> p < FirstPiece(v)
    BY FirstPieceSplits
  <2>3. b < FirstPiece(v)
    BY <1>1, <2>1, <2>2
  <2>4. CASE b = NumPieces
    BY <1>1, <2>1, <2>2, <2>3, <2>4
  <2>5. CASE b # NumPieces
    <3>1. b + 1 \in 1 .. NumPieces /\ Stream[b + 1] = v
      BY <1>1, <1>3, <1>4, <2>1, <2>5 DEF NextValue
    <3>2. ~(b + 1 < FirstPiece(v))
      BY <2>2, <3>1
    <3> QED
      BY <1>1, <2>1, <2>2, <2>3, <3>2
  <2> QED
    BY <2>4, <2>5
<1> QED
  BY <1>2, <1>3, <1>4

\* What ReadFromStream() adds to the buffer, and what it keeps as a chunk.
Done(merged, chunked) ==
  IF chunked THEN SubSeq(merged, 1, Len(merged) - 1) ELSE merged
NewChunk(merged, chunked) == IF chunked THEN merged[Len(merged)] ELSE <<>>

\* A message adds the values that it completes, and keeps the part of the
\* next one that it has brought.
LEMMA MessageEffect ==
  ASSUME NEW p \in Nat, NEW b \in Nat, p < b, b <= NumPieces
  PROVE  LET values == Values(p + 1, b)
             merged == Merged(Pieces(FirstPiece(NextValue(p)), p), values)
             chunked == Chunked(p + 1, b)
             done == Done(merged, chunked)
         IN  /\ values # <<>>
             /\ done \in Seq(Seq(Int))
             /\ NextValue(b) - NextValue(p) \in Nat
             /\ Len(done) = NextValue(b) - NextValue(p)
             /\ \A i \in 1 .. Len(done) : done[i] = Value(NextValue(p) + i - 1)
             /\ NewChunk(merged, chunked)
                  = Pieces(FirstPiece(NextValue(b)), b)
<1> DEFINE w == Stream[p + 1]
           values == Values(p + 1, b)
           merged == Merged(Pieces(FirstPiece(w), p), values)
           chunked == Chunked(p + 1, b)
           done == Done(merged, chunked)
           m == Stream[b] - w
<1>1. NextValue(p) = w
  BY StreamFacts DEF NextValue
<1>2. /\ m \in Nat /\ w \in Nat \ {0} /\ Stream[b] \in Nat /\ values # <<>>
      /\ merged \in Seq(Seq(Int)) /\ Len(merged) = m + 1
      /\ \A k \in 1 .. m : merged[k] = Value(w + k - 1)
      /\ merged[m + 1] = Pieces(FirstPiece(Stream[b]), b)
  BY MergedValues
<1>3. /\ chunked => NextValue(b) = Stream[b]
      /\ ~chunked => /\ NextValue(b) = Stream[b] + 1
                     /\ FirstPiece(Stream[b] + 1) = b + 1
  BY MessageEnd
<1>4. m = Stream[b] - w
  OBVIOUS
<1> HIDE DEF merged, values, chunked, m, w
<1>5. CASE chunked
  <2>1. done = SubSeq(merged, 1, m)
    BY <1>2, <1>5 DEF Done
  <2>2. \A i \in 1 .. m : merged[i] \in Seq(Int)
    BY <1>2
  <2> HIDE DEF done
  <2>3. /\ done \in Seq(Seq(Int))
        /\ Len(done) = IF 1 <= m THEN m - 1 + 1 ELSE 0
        /\ \A i \in 1 .. m - 1 + 1 : done[i] = merged[1 + i - 1]
    BY <1>2, <2>1, <2>2, SubSeqProperties
  <2>4. Len(done) = m /\ \A i \in 1 .. m : done[i] = merged[i]
    BY <1>2, <2>3
  <2>5. NextValue(b) - w = m
    BY <1>2, <1>3, <1>4, <1>5
  <2>6. NewChunk(merged, chunked) = Pieces(FirstPiece(NextValue(b)), b)
    BY <1>2, <1>3, <1>5 DEF NewChunk
  <2> QED
    BY <1>1, <1>2, <2>3, <2>4, <2>5, <2>6 DEF done, merged, values, chunked
<1>6. CASE ~chunked
  <2>1. done = merged
    BY <1>6 DEF Done
  <2>2. NextValue(b) - w = m + 1
    BY <1>2, <1>3, <1>4, <1>6
  <2>3. \A i \in 1 .. (m + 1) : merged[i] = Value(w + i - 1)
    <3>1. merged[m + 1] = Value(Stream[b])
      <4>1. LastPiece(Stream[b]) = b
        BY <1>3, <1>6 DEF LastPiece
      <4> QED
        BY <1>2, <4>1 DEF Value
    <3>2. w + (m + 1) - 1 = Stream[b]
      BY <1>2, <1>4
    <3>3. ASSUME NEW i \in 1 .. (m + 1) PROVE merged[i] = Value(w + i - 1)
      <4>1. i = m + 1 \/ i \in 1 .. m
        BY <1>2
      <4> QED
        BY <1>2, <3>1, <3>2, <4>1
    <3> QED
      BY <3>3
  <2>4. NewChunk(merged, chunked) = Pieces(FirstPiece(NextValue(b)), b)
    <3>1. NewChunk(merged, chunked) = <<>>
      BY <1>6 DEF NewChunk
    <3>2. FirstPiece(NextValue(b)) = b + 1
      BY <1>3, <1>6
    <3>3. Pieces(b + 1, b) = <<>>
      BY PiecesFacts
    <3> QED
      BY <3>1, <3>2, <3>3
  <2> HIDE DEF done
  <2>5. /\ done \in Seq(Seq(Int)) /\ Len(done) = m + 1 /\ m + 1 \in Nat
        /\ \A i \in 1 .. (m + 1) : done[i] = Value(w + i - 1)
    BY <1>2, <2>1, <2>3
  <2> QED
    BY <1>1, <1>2, <2>2, <2>4, <2>5 DEF done, merged, values, chunked
<1> QED
  BY <1>5, <1>6

(***************************************************************************)
(* The invariant: what the rows, the buffer and the chunk hold together is *)
(* the part of the result before pos, and a stream that breaks is resumed  *)
(* there.                                                                  *)
(***************************************************************************)
Row(r) == [k \in 1 .. NumColumns |-> Value((r - 1) * NumColumns + k)]

StreamTypes ==
  /\ pos \in 0 .. NumPieces
  /\ buffer_ \in Seq(Seq(Int)) /\ rows \in Seq(Seq(Seq(Int)))

\* Nothing is missing and nothing is there twice.
NothingSkipped == Len(rows) * NumColumns + Len(buffer_) = NextValue(pos) - 1

RowsComplete == \A r \in 1 .. Len(rows) : rows[r] = Row(r)

BufferComplete ==
  \A i \in 1 .. Len(buffer_) : buffer_[i] = Value(Len(rows) * NumColumns + i)

ChunkIsNext == chunk_ = Pieces(FirstPiece(NextValue(pos)), pos)

StreamInv ==
  /\ StreamTypes /\ last_resume_token_ = pos
  /\ NothingSkipped /\ RowsComplete /\ BufferComplete /\ ChunkIsNext

LEMMA NextValueType ==
  ASSUME NEW p \in 0 .. NumPieces
  PROVE  NextValue(p) \in 1 .. (NumValues + 1)
<1>1. CASE p = NumPieces
  BY <1>1, StreamFacts DEF NextValue
<1>2. CASE p # NumPieces
  <2>1. p + 1 \in 1 .. NumPieces
    BY <1>2, StreamFacts
  <2> QED
    BY <1>2, <2>1, StreamFacts DEF NextValue
<1> QED
  BY <1>1, <1>2

\* The first piece belongs to the first value.
LEMMA StartsAtFirst == NextValue(0) = 1
<1>1. CASE NumPieces = 0
  BY <1>1 DEF NextValue, NumValues
<1>2. CASE NumPieces # 0
  <2>1. /\ 1 \in 1 .. NumPieces
        /\ Stream[1] \in Nat \ {0} /\ Stream[1] <= NumValues
    BY <1>2, StreamFacts
  <2>2. 1 \in 1 .. NumValues
    BY <2>1, StreamFacts
  <2>3. PICK q \in 1 .. NumPieces : Stream[q] = 1
    BY <2>2, StreamFacts
  <2>4. Stream[1] <= 1
    BY <2>1, <2>3, StreamFacts
  <2> QED
    BY <1>2, <2>1, <2>4 DEF NextValue
<1> QED
  BY <1>1, <1>2

LEMMA EmptyChunkAtStart == Pieces(FirstPiece(NextValue(0)), 0) = <<>>
  BY StartsAtFirst, PieceOrder, PiecesFacts

LEMMA StreamInit == Init => StreamInv
<1> SUFFICES ASSUME Init PROVE StreamInv
  OBVIOUS
<1>1. /\ pos = 0 /\ last_resume_token_ = 0 /\ buffer_ = <<>> /\ rows = <<>>
      /\ chunk_ = <<>>
  BY DEF Init
<1>2. StreamTypes
  BY <1>1, StreamFacts DEF StreamTypes
<1>3. Len(rows) = 0 /\ Len(buffer_) = 0
  BY <1>1
<1>4. NothingSkipped
  BY <1>1, <1>3, StartsAtFirst, StreamFacts DEF NothingSkipped
<1>5. RowsComplete /\ BufferComplete
  BY <1>3 DEF RowsComplete, BufferComplete
<1>6. ChunkIsNext
  BY <1>1, EmptyChunkAtStart DEF ChunkIsNext
<1> QED
  BY <1>1, <1>2, <1>4, <1>5, <1>6 DEF StreamInv

\* A step that leaves what the invariant is about.
LEMMA StreamUntouched ==
  ASSUME StreamInv,
         UNCHANGED <<pos, last_resume_token_, buffer_, chunk_, rows>>
  PROVE  StreamInv'
BY DEF StreamInv, StreamTypes, NothingSkipped, RowsComplete, BufferComplete,
       ChunkIsNext

\* A message with values.
LEMMA MessageKeeps ==
  ASSUME StreamInv, NEW n \in Nat \ {0}, pos + n <= NumPieces,
         pos' = pos + n, last_resume_token_' = pos + n,
         Receive(Values(pos + 1, pos + n), Chunked(pos + 1, pos + n))
  PROVE  StreamInv'
<1>1. PICK p \in Nat : p = pos
  BY StreamFacts DEF StreamInv, StreamTypes
<1>2. PICK b \in Nat : b = pos + n
  BY <1>1
<1>3. p < b /\ b <= NumPieces /\ b \in 0 .. NumPieces
  BY <1>1, <1>2, StreamFacts
<1> DEFINE values == Values(p + 1, b)
           chunk == Pieces(FirstPiece(NextValue(p)), p)
           merged == Merged(chunk, values)
           chunked == Chunked(p + 1, b)
           done == Done(merged, chunked)
<1>4. /\ values # <<>>
      /\ done \in Seq(Seq(Int))
      /\ Len(done) = NextValue(b) - NextValue(p)
      /\ \A i \in 1 .. Len(done) : done[i] = Value(NextValue(p) + i - 1)
      /\ NewChunk(merged, chunked) = Pieces(FirstPiece(NextValue(b)), b)
  BY <1>3, MessageEffect
<1>5. chunk_ = chunk /\ Receive(values, chunked)
  BY <1>1, <1>2 DEF StreamInv, ChunkIsNext
<1> HIDE DEF values, chunked, chunk
<1>6. /\ buffer_' = buffer_ \o done
      /\ chunk_' = NewChunk(merged, chunked)
      /\ rows' = rows
  BY <1>4, <1>5 DEF Receive, Merged, Done, NewChunk
<1> HIDE DEF merged, done
<1>7. NextValue(p) \in Nat /\ NextValue(b) \in Nat
  BY <1>1, <1>3, NextValueType, StreamFacts
<1>8. PICK base \in Int : base = Len(rows) * NumColumns
  BY StreamFacts DEF StreamInv, StreamTypes
<1>9. base + Len(buffer_) = NextValue(p) - 1
  BY <1>1, <1>8 DEF StreamInv, NothingSkipped
<1>10. \A i \in 1 .. Len(buffer_) : buffer_[i] = Value(base + i)
  BY <1>8 DEF StreamInv, BufferComplete
<1>11. /\ buffer_ \in Seq(Seq(Int)) /\ Len(buffer_) \in Nat
       /\ Len(done) \in Nat
  BY <1>4 DEF StreamInv, StreamTypes
<1>12. /\ buffer_' \in Seq(Seq(Int))
       /\ Len(buffer_') = Len(buffer_) + Len(done)
       /\ \A i \in 1 .. (Len(buffer_) + Len(done)) : buffer_'[i] =
            IF i <= Len(buffer_) THEN buffer_[i] ELSE done[i - Len(buffer_)]
  BY <1>4, <1>6, <1>11, ConcatProperties
<1>13. StreamTypes'
  BY <1>2, <1>3, <1>6, <1>12 DEF StreamInv, StreamTypes
<1>14. NothingSkipped'
  <2>1. Len(buffer_') = Len(buffer_) + Len(done)
    BY <1>12
  <2>2. PICK x \in Nat, y \in Nat : x = NextValue(p) /\ y = NextValue(b)
    BY <1>7
  <2>3. PICK l \in Nat, d \in Nat : l = Len(buffer_) /\ d = Len(done)
    BY <1>11
  <2>4. d = y - x /\ base + l = x - 1
    BY <1>4, <1>9, <2>2, <2>3
  <2>5. base + (l + d) = y - 1
    BY <2>4
  <2> QED
    BY <1>2, <1>6, <1>8, <2>1, <2>2, <2>3, <2>5 DEF NothingSkipped
<1>15. RowsComplete'
  BY <1>6 DEF StreamInv, RowsComplete
<1>16. BufferComplete'
  <2>1. ASSUME NEW i \in 1 .. Len(buffer_') PROVE buffer_'[i] = Value(base + i)
    <3>1. CASE i <= Len(buffer_)
      <4>1. i \in 1 .. Len(buffer_)
        BY <1>11, <1>12, <3>1
      <4> QED
        BY <1>10, <1>12, <3>1, <4>1
    <3>2. CASE ~(i <= Len(buffer_))
      <4>1. i - Len(buffer_) \in 1 .. Len(done)
        BY <1>11, <1>12, <3>2
      <4>2. buffer_'[i] = Value(NextValue(p) + (i - Len(buffer_)) - 1)
        BY <1>4, <1>12, <3>2, <4>1
      <4>3. NextValue(p) + (i - Len(buffer_)) - 1 = base + i
        <5>1. PICK x \in Nat, l \in Nat : x = NextValue(p) /\ l = Len(buffer_)
          BY <1>7, <1>11
        <5>2. PICK j \in Int : j = i
          BY <1>11, <1>12
        <5>3. base + l = x - 1
          BY <1>9, <5>1
        <5>4. x + (j - l) - 1 = base + j
          BY <5>3
        <5> QED
          BY <5>1, <5>2, <5>4
      <4> QED
        BY <4>2, <4>3
    <3> QED
      BY <3>1, <3>2
  <2> QED
    BY <1>6, <1>8, <2>1 DEF BufferComplete
<1>17. ChunkIsNext'
  BY <1>2, <1>4, <1>6 DEF ChunkIsNext
<1> QED
  BY <1>13, <1>14, <1>15, <1>16, <1>17 DEF StreamInv

\* A message without values is the first one, and nothing has come before it.
LEMMA EmptyMessageKeeps ==
  ASSUME StreamInv, pos = 0, pos' = 0, last_resume_token_' = 0,
         Receive(Values(pos + 1, pos + 0), Chunked(pos + 1, pos + 0))
  PROVE  StreamInv'
<1>1. chunk_ = <<>>
  BY EmptyChunkAtStart DEF StreamInv, ChunkIsNext
<1>2. Values(1, 0) = <<>> /\ ~Chunked(1, 0)
  BY DEF Values, Chunked
<1>3. pos + 1 = 1 /\ pos + 0 = 0
  OBVIOUS
<1>4. PICK values, chunked : /\ values = <<>> /\ chunked = FALSE
                             /\ Receive(values, chunked)
  <2>1. /\ Values(pos + 1, pos + 0) = <<>>
        /\ Chunked(pos + 1, pos + 0) = FALSE
    <3>1. Chunked(1, 0) = FALSE
      BY DEF Chunked
    <3> QED
      BY <1>2, <1>3, <3>1
  <2> QED
    BY <2>1
<1>5. buffer_' = buffer_ \o <<>> /\ chunk_' = <<>> /\ rows' = rows
  BY <1>1, <1>4 DEF Receive
<1>6. buffer_' = buffer_
  BY <1>5, ConcatEmptySeq DEF StreamInv, StreamTypes
<1> QED
  BY <1>1, <1>5, <1>6, StreamUntouched DEF StreamInv

LEMMA RowArithmetic ==
  /\ \A l \in Nat : /\ l * NumColumns \in Nat
                    /\ (l + 1) * NumColumns = l * NumColumns + NumColumns
  /\ NumRows \in Nat /\ NumRows * NumColumns = NumValues
  /\ \A l \in Nat : l * NumColumns <= NumValues => l <= NumRows
  /\ \A l \in Nat : l * NumColumns = NumValues => l = NumRows
<1>1. PICK c \in Nat \ {0} : c = NumColumns
  BY StreamFacts
<1>2. PICK v \in Nat : v = NumValues
  BY StreamFacts
<1>3. v % c = 0
  BY <1>1, <1>2, StreamAssumption
<1>4. PICK q : q = v \div c
  OBVIOUS
<1>5. q \in Nat /\ q * c = v
  <2>1. q \in Int /\ v = q * c + (v % c)
    BY <1>4
  <2>2. v = q * c
    BY <1>3, <2>1
  <2>3. q >= 0
    <3>1. SUFFICES ASSUME q <= 0 - 1 PROVE FALSE
      BY <2>1
    <3>2. q * c <= (0 - 1) * c
      BY <2>1, <3>1
    <3> QED
      BY <2>2, <3>2
  <2> QED
    BY <2>1, <2>2, <2>3
<1>6. \A l \in Nat : l * c \in Nat /\ (l + 1) * c = l * c + c
  OBVIOUS
<1>7. \A l, k \in Nat : k < l => k * c < l * c
  <2>1. ASSUME NEW l \in Nat, NEW k \in Nat, k < l PROVE k * c < l * c
    <3>1. PICK d \in Nat : l = k + 1 + d
      <4>1. l - k - 1 \in Nat
        BY <2>1
      <4>2. l = k + 1 + (l - k - 1)
        OBVIOUS
      <4> QED
        BY <4>1, <4>2
    <3>2. l * c = k * c + c + d * c
      BY <3>1
    <3>3. d * c \in Nat /\ k * c \in Nat
      BY <1>6
    <3> QED
      BY <3>2, <3>3
  <2> QED
    BY <2>1
<1>8. \A l \in Nat : l * c <= v => l <= q
  <2>1. ASSUME NEW l \in Nat, l * c <= v, ~(l <= q) PROVE FALSE
    <3>1. q < l
      BY <1>5, <2>1
    <3>2. q * c < l * c
      BY <1>5, <1>7, <3>1
    <3>3. l * c \in Nat
      BY <1>6
    <3> QED
      BY <1>5, <2>1, <3>2, <3>3
  <2> QED
    BY <2>1
<1>9. \A l \in Nat : l * c = v => l = q
  <2>1. ASSUME NEW l \in Nat, l * c = v PROVE l = q
    <3>1. l <= q
      BY <1>8, <2>1
    <3>2. l < q => l * c < q * c
      BY <1>5, <1>7
    <3> QED
      BY <1>5, <2>1, <3>1, <3>2
  <2> QED
    BY <2>1
<1>10. NumRows = q
  BY <1>1, <1>2, <1>4 DEF NumRows
<1> QED
  BY <1>1, <1>2, <1>5, <1>6, <1>8, <1>9, <1>10

\* NextRow() takes the values of one row.
LEMMA ReturnRowKeeps == StreamInv /\ ReturnRow => StreamInv'
<1> SUFFICES ASSUME StreamInv, ReturnRow PROVE StreamInv'
  OBVIOUS
<1>1. PICK l \in Nat : l = Len(rows)
  BY DEF StreamInv, StreamTypes
<1>2. PICK m \in Nat : m = Len(buffer_)
  BY DEF StreamInv, StreamTypes
<1>3. PICK c \in Nat \ {0} : c = NumColumns
  BY StreamFacts
<1>4. PICK base \in Nat : base = l * c /\ (l + 1) * c = base + c
  BY <1>3, RowArithmetic
<1>5. c <= m
  BY <1>2, <1>3 DEF ReturnRow
<1>6. /\ rows' = Append(rows, SubSeq(buffer_, 1, c))
      /\ buffer_' = SubSeq(buffer_, c + 1, m)
      /\ UNCHANGED <<pos, last_resume_token_, chunk_>>
  BY <1>2, <1>3 DEF ReturnRow, resumeVars
<1>7. /\ buffer_ \in Seq(Seq(Int))
      /\ \A i \in 1 .. m : buffer_[i] \in Seq(Int)
      /\ \A i \in 1 .. m : buffer_[i] = Value(base + i)
  BY <1>1, <1>2, <1>3, <1>4 DEF StreamInv, StreamTypes, BufferComplete
<1>8. PICK row : row = SubSeq(buffer_, 1, c)
  OBVIOUS
<1>9. /\ row \in Seq(Seq(Int)) /\ Len(row) = c
      /\ \A i \in 1 .. c : row[i] = Value(base + i)
  <2>1. \A i \in 1 .. c : i \in 1 .. m
    BY <1>5
  <2>2. /\ row \in Seq(Seq(Int))
        /\ Len(row) = IF 1 <= c THEN c - 1 + 1 ELSE 0
        /\ \A i \in 1 .. c - 1 + 1 : row[i] = buffer_[1 + i - 1]
    BY <1>7, <1>8, <2>1, SubSeqProperties
  <2>3. Len(row) = c
    BY <2>2
  <2>4. ASSUME NEW i \in 1 .. c PROVE row[i] = Value(base + i)
    <3>1. i \in 1 .. c - 1 + 1 /\ 1 + i - 1 = i
      OBVIOUS
    <3> QED
      BY <1>7, <2>1, <2>2, <3>1
  <2> QED
    BY <2>2, <2>3, <2>4
<1>10. row = Row(l + 1)
  <2>1. l + 1 - 1 = l
    OBVIOUS
  <2>2. Row(l + 1) = [i \in 1 .. c |-> Value(base + i)]
    BY <1>3, <1>4, <2>1 DEF Row
  <2>3. row = [i \in 1 .. c |-> row[i]]
    BY <1>9
  <2> QED
    BY <1>9, <2>2, <2>3
<1>11. /\ buffer_' \in Seq(Seq(Int)) /\ Len(buffer_') = m - c
       /\ \A i \in 1 .. (m - c) : buffer_'[i] = Value(base + c + i)
  <2>1. \A i \in (c + 1) .. m : buffer_[i] \in Seq(Int)
    BY <1>7
  <2>2. /\ buffer_' \in Seq(Seq(Int))
        /\ Len(buffer_') = IF c + 1 <= m THEN m - (c + 1) + 1 ELSE 0
        /\ \A i \in 1 .. m - (c + 1) + 1 : buffer_'[i] = buffer_[c + 1 + i - 1]
    BY <1>6, <2>1, SubSeqProperties
  <2>3. Len(buffer_') = m - c
    BY <1>5, <2>2
  <2>4. ASSUME NEW i \in 1 .. (m - c) PROVE buffer_'[i] = Value(base + c + i)
    <3>1. c + 1 + i - 1 \in 1 .. m /\ i \in 1 .. m - (c + 1) + 1
      BY <1>5
    <3>2. base + (c + 1 + i - 1) = base + c + i
      OBVIOUS
    <3>3. buffer_'[i] = Value(base + (c + 1 + i - 1))
      BY <1>7, <2>2, <3>1
    <3> QED
      BY <3>2, <3>3
  <2> QED
    BY <2>2, <2>3, <2>4
<1>12. /\ rows \in Seq(Seq(Seq(Int)))
       /\ \A r \in 1 .. l : rows[r] = Row(r)
  BY <1>1 DEF StreamInv, StreamTypes, RowsComplete
<1>13. /\ rows' \in Seq(Seq(Seq(Int))) /\ Len(rows') = l + 1
       /\ \A r \in 1 .. l : rows'[r] = rows[r]
       /\ rows'[l + 1] = row
  BY <1>1, <1>6, <1>8, <1>9, <1>12, AppendProperties
<1>14. StreamTypes'
  BY <1>6, <1>11, <1>13 DEF StreamInv, StreamTypes
<1>15. NothingSkipped'
  <2>1. base + m = NextValue(pos) - 1
    BY <1>1, <1>2, <1>3, <1>4 DEF StreamInv, NothingSkipped
  <2>2. Len(rows') * NumColumns = base + c
    BY <1>3, <1>4, <1>13
  <2>3. base + c + (m - c) = base + m
    OBVIOUS
  <2> QED
    BY <1>6, <1>11, <2>1, <2>2, <2>3 DEF NothingSkipped, NextValue
<1>16. RowsComplete'
  <2>1. ASSUME NEW r \in 1 .. (l + 1) PROVE rows'[r] = Row(r)
    <3>1. r = l + 1 \/ r \in 1 .. l
      OBVIOUS
    <3> QED
      BY <1>10, <1>12, <1>13, <3>1
  <2> QED
    BY <1>13, <2>1 DEF RowsComplete
<1>17. BufferComplete'
  <2>1. Len(rows') * NumColumns = base + c
    BY <1>3, <1>4, <1>13
  <2> QED
    BY <1>11, <2>1 DEF BufferComplete
<1>18. ChunkIsNext'
  BY <1>6 DEF StreamInv, ChunkIsNext, NextValue
<1> QED
  BY <1>6, <1>14, <1>15, <1>16, <1>17, <1>18 DEF StreamInv

\* A broken stream is resumed where it was: the last message had a token.
LEMMA ResumeKeeps == StreamInv /\ Resume => StreamInv'
<1> SUFFICES ASSUME StreamInv, Resume PROVE StreamInv'
  OBVIOUS
<1>1. pos' = pos /\ last_resume_token_' = last_resume_token_
  BY DEF StreamInv, Resume
<1>2. UNCHANGED <<buffer_, chunk_, rows>>
  BY DEF Resume, EndOfStream, sourceVars
<1> QED
  BY <1>1, <1>2, StreamUntouched

LEMMA StreamStep ==
  ASSUME TokenOnEveryMessage, StreamInv, [Next]_vars
  PROVE  StreamInv'
<1>1. ASSUME NEW n \in 0 .. NumPieces, NEW has_token \in BOOLEAN,
             ReadMessage(n, has_token)
      PROVE  StreamInv'
  <2>1. has_token /\ pos' = pos + n /\ last_resume_token_' = pos + n
    BY <1>1 DEF ReadMessage, ResumeToken
  <2>2. /\ pos + n <= NumPieces /\ (n = 0 => pos = 0)
        /\ Receive(Values(pos + 1, pos + n), Chunked(pos + 1, pos + n))
    BY <1>1 DEF ReadMessage
  <2>3. CASE n = 0
    <3>1. pos = 0 /\ pos' = 0 /\ last_resume_token_' = 0
      BY <2>1, <2>2, <2>3
    <3> QED
      BY <2>2, <2>3, <3>1, EmptyMessageKeeps
  <2>4. CASE n # 0
    <3>1. n \in Nat \ {0}
      BY <2>4, StreamFacts
    <3> QED
      BY <2>1, <2>2, <3>1, MessageKeeps
  <2> QED
    BY <2>3, <2>4
<1>2. ASSUME NEW status \in Statuses, ReadEnds(status) PROVE StreamInv'
  <2>1. UNCHANGED <<pos, last_resume_token_, buffer_, chunk_, rows>>
    BY <1>2 DEF ReadEnds, EndOfStream, sourceVars
  <2> QED
    BY <2>1, StreamUntouched
<1>3. CASE Resume
  BY <1>3, ResumeKeeps
<1>4. CASE ReturnRow
  BY <1>4, ReturnRowKeeps
<1>5. CASE Expire \/ NextRow \/ Destroy \/ UNCHANGED vars
  <2>1. UNCHANGED <<pos, last_resume_token_, buffer_, chunk_, rows>>
    BY <1>5 DEF Expire, NextRow, Destroy, vars, resumeVars, sourceVars
  <2> QED
    BY <2>1, StreamUntouched
<1> QED
  BY <1>1, <1>2, <1>3, <1>4, <1>5 DEF Next

(***************************************************************************)
(* The rows of the result.                                                 *)
(***************************************************************************)
LEMMA ResultValues ==
  ASSUME NEW v \in 1 .. NumValues
  PROVE  Values(1, NumPieces)[v] = Value(v) /\ Value(v) \in Seq(Int)
<1>1. NumPieces \in Nat /\ NumPieces > 0 /\ NumValues \in Nat
  BY StreamFacts DEF NumValues
<1>2. Pieces(FirstPiece(NextValue(0)), 0) = <<>> /\ NextValue(0) = 1
  BY EmptyChunkAtStart, StartsAtFirst
<1> DEFINE values == Values(0 + 1, NumPieces)
           merged == Merged(Pieces(FirstPiece(NextValue(0)), 0), values)
           chunked == Chunked(0 + 1, NumPieces)
           done == Done(merged, chunked)
<1>3. /\ Len(done) = NextValue(NumPieces) - NextValue(0)
      /\ \A i \in 1 .. Len(done) : done[i] = Value(NextValue(0) + i - 1)
  BY <1>1, MessageEffect
<1>4. ~chunked
  BY <1>1 DEF Chunked
<1>5. done = values
  BY <1>2, <1>4 DEF Done, Merged
<1>6. NextValue(NumPieces) = NumValues + 1
  BY DEF NextValue
<1> HIDE DEF done
<1>7. Len(done) = NumValues
  BY <1>1, <1>2, <1>3, <1>6
<1>8. done[v] = Value(v)
  <2>1. 1 + v - 1 = v
    BY <1>1
  <2> QED
    BY <1>2, <1>3, <1>7, <2>1
<1>9. Value(v) \in Seq(Int)
  <2>1. v \in Nat
    BY <1>1
  <2>2. FirstPiece(v) \in Int /\ LastPiece(v) \in Int
    BY <2>1, FirstPieceType
  <2> QED
    BY <2>2, PiecesFacts DEF Value
<1> QED
  BY <1>5, <1>8, <1>9

LEMMA ResultRowsAre ==
  ASSUME NEW r \in 1 .. NumRows
  PROVE  ResultRows[r] = Row(r) /\ Row(r) \in Seq(Seq(Int))
<1>1. /\ r - 1 \in Nat /\ NumRows \in Nat /\ NumRows * NumColumns = NumValues
      /\ NumColumns \in Nat \ {0} /\ NumValues \in Nat
  BY RowArithmetic, StreamFacts
<1>2. ASSUME NEW k \in 1 .. NumColumns
      PROVE  (r - 1) * NumColumns + k \in 1 .. NumValues
  <2>1. PICK d \in Nat : d = NumRows - r
    BY <1>1
  <2>2. PICK c \in Nat \ {0} : c = NumColumns
    BY <1>1
  <2>3. PICK q \in Nat : q = r - 1
    BY <1>1
  <2>4. NumRows = q + 1 + d
    BY <1>1, <2>1, <2>3
  <2>5. NumValues = q * c + c + d * c
    BY <1>1, <2>2, <2>4
  <2>6. q * c \in Nat /\ d * c \in Nat
    BY <2>2, RowArithmetic
  <2>7. k \in Int /\ 1 <= k /\ k <= c
    BY <2>2
  <2>8. q * c + k \in 1 .. NumValues
    BY <2>5, <2>6, <2>7
  <2> QED
    BY <2>2, <2>3, <2>8
<1>3. Row(r) = [k \in 1 .. NumColumns |->
                  Values(1, NumPieces)[(r - 1) * NumColumns + k]]
  <2>1. ASSUME NEW k \in 1 .. NumColumns
        PROVE  Value((r - 1) * NumColumns + k)
                 = Values(1, NumPieces)[(r - 1) * NumColumns + k]
    BY <1>2, ResultValues
  <2> QED
    BY <2>1 DEF Row
<1>4. ResultRows[r] = Row(r)
  BY <1>3 DEF ResultRows
<1>5. Row(r) \in Seq(Seq(Int))
  <2>1. \A k \in 1 .. NumColumns :
          Value((r - 1) * NumColumns + k) \in Seq(Int)
    BY <1>2, ResultValues
  <2> QED
    BY <1>1, <2>1 DEF Row
<1> QED
  BY <1>4, <1>5

LEMMA RowsAreInOrder == StreamInv => RowsInOrder
<1> SUFFICES ASSUME StreamInv PROVE RowsInOrder
  OBVIOUS
<1>1. PICK l \in Nat : l = Len(rows)
  BY DEF StreamInv, StreamTypes
<1>2. l <= NumRows /\ NumRows \in Nat
  <2>1. l * NumColumns + Len(buffer_) = NextValue(pos) - 1
    BY <1>1 DEF StreamInv, NothingSkipped
  <2>2. NextValue(pos) \in 1 .. (NumValues + 1)
    BY NextValueType DEF StreamInv, StreamTypes
  <2>3. Len(buffer_) \in Nat
    BY DEF StreamInv, StreamTypes
  <2>4. l * NumColumns \in Nat /\ NumValues \in Nat
    BY RowArithmetic, StreamFacts
  <2>5. l * NumColumns <= NumValues
    BY <2>1, <2>2, <2>3, <2>4
  <2> QED
    BY <2>5, RowArithmetic
<1>3. \A r \in 1 .. l : /\ ResultRows[r] = rows[r]
                        /\ ResultRows[r] \in Seq(Seq(Int))
  <2>1. \A r \in 1 .. l : r \in 1 .. NumRows
    BY <1>2
  <2>2. \A r \in 1 .. l : rows[r] = Row(r)
    BY <1>1 DEF StreamInv, RowsComplete
  <2> QED
    BY <2>1, <2>2, ResultRowsAre
<1>4. PICK prefix : prefix = SubSeq(ResultRows, 1, l)
  OBVIOUS
<1>5. /\ prefix \in Seq(Seq(Seq(Int)))
      /\ Len(prefix) = IF 1 <= l THEN l - 1 + 1 ELSE 0
      /\ \A i \in 1 .. l - 1 + 1 : prefix[i] = ResultRows[1 + i - 1]
  BY <1>3, <1>4, SubSeqProperties
<1>6. Len(prefix) = l
  BY <1>5
<1>7. ASSUME NEW i \in 1 .. l PROVE rows[i] = prefix[i]
  <2>1. i \in 1 .. l - 1 + 1 /\ 1 + i - 1 = i
    OBVIOUS
  <2> QED
    BY <1>3, <1>5, <2>1
<1>8. rows \in Seq(Seq(Seq(Int)))
  BY DEF StreamInv, StreamTypes
<1>9. rows = prefix
  BY <1>1, <1>5, <1>6, <1>7, <1>8, SeqEqual
<1> QED
  BY <1>1, <1>2, <1>4, <1>9 DEF RowsInOrder

\* When all pieces have come and none is left over, all rows were returned.
LEMMA AllRowsReturned ==
  ASSUME StreamInv, pos = NumPieces, buffer_ = <<>>
  PROVE  rows = ResultRows
<1>1. PICK l \in Nat : l = Len(rows)
  BY DEF StreamInv, StreamTypes
<1>2. l = NumRows
  <2>1. l * NumColumns + Len(buffer_) = NextValue(NumPieces) - 1
    BY <1>1 DEF StreamInv, NothingSkipped
  <2>2. Len(buffer_) = 0 /\ NextValue(NumPieces) = NumValues + 1
    BY DEF NextValue
  <2>3. l * NumColumns \in Nat /\ NumValues \in Nat
    BY RowArithmetic, StreamFacts
  <2>4. l * NumColumns = NumValues
    BY <2>1, <2>2, <2>3
  <2> QED
    BY <2>4, RowArithmetic
<1>3. rows = SubSeq(ResultRows, 1, NumRows)
  BY <1>1, <1>2, RowsAreInOrder DEF RowsInOrder
<1>4. ResultRows \in Seq(Seq(Seq(Int))) /\ Len(ResultRows) = NumRows
  <2>1. \A r \in 1 .. NumRows : ResultRows[r] \in Seq(Seq(Int))
    BY ResultRowsAre
  <2>2. PICK n \in Nat : n = NumRows
    BY RowArithmetic
  <2>3. ResultRows = [r \in 1 .. n |-> ResultRows[r]]
    BY <2>2 DEF ResultRows
  <2> HIDE DEF ResultRows
  <2> QED
    BY <2>1, <2>2, <2>3
<1> QED
  BY <1>3, <1>4, SubSeqFull

\* NextRow() announces the end when the stream has ended well and nothing is
\* left over.
LEMMA EndStep ==
  ASSUME StreamInv, [Next]_vars,
         pc = "next", pc' = "idle", result' = "end"
  PROVE  rows = ResultRows
<1>1. ASSUME NEW status \in Statuses, EndOfStream(status),
             status = "ok" => pos = NumPieces
      PROVE  rows = ResultRows
  <2>1. ~IsError(status) /\ buffer_ = <<>>
    BY <1>1 DEF EndOfStream, Return
  <2> QED
    BY <1>1, <2>1, AllRowsReturned DEF IsError
<1>2. ASSUME NEW n \in 0 .. NumPieces, NEW has_token \in BOOLEAN,
             ReadMessage(n, has_token)
      PROVE  FALSE
  BY <1>2 DEF ReadMessage, Receive, Return
<1>3. ASSUME NEW status \in Statuses, ReadEnds(status)
      PROVE  rows = ResultRows
  <2>1. EndOfStream(status) \/ UNCHANGED pc
    BY <1>3 DEF ReadEnds
  <2>2. status = "ok" => pos = NumPieces
    BY <1>3 DEF ReadEnds
  <2> QED
    BY <1>1, <2>1, <2>2
<1>4. CASE Resume
  <2>1. pos' = pos
    BY <1>4 DEF Resume, StreamInv
  <2>2. \/ UNCHANGED pc \/ pc' = "stuck"
        \/ \E status \in Statuses :
             (status = "ok" => pos' = NumPieces) /\ EndOfStream(status)
    BY <1>4 DEF Resume
  <2> QED
    BY <1>1, <2>1, <2>2
<1>5. CASE ReturnRow
  BY <1>5 DEF ReturnRow, Return
<1>6. CASE Expire \/ NextRow \/ Destroy \/ UNCHANGED vars
  BY <1>6 DEF Expire, NextRow, Destroy, vars
<1> QED
  BY <1>2, <1>3, <1>4, <1>5, <1>6 DEF Next

(***************************************************************************)
(* The theorems.  The token on every message is needed: without it the     *)
(* code resumes from the start and returns rows twice, as a run shows.     *)
(***************************************************************************)
\* What has been received of the result is in the rows returned, the buffer
\* and the chunk, in order and once, and the resume token is right behind it.
THEOREM StreamInvariance ==
  ASSUME TokenOnEveryMessage
  PROVE  Spec => []StreamInv
<1>1. Init => StreamInv
  BY StreamInit
<1>2. StreamInv /\ [Next]_vars => StreamInv'
  BY StreamStep
<1> QED
  BY <1>1, <1>2, PTL DEF Spec

\* NextRow() returns the rows of the result, in order and each one once,
\* whatever messages the result is cut into and wherever the stream breaks.
THEOREM RowsInOrderCorrect ==
  ASSUME TokenOnEveryMessage
  PROVE  Spec => []RowsInOrder
<1>1. Spec => []StreamInv
  BY StreamInvariance
<1>2. StreamInv => RowsInOrder
  BY RowsAreInOrder
<1> QED
  BY <1>1, <1>2, PTL

\* NextRow() announces the end only after all the rows of the result.
THEOREM EndIsHonestCorrect ==
  ASSUME TokenOnEveryMessage
  PROVE  Spec => EndIsHonest
<1> DEFINE Honest == pc = "next" /\ pc' = "idle" /\ result' = "end" =>
                       rows = ResultRows
<1>1. Spec => []StreamInv
  BY StreamInvariance
<1>2. StreamInv /\ [Next]_vars => [Honest]_vars
  BY EndStep
<1> QED
  BY <1>1, <1>2, PTL DEF Spec, EndIsHonest

(***************************************************************************)
(* A loop over the rows.                                                   *)
(***************************************************************************)
\* What the source is doing, and what it has said.
SourceControl ==
  /\ pc \in {"create", "next", "idle", "over", "stuck"}
  /\ result \in {"none", "row", "end", "error"}
  /\ pc = "create" =>
       metadata_ = FALSE /\ finished_ = FALSE /\ rows = <<>> /\ result = "none"
  /\ pc = "next" => finished_ = FALSE
  /\ backoff => pc \in Calls
  /\ pc = "idle" /\ result \in {"none", "row"} => finished_ = FALSE

Fits(i) == range = "tuples" => ResultRows[i] \notin Misfits

\* Why element i is an error.
Reason(i) ==
  \/ result = "error"
  \/ range = "tuples" /\ i <= NumRows /\ ResultRows[i] \in Misfits

SawError == Len(seen) > 0 /\ seen[Len(seen)] = Error

LoopTypes ==
  /\ range \in {"rows", "tuples"} /\ use \in {"loop", "single"}
  /\ source_ \in BOOLEAN
  /\ at \in {"create", "ask", "asked", "look", "increment", "done", "left"}
  /\ seen \in Seq({ResultRows[i] : i \in 1 .. NumRows} \cup {Error})

SeenInOrder ==
  \A i \in 1 .. Len(seen) :
    \/ seen[i] = Error /\ i = Len(seen) /\ Reason(i)
    \/ i <= NumRows /\ seen[i] = ResultRows[i] /\ Fits(i)

\* The source has an element that has not been seen, or the last one was seen.
InvAtLook ==
  /\ pc \in {"idle", "over"}
  /\ source_ =>
       /\ ~SawError
       /\ \/ row_ = Error /\ result = "error"
          \/ /\ Len(seen) + 1 <= NumRows /\ row_ = ResultRows[Len(seen) + 1]
             /\ Len(rows) = Len(seen) + 1 /\ pc = "idle" /\ result = "row"
       /\ range = "tuples" => tup_ = IF row_ \in Misfits THEN Error ELSE row_
  /\ ~source_ => \/ SawError
                 \/ Len(seen) = NumRows /\ result = "end"

InvAtIncrement ==
  /\ pc \in {"idle", "over"}
  /\ Len(seen) > 0 /\ seen[Len(seen)] = Element
  /\ range = "tuples" /\ row_ = Error => tup_ = Error
  /\ Element # Error => pc = "idle" /\ result = "row" /\ Len(rows) = Len(seen)

InvAtAsk ==
  /\ ~SawError /\ Len(seen) = Len(rows)
  /\ pc \in {"idle", "over"}
  /\ pc = "idle" => result \in {"none", "row"}
  /\ pc = "over" => result = "error"

InvAtAsked ==
  /\ ~SawError
  /\ \/ pc \in {"next", "stuck"} /\ Len(seen) = Len(rows)
     \/ /\ pc = "idle"
        /\ \/ result = "row" /\ Len(rows) = Len(seen) + 1
           \/ result = "end" /\ Len(seen) = NumRows
           \/ result = "error"

InvAtCreate ==
  /\ seen = <<>> /\ rows = <<>>
  /\ \/ pc \in {"create", "stuck"}
     \/ pc = "idle" /\ result = "none"
     \/ pc = "over" /\ result = "error"

InvAtEnd ==
  /\ pc \in {"idle", "over"}
  /\ at = "done" /\ use = "loop" => SawError \/ Len(seen) = NumRows
  /\ SingularIsOnly

LoopControl ==
  /\ at # "done" => single = Error
  /\ use = "single" => Len(seen) <= 1
  /\ at = "create" => InvAtCreate
  /\ at = "ask" => InvAtAsk
  /\ at = "asked" => InvAtAsked
  /\ at = "look" => InvAtLook
  /\ at = "increment" => InvAtIncrement
  /\ at \in {"done", "left"} => InvAtEnd

LoopInv == StreamInv /\ SourceControl /\ LoopTypes /\ SeenInOrder /\ LoopControl

\* What a step of the source means for the one that waits for it.
SourceMove ==
  \/ UNCHANGED <<pc, result, rows>>
  \/ /\ pc = "create" /\ UNCHANGED rows
     /\ \/ pc' = "idle" /\ result' = "none"
        \/ pc' = "over" /\ result' = "error"
        \/ pc' = "stuck"
  \/ /\ pc = "next"
     /\ \/ pc' = "idle" /\ result' = "row" /\ Len(rows') = Len(rows) + 1
        \/ pc' = "idle" /\ result' = "end" /\ UNCHANGED rows /\ rows = ResultRows
        \/ pc' = "idle" /\ result' = "error"
        \/ pc' = "stuck" /\ UNCHANGED rows

SourceWorks ==
  \/ \E n \in 0 .. NumPieces, has_token \in BOOLEAN : ReadMessage(n, has_token)
  \/ \E status \in Statuses : ReadEnds(status)
  \/ Resume \/ Expire \/ ReturnRow

\* A call that ends with the stream.
LEMMA EndMoves ==
  ASSUME SourceControl, pc \in Calls, ~backoff',
         NEW status, EndOfStream(status)
  PROVE  /\ SourceControl' /\ UNCHANGED rows
         /\ pc = "create" => pc' = "over" /\ result' = "error"
         /\ pc = "next" => pc' = "idle" /\ result' \in {"end", "error"}
<1>1. UNCHANGED rows /\ finished_' = TRUE
  BY DEF EndOfStream
<1>2. CASE pc = "create"
  <2>1. metadata_ = FALSE
    BY <1>2 DEF SourceControl
  <2>2. result' = "error" /\ pc' = "over"
    BY <1>2, <2>1 DEF EndOfStream, Return
  <2> QED
    BY <1>1, <1>2, <2>2 DEF SourceControl
<1>3. CASE pc = "next"
  <2>1. result' \in {"end", "error"} /\ pc' = "idle"
    BY <1>3 DEF EndOfStream, Return
  <2> QED
    BY <1>1, <1>3, <2>1 DEF SourceControl
<1> QED
  BY <1>2, <1>3 DEF Calls

LEMMA SourceMoves ==
  ASSUME StreamInv, SourceControl, SourceWorks
  PROVE  SourceControl' /\ SourceMove
<1>0. Next
  BY DEF SourceWorks, Next
<1>1. ASSUME NEW n \in 0 .. NumPieces, NEW has_token \in BOOLEAN,
             ReadMessage(n, has_token)
      PROVE  SourceControl' /\ SourceMove
  <2>1. pc \in Calls /\ ~backoff' /\ UNCHANGED <<finished_, rows>>
    BY <1>1 DEF ReadMessage, WantsMessage, Receive, Calls
  <2>2. \/ Return("error")
        \/ pc = "create" /\ Return("none")
        \/ pc # "create" /\ UNCHANGED <<pc, result>>
    BY <1>1 DEF ReadMessage, Receive
  <2>3. CASE pc = "create"
    <3>1. \/ pc' = "over" /\ result' = "error"
          \/ pc' = "idle" /\ result' = "none"
      BY <2>2, <2>3 DEF Return
    <3> QED
      BY <2>1, <2>3, <3>1 DEF SourceControl, SourceMove
  <2>4. CASE pc = "next"
    <3>1. \/ pc' = "idle" /\ result' = "error"
          \/ UNCHANGED <<pc, result>>
      BY <2>2, <2>4 DEF Return
    <3> QED
      BY <2>1, <2>4, <3>1 DEF SourceControl, SourceMove
  <2> QED
    BY <2>1, <2>3, <2>4 DEF Calls
<1>2. ASSUME NEW status \in Statuses, pc \in Calls, ~backoff', EndOfStream(status)
      PROVE  SourceControl' /\ SourceMove
  <2>1. /\ SourceControl' /\ UNCHANGED rows
        /\ pc = "create" => pc' = "over" /\ result' = "error"
        /\ pc = "next" => pc' = "idle" /\ result' \in {"end", "error"}
    BY <1>2, EndMoves
  <2>2. pc = "next" /\ result' = "end" => rows = ResultRows
    BY <1>0, <2>1, EndStep
  <2> QED
    BY <1>2, <2>1, <2>2 DEF SourceMove, Calls
<1>3. ASSUME NEW status \in Statuses, ReadEnds(status)
      PROVE  SourceControl' /\ SourceMove
  <2>1. pc \in Calls /\ ~backoff
    BY <1>3 DEF ReadEnds, WantsMessage, Calls
  <2>2. CASE EndOfStream(status) /\ UNCHANGED backoff
    BY <1>2, <2>1, <2>2
  <2>3. CASE UNCHANGED <<sourceVars, pc, rows, result>>
    BY <2>1, <2>3 DEF SourceControl, SourceMove, sourceVars
  <2> QED
    BY <1>3, <2>2, <2>3 DEF ReadEnds
<1>4. CASE Resume
  <2>0. pc \in Calls /\ ~backoff'
    BY <1>4 DEF Resume, SourceControl
  <2>1. CASE UNCHANGED <<sourceVars, pc, rows, result>>
    BY <2>0, <2>1 DEF SourceControl, SourceMove, sourceVars
  <2>2. CASE pc' = "stuck" /\ UNCHANGED <<rows, result>>
    BY <2>0, <2>2 DEF SourceControl, SourceMove, Calls
  <2>3. CASE \E status \in Statuses : EndOfStream(status)
    BY <1>2, <2>0, <2>3
  <2> QED
    BY <1>4, <2>1, <2>2, <2>3 DEF Resume
<1>5. CASE Expire
  BY <1>5 DEF Expire, sourceVars, SourceControl, SourceMove
<1>6. CASE ReturnRow
  <2>1. /\ pc = "next" /\ ~backoff' /\ UNCHANGED finished_
        /\ pc' = "idle" /\ result' = "row"
    BY <1>6 DEF ReturnRow, Return
  <2>2. rows \in Seq(Seq(Seq(Int)))
    BY DEF StreamInv, StreamTypes
  <2>3. Len(rows') = Len(rows) + 1
    BY <1>6, <2>2 DEF ReturnRow
  <2> QED
    BY <2>1, <2>3 DEF SourceControl, SourceMove
<1> QED
  BY <1>1, <1>3, <1>4, <1>5, <1>6 DEF SourceWorks

\* The rows as a loop needs them.
LEMMA RowFacts ==
  ASSUME StreamInv
  PROVE  /\ NumRows \in Nat /\ Len(rows) \in Nat /\ Len(rows) <= NumRows
         /\ \A i \in 1 .. Len(rows) : rows[i] = ResultRows[i]
         /\ rows = ResultRows => Len(rows) = NumRows
<1>1. NumRows \in Nat
  BY RowArithmetic
<1>2. Len(rows) \in Nat
  BY DEF StreamInv, StreamTypes
<1>3. Len(rows) <= NumRows
  BY RowsAreInOrder DEF RowsInOrder
<1>4. \A i \in 1 .. Len(rows) : rows[i] = ResultRows[i]
  <2>1. \A i \in 1 .. Len(rows) : i \in 1 .. NumRows /\ rows[i] = Row(i)
    BY <1>1, <1>2, <1>3 DEF StreamInv, RowsComplete
  <2> QED
    BY <2>1, ResultRowsAre
<1>5. ASSUME rows = ResultRows PROVE Len(rows) = NumRows
  <2>1. DOMAIN ResultRows = 1 .. NumRows
    BY DEF ResultRows
  <2>2. DOMAIN rows = 1 .. Len(rows)
    BY DEF StreamInv, StreamTypes
  <2>3. PICK n \in Nat, l \in Nat : n = NumRows /\ l = Len(rows)
    BY <1>1, <1>2
  <2>4. 1 .. n = 1 .. l
    BY <1>5, <2>1, <2>2, <2>3
  <2> QED
    BY <2>3, <2>4
<1> QED
  BY <1>1, <1>2, <1>3, <1>4, <1>5

LEMMA RowsDiffer ==
  /\ NoRow # Error /\ Error \notin Misfits
  /\ \A i \in 1 .. NumRows : ResultRows[i] # NoRow /\ ResultRows[i] # Error
BY LoopAssumption

\* The part of the invariant that is about the iterators.
IteratorInv == LoopTypes /\ SeenInOrder /\ LoopControl

LEMMA SeenFacts ==
  ASSUME IteratorInv
  PROVE  Len(seen) \in Nat /\ DOMAIN seen = 1 .. Len(seen)
BY DEF IteratorInv, LoopTypes

\* What depends on the source only through its control.
LEMMA IteratorUntouched ==
  ASSUME IteratorInv, UNCHANGED <<pc, result, rows, iteratorVars, at, seen, single>>
  PROVE  IteratorInv'
BY DEF IteratorInv, LoopTypes, SeenInOrder, LoopControl, iteratorVars, Reason, Fits,
       SawError, InvAtCreate, InvAtAsk, InvAtAsked, InvAtLook, InvAtIncrement,
       InvAtEnd, Element, SingularIsOnly

LEMMA SourceStepKeeps ==
  ASSUME StreamInv, StreamInv', SourceControl, IteratorInv, SourceStep
  PROVE  SourceControl' /\ IteratorInv'
<1>0. UNCHANGED <<iteratorVars, at, seen, single>>
  BY DEF SourceStep
<1>1. CASE SourceWorks
  <2>1. SourceControl' /\ SourceMove
    BY <1>1, SourceMoves
  <2>2. CASE UNCHANGED <<pc, result, rows>>
    BY <1>0, <2>1, <2>2, IteratorUntouched
  <2>3. CASE /\ pc = "create" /\ UNCHANGED rows
             /\ \/ pc' = "idle" /\ result' = "none"
                \/ pc' = "over" /\ result' = "error"
                \/ pc' = "stuck"
    <3>1. at = "create"
      BY <2>3 DEF IteratorInv, LoopTypes, LoopControl, InvAtAsk, InvAtAsked, InvAtLook,
                  InvAtIncrement, InvAtEnd
    <3>2. seen = <<>> /\ rows = <<>>
      BY <3>1 DEF IteratorInv, LoopControl, InvAtCreate
    <3>3. LoopTypes'
      BY <1>0 DEF IteratorInv, LoopTypes, iteratorVars
    <3>4. SeenInOrder'
      BY <1>0, <3>2 DEF SeenInOrder
    <3>5. LoopControl'
      BY <1>0, <2>3, <3>1, <3>2 DEF IteratorInv, LoopControl, InvAtCreate, iteratorVars
    <3> QED
      BY <2>1, <3>3, <3>4, <3>5 DEF IteratorInv
  <2>4. CASE /\ pc = "next"
             /\ \/ pc' = "idle" /\ result' = "row" /\ Len(rows') = Len(rows) + 1
                \/ /\ pc' = "idle" /\ result' = "end"
                   /\ UNCHANGED rows /\ rows = ResultRows
                \/ pc' = "idle" /\ result' = "error"
                \/ pc' = "stuck" /\ UNCHANGED rows
    <3>1. at = "asked"
      BY <2>4 DEF IteratorInv, LoopTypes, LoopControl, InvAtCreate, InvAtAsk, InvAtLook,
                  InvAtIncrement, InvAtEnd
    <3>2. ~SawError /\ Len(seen) = Len(rows)
      BY <2>4, <3>1 DEF IteratorInv, LoopControl, InvAtAsked
    <3>3. LoopTypes'
      BY <1>0 DEF IteratorInv, LoopTypes, iteratorVars
    <3>4. SeenInOrder'
      <4>1. \A i \in 1 .. Len(seen) :
              i <= NumRows /\ seen[i] = ResultRows[i] /\ Fits(i)
        BY <3>2 DEF IteratorInv, SeenInOrder, SawError
      <4> QED
        BY <1>0, <4>1 DEF SeenInOrder, Fits, iteratorVars
    <3>5. InvAtAsked'
      <4>1. ~SawError'
        BY <1>0, <3>2 DEF SawError
      <4>2. rows = ResultRows => Len(seen) = NumRows
        BY <3>2, RowFacts
      <4> QED
        BY <1>0, <2>4, <3>2, <4>1, <4>2 DEF InvAtAsked
    <3>6. LoopControl'
      BY <1>0, <3>1, <3>5 DEF IteratorInv, LoopControl, iteratorVars
    <3> QED
      BY <2>1, <3>3, <3>4, <3>6 DEF IteratorInv
  <2> QED
    BY <2>1, <2>2, <2>3, <2>4 DEF SourceMove
<1>2. CASE at \in {"done", "left"} /\ Destroy
  <2>1. /\ pc = "idle" /\ pc' = "over"
        /\ UNCHANGED <<rows, result, finished_, metadata_, backoff>>
    BY <1>2 DEF Destroy, sourceVars
  <2>2. SourceControl'
    BY <2>1 DEF SourceControl, Calls
  <2>3. LoopTypes' /\ SeenInOrder'
    BY <1>0, <2>1 DEF IteratorInv, LoopTypes, SeenInOrder, Reason, Fits, iteratorVars
  <2>4. InvAtEnd'
    BY <1>0, <1>2, <2>1 DEF IteratorInv, LoopControl, InvAtEnd, SawError,
                            SingularIsOnly, iteratorVars
  <2>5. LoopControl'
    BY <1>0, <1>2, <2>4 DEF IteratorInv, LoopControl, iteratorVars
  <2> QED
    BY <2>2, <2>3, <2>5 DEF IteratorInv
<1> QED
  BY <1>1, <1>2 DEF SourceStep, SourceWorks

\* A step of the application alone.
LEMMA ControlUntouched ==
  ASSUME SourceControl, UNCHANGED vars
  PROVE  SourceControl' /\ UNCHANGED <<pc, result, rows>>
BY DEF SourceControl, vars

LEMMA BeginKeeps ==
  ASSUME IteratorInv, UNCHANGED <<pc, result, rows>>, Begin
  PROVE  IteratorInv'
<1>1. /\ at = "create" /\ at' = "ask" /\ pc \in {"idle", "over"}
      /\ source_' = TRUE /\ UNCHANGED <<range, use, seen, single>>
  BY DEF Begin
<1>2. /\ seen = <<>> /\ rows = <<>>
      /\ pc = "idle" => result = "none"
      /\ pc = "over" => result = "error"
  BY <1>1 DEF IteratorInv, LoopControl, InvAtCreate
<1>3. LoopTypes' /\ SeenInOrder'
  BY <1>1, <1>2 DEF IteratorInv, LoopTypes, SeenInOrder
<1>4. InvAtAsk'
  BY <1>1, <1>2 DEF InvAtAsk, SawError
<1>5. LoopControl'
  BY <1>1, <1>2, <1>4 DEF IteratorInv, LoopControl
<1> QED
  BY <1>3, <1>5 DEF IteratorInv

LEMMA AskKeeps ==
  ASSUME StreamInv, SourceControl, IteratorInv, Ask
  PROVE  SourceControl' /\ IteratorInv' /\ result \in {"none", "row"}
<1>1. /\ at = "ask" /\ at' = "asked" /\ pc = "idle" /\ NextRow
      /\ UNCHANGED <<iteratorVars, seen, single>>
  BY DEF Ask
<1>2. ~SawError /\ Len(seen) = Len(rows) /\ result \in {"none", "row"}
  BY <1>1 DEF IteratorInv, LoopControl, InvAtAsk
<1>3. finished_ = FALSE
  BY <1>1, <1>2 DEF SourceControl
<1>4. /\ pc' = "next" /\ UNCHANGED result
      /\ UNCHANGED <<finished_, metadata_, backoff, rows>>
  BY <1>1, <1>3 DEF NextRow, sourceVars
<1>5. SourceControl'
  BY <1>1, <1>3, <1>4 DEF SourceControl, Calls
<1>6. LoopTypes' /\ SeenInOrder'
  BY <1>1, <1>4 DEF IteratorInv, LoopTypes, SeenInOrder, Reason, Fits, iteratorVars
<1>7. InvAtAsked'
  BY <1>1, <1>2, <1>4 DEF InvAtAsked, SawError
<1>8. LoopControl'
  BY <1>1, <1>7 DEF IteratorInv, LoopControl, iteratorVars
<1> QED
  BY <1>2, <1>5, <1>6, <1>8 DEF IteratorInv

\* An answer of the source is the next row, the end after the last one, or an
\* error.
LEMMA TakeKeeps ==
  ASSUME StreamInv, IteratorInv, UNCHANGED <<pc, result, rows>>,
         at \in {"ask", "asked"}, ~SawError, pc \in {"idle", "over"},
         NEW answer, Take(answer),
         \/ answer = Error /\ result = "error"
         \/ answer = NoRow /\ result = "end" /\ Len(seen) = NumRows
         \/ /\ Len(seen) + 1 <= NumRows /\ answer = ResultRows[Len(seen) + 1]
            /\ Len(rows) = Len(seen) + 1 /\ pc = "idle" /\ result = "row"
  PROVE  IteratorInv'
<1>1. /\ row_' = answer /\ source_' = (answer # NoRow) /\ at' = "look"
      /\ tup_' = IF range = "tuples" THEN ParseTuple(answer, answer # NoRow) ELSE tup_
      /\ UNCHANGED <<range, use, seen, single>>
  BY DEF Take
<1>2. Len(seen) \in Nat /\ NumRows \in Nat
  BY SeenFacts, RowFacts
<1>3. LoopTypes'
  <2>1. source_' \in BOOLEAN
    BY <1>1
  <2> QED
    BY <1>1, <2>1 DEF IteratorInv, LoopTypes
<1>4. SeenInOrder'
  BY <1>1 DEF IteratorInv, SeenInOrder, Reason, Fits
<1>5. ~SawError'
  BY <1>1 DEF SawError
<1>6. CASE answer = NoRow
  <2>1. source_' = FALSE
    BY <1>1, <1>6
  <2>2. result = "end" /\ Len(seen) = NumRows
    BY <1>2, <1>6, RowsDiffer
  <2>3. InvAtLook'
    BY <1>1, <2>1, <2>2 DEF InvAtLook
  <2> QED
    BY <1>1, <1>3, <1>4, <2>3 DEF IteratorInv, LoopControl
<1>7. CASE answer # NoRow
  <2>1. tup_' = IF range = "tuples"
                THEN IF answer \in Misfits THEN Error ELSE answer ELSE tup_
    BY <1>1, <1>7 DEF ParseTuple
  <2>2. InvAtLook'
    BY <1>1, <1>5, <1>7, <2>1 DEF InvAtLook
  <2> QED
    BY <1>1, <1>3, <1>4, <2>2 DEF IteratorInv, LoopControl
<1> QED
  BY <1>6, <1>7

LEMMA AnswerKeeps ==
  ASSUME StreamInv, IteratorInv, UNCHANGED <<pc, result, rows>>, Answer
  PROVE  IteratorInv'
<1> DEFINE answer == CASE result = "row" -> rows[Len(rows)]
                       [] result = "end" -> NoRow
                       [] OTHER -> Error
<1>1. at = "asked" /\ pc = "idle" /\ Take(answer)
  BY DEF Answer
<1>2. /\ ~SawError
      /\ \/ result = "row" /\ Len(rows) = Len(seen) + 1
         \/ result = "end" /\ Len(seen) = NumRows
         \/ result = "error"
  BY <1>1 DEF IteratorInv, LoopControl, InvAtAsked
<1>3. \/ answer = Error /\ result = "error"
      \/ answer = NoRow /\ result = "end" /\ Len(seen) = NumRows
      \/ /\ Len(seen) + 1 <= NumRows /\ answer = ResultRows[Len(seen) + 1]
         /\ Len(rows) = Len(seen) + 1 /\ result = "row"
  <2>1. CASE result = "row" /\ Len(rows) = Len(seen) + 1
    <3>1. answer = rows[Len(rows)]
      BY <2>1
    <3>2. Len(rows) \in 1 .. Len(rows) /\ Len(rows) <= NumRows
      BY <2>1, SeenFacts, RowFacts
    <3> QED
      BY <2>1, <3>1, <3>2, RowFacts
  <2>2. CASE result = "end" /\ Len(seen) = NumRows
    BY <2>2
  <2>3. CASE result = "error"
    BY <2>3
  <2> QED
    BY <1>2, <2>1, <2>2, <2>3
<1> HIDE DEF answer
<1> QED
  BY <1>1, <1>2, <1>3, TakeKeeps

LEMMA AnswerStatusKeeps ==
  ASSUME StreamInv, IteratorInv, UNCHANGED <<pc, result, rows>>, AnswerStatus
  PROVE  IteratorInv'
<1>1. at = "ask" /\ pc = "over" /\ Take(Error)
  BY DEF AnswerStatus
<1>2. ~SawError /\ result = "error"
  BY <1>1 DEF IteratorInv, LoopControl, InvAtAsk
<1> QED
  BY <1>1, <1>2, TakeKeeps

LEMMA IncrementKeeps ==
  ASSUME StreamInv, IteratorInv, UNCHANGED <<pc, result, rows>>, Increment
  PROVE  IteratorInv'
<1>1. at = "increment" /\ UNCHANGED <<range, use, tup_, seen, single>>
  BY DEF Increment
<1>2. InvAtIncrement /\ SeenInOrder /\ LoopTypes
  BY <1>1 DEF IteratorInv, LoopControl
<1>3. SeenInOrder'
  BY <1>1, <1>2 DEF SeenInOrder, Reason, Fits
<1>4. CASE IsLast
  <2>1. source_' = FALSE /\ at' = "look"
    BY <1>4 DEF Increment
  <2>2. Element = Error
    BY <1>2, <1>4 DEF IsLast, InvAtIncrement, Element
  <2>3. SawError'
    BY <1>1, <1>2, <2>2 DEF InvAtIncrement, SawError
  <2>4. InvAtLook'
    BY <1>2, <2>1, <2>3 DEF InvAtLook, InvAtIncrement
  <2> QED
    BY <1>1, <1>2, <1>3, <2>1, <2>4 DEF IteratorInv, LoopControl, LoopTypes
<1>5. CASE ~IsLast
  <2>1. at' = "ask" /\ UNCHANGED source_
    BY <1>5 DEF Increment
  <2>2. Element # Error
    BY <1>5 DEF IsLast
  <2>3. InvAtAsk'
    BY <1>1, <1>2, <2>2 DEF InvAtIncrement, InvAtAsk, SawError
  <2> QED
    BY <1>1, <1>2, <1>3, <2>1, <2>3 DEF IteratorInv, LoopControl, LoopTypes
<1> QED
  BY <1>4, <1>5

LEMMA SeeKeeps ==
  ASSUME StreamInv, IteratorInv, UNCHANGED <<pc, result, rows>>, See
  PROVE  IteratorInv'
<1>1. /\ at = "look" /\ at' = "increment" /\ source_
      /\ use = "single" => seen = <<>>
      /\ seen' = Append(seen, Element) /\ UNCHANGED <<iteratorVars, single>>
  BY DEF See
<1>2. InvAtLook /\ SeenInOrder /\ LoopTypes /\ Len(seen) \in Nat
  BY <1>1, SeenFacts DEF IteratorInv, LoopControl
<1>3. /\ ~SawError
      /\ \/ row_ = Error /\ result = "error"
         \/ /\ Len(seen) + 1 <= NumRows /\ row_ = ResultRows[Len(seen) + 1]
            /\ Len(rows) = Len(seen) + 1 /\ pc = "idle" /\ result = "row"
      /\ range = "tuples" => tup_ = IF row_ \in Misfits THEN Error ELSE row_
      /\ pc \in {"idle", "over"}
  BY <1>1, <1>2 DEF InvAtLook
<1>4. NumRows \in Nat
  BY RowFacts
<1>5. \/ Element = Error /\ Reason(Len(seen) + 1)
      \/ /\ Len(seen) + 1 <= NumRows /\ Element = ResultRows[Len(seen) + 1]
         /\ Fits(Len(seen) + 1)
  <2>1. CASE row_ = Error
    BY <1>3, <2>1, RowsDiffer, <1>2, <1>4 DEF Element, Reason
  <2>2. CASE row_ # Error
    <3>1. Len(seen) + 1 <= NumRows /\ row_ = ResultRows[Len(seen) + 1]
      BY <1>3, <2>2
    <3>2. CASE range = "tuples" /\ row_ \in Misfits
      BY <1>3, <3>1, <3>2 DEF Element, Reason
    <3>3. CASE ~(range = "tuples" /\ row_ \in Misfits)
      BY <1>3, <3>1, <3>3 DEF Element, Fits
    <3> QED
      BY <3>2, <3>3
  <2> QED
    BY <2>1, <2>2
<1>6. LoopTypes' /\ Len(seen') = Len(seen) + 1
  <2> DEFINE E == {ResultRows[i] : i \in 1 .. NumRows} \cup {Error}
  <2>1. seen \in Seq(E)
    BY <1>2 DEF LoopTypes
  <2>2. Element \in E
    BY <1>2, <1>4, <1>5
  <2> HIDE DEF E
  <2>3. seen' \in Seq(E) /\ Len(seen') = Len(seen) + 1
    BY <1>1, <2>1, <2>2
  <2> QED
    BY <1>1, <1>2, <2>3 DEF LoopTypes, iteratorVars, E
<1>7. /\ \A i \in 1 .. Len(seen) : seen'[i] = seen[i]
      /\ seen'[Len(seen) + 1] = Element
  BY <1>1, <1>2 DEF LoopTypes
<1>8. SeenInOrder'
  <2>1. UNCHANGED <<range, result>>
    BY <1>1 DEF iteratorVars
  <2>2. ASSUME NEW i \in 1 .. Len(seen')
        PROVE  \/ seen'[i] = Error /\ i = Len(seen') /\ Reason(i)'
               \/ i <= NumRows /\ seen'[i] = ResultRows[i] /\ Fits(i)'
    <3>1. CASE i \in 1 .. Len(seen)
      <4>1. i <= NumRows /\ seen[i] = ResultRows[i] /\ Fits(i)
        BY <1>2, <1>3, <3>1 DEF SeenInOrder, SawError
      <4> QED
        BY <1>7, <2>1, <3>1, <4>1 DEF Fits
    <3>2. CASE i = Len(seen) + 1
      BY <1>5, <1>6, <1>7, <2>1, <3>2 DEF Fits, Reason
    <3> QED
      BY <1>2, <1>6, <3>1, <3>2
  <2> QED
    BY <2>2 DEF SeenInOrder
<1>9. UNCHANGED Element
  BY <1>1 DEF Element, iteratorVars
<1>10. InvAtIncrement'
  <2>1. Len(seen') > 0 /\ seen'[Len(seen')] = Element'
    BY <1>2, <1>6, <1>7, <1>9
  <2>2. range = "tuples" /\ row_ = Error => tup_ = Error
    BY <1>3
  <2>3. Element # Error => pc = "idle" /\ result = "row" /\ Len(rows) = Len(seen')
    BY <1>3, <1>6, <2>2 DEF Element
  <2> QED
    BY <1>1, <1>3, <1>9, <2>1, <2>2, <2>3 DEF InvAtIncrement, iteratorVars
<1>11. use = "single" => Len(seen') <= 1
  BY <1>1, <1>6
<1>12. LoopControl'
  BY <1>1, <1>10, <1>11 DEF IteratorInv, LoopControl, iteratorVars
<1> QED
  BY <1>6, <1>8, <1>12 DEF IteratorInv

LEMMA LeaveKeeps ==
  ASSUME IteratorInv, UNCHANGED <<pc, result, rows>>, Leave
  PROVE  IteratorInv'
<1>1. /\ at = "increment" /\ at' = "left" /\ UNCHANGED <<iteratorVars, seen, single>>
  BY DEF Leave
<1>2. LoopTypes' /\ SeenInOrder'
  BY <1>1 DEF IteratorInv, LoopTypes, SeenInOrder, Reason, Fits, iteratorVars
<1>3. InvAtEnd'
  BY <1>1 DEF IteratorInv, LoopControl, InvAtIncrement, InvAtEnd, SingularIsOnly
<1>4. LoopControl'
  BY <1>1, <1>3 DEF IteratorInv, LoopControl, iteratorVars
<1> QED
  BY <1>2, <1>4 DEF IteratorInv

\* The end of the loop, and the verdict of GetSingularRow().
LEMMA FinishKeeps ==
  ASSUME StreamInv, IteratorInv, UNCHANGED <<pc, result, rows>>, Finish
  PROVE  IteratorInv'
<1>1. /\ at = "look" /\ at' = "done" /\ UNCHANGED <<iteratorVars, seen>>
      /\ ~source_ \/ (use = "single" /\ seen # <<>>)
      /\ single' = IF use = "single" /\ OnlyOne THEN seen[1] ELSE single
  BY DEF Finish
<1>2. /\ InvAtLook /\ SeenInOrder /\ LoopTypes /\ Len(seen) \in Nat
      /\ single = Error /\ (use = "single" => Len(seen) <= 1)
  BY <1>1, SeenFacts DEF IteratorInv, LoopControl
<1>3. LoopTypes' /\ SeenInOrder'
  BY <1>1, <1>2 DEF LoopTypes, SeenInOrder, Reason, Fits, iteratorVars
<1>4. use = "loop" => SawError \/ Len(seen) = NumRows
  BY <1>1, <1>2 DEF InvAtLook
<1>5. ASSUME use = "single" PROVE SingularIsOnly'
  <2>0. seen = <<>> <=> Len(seen) = 0
    BY <1>2 DEF LoopTypes
  <2>1. CASE seen = <<>>
    <3>1. ~source_ /\ ~SawError
      BY <1>1, <2>0, <2>1 DEF SawError
    <3>2. NumRows = 0
      BY <1>2, <2>0, <2>1, <3>1 DEF InvAtLook
    <3>3. single' = Error
      BY <1>1, <1>2, <2>1 DEF OnlyOne
    <3> QED
      BY <3>2, <3>3 DEF SingularIsOnly
  <2>2. CASE seen # <<>>
    <3>1. Len(seen) = 1
      <4>1. Len(seen) # 0
        BY <2>0, <2>2
      <4>2. Len(seen) \in Nat /\ Len(seen) <= 1
        BY <1>2, <1>5
      <4>3. PICK l \in Nat : l = Len(seen)
        BY <4>2
      <4> QED
        BY <4>1, <4>2, <4>3
    <3>2. CASE source_
      <4>1. single' = Error
        BY <1>1, <1>2, <3>2 DEF OnlyOne
      <4>2. result = "error" \/ 2 <= NumRows
        BY <1>2, <3>1, <3>2 DEF InvAtLook
      <4>3. NumRows \in Nat
        BY RowFacts
      <4> QED
        BY <4>1, <4>2, <4>3 DEF SingularIsOnly
    <3>3. CASE ~source_ /\ SawError
      <4>1. single' = Error
        BY <1>1, <1>2, <3>1, <3>3 DEF SawError
      <4>2. Reason(1)
        <5>1. seen[1] = Error
          BY <3>1, <3>3 DEF SawError
        <5>2. 1 \in 1 .. Len(seen)
          BY <3>1
        <5>3. 1 <= NumRows => ResultRows[1] # Error
          BY RowFacts, RowsDiffer
        <5> QED
          BY <1>2, <5>1, <5>2, <5>3 DEF SeenInOrder
      <4>3. UNCHANGED <<range, result>>
        BY <1>1 DEF iteratorVars
      <4> QED
        BY <4>1, <4>2, <4>3 DEF SingularIsOnly, Reason
    <3>4. CASE ~source_ /\ ~SawError
      <4>1. NumRows = 1 /\ result = "end"
        BY <1>2, <3>1, <3>4 DEF InvAtLook
      <4>2. seen[1] = ResultRows[1] /\ Fits(1)
        <5>1. 1 \in 1 .. Len(seen) /\ seen[1] # Error
          BY <3>1, <3>4 DEF SawError
        <5> QED
          BY <1>2, <5>1 DEF SeenInOrder
      <4>3. single' = seen[1]
        BY <1>1, <1>5, <2>2, <3>4 DEF OnlyOne
      <4>4. UNCHANGED <<range, result>>
        BY <1>1 DEF iteratorVars
      <4> QED
        BY <4>1, <4>2, <4>3, <4>4 DEF SingularIsOnly, Fits
    <3> QED
      BY <3>2, <3>3, <3>4
  <2> QED
    BY <2>1, <2>2
<1>6. use = "loop" => SingularIsOnly'
  BY <1>1 DEF SingularIsOnly, iteratorVars
<1>7. InvAtEnd'
  <2>1. use \in {"loop", "single"} /\ pc \in {"idle", "over"}
    BY <1>2 DEF LoopTypes, InvAtLook
  <2>2. UNCHANGED <<use, SawError>>
    BY <1>1 DEF SawError, iteratorVars
  <2> QED
    BY <1>1, <1>4, <1>5, <1>6, <2>1, <2>2 DEF InvAtEnd
<1>8. LoopControl'
  BY <1>1, <1>2, <1>7 DEF LoopControl, iteratorVars
<1> QED
  BY <1>3, <1>8 DEF IteratorInv

LEMMA LoopInitially == LoopInit => LoopInv
<1> SUFFICES ASSUME LoopInit PROVE LoopInv
  OBVIOUS
<1>1. /\ Init /\ seen = <<>> /\ at = "create" /\ single = Error /\ source_ = FALSE
      /\ range \in {"rows", "tuples"} /\ use \in {"loop", "single"}
  BY DEF LoopInit
<1>2. StreamInv
  BY <1>1, StreamInit
<1>3. SourceControl
  BY <1>1 DEF Init, SourceControl
<1>4. LoopTypes /\ SeenInOrder
  <2> DEFINE E == {ResultRows[i] : i \in 1 .. NumRows} \cup {Error}
  <2>1. seen \in Seq(E)
    <3> HIDE DEF E
    <3> QED
      BY <1>1
  <2>2. Len(seen) = 0
    BY <1>1
  <2>3. LoopTypes
    BY <1>1, <2>1 DEF LoopTypes
  <2>4. SeenInOrder
    BY <2>2 DEF SeenInOrder
  <2> QED
    BY <2>3, <2>4
<1>5. LoopControl
  BY <1>1 DEF LoopControl, InvAtCreate, Init
<1> QED
  BY <1>2, <1>3, <1>4, <1>5 DEF LoopInv

\* A loop does to its source what PartialResultSet allows.
LEMMA LoopIsCaller == [LoopNext]_loopVars => [Next]_vars
<1>1. SourceStep => Next
  BY DEF SourceStep, Next
<1>2. Ask => Next
  BY DEF Ask, Next
<1>3. Begin \/ Answer \/ AnswerStatus \/ Increment \/ See \/ Leave \/ Finish =>
        UNCHANGED vars
  BY DEF Begin, Answer, AnswerStatus, Increment, See, Leave, Finish
<1>4. UNCHANGED loopVars => UNCHANGED vars
  BY DEF loopVars
<1> QED
  BY <1>1, <1>2, <1>3, <1>4 DEF LoopNext

LEMMA LoopStep ==
  ASSUME TokenOnEveryMessage, LoopInv, [LoopNext]_loopVars
  PROVE  LoopInv'
<1>1. StreamInv /\ SourceControl /\ IteratorInv
  BY DEF LoopInv, IteratorInv
<1>2. StreamInv'
  BY <1>1, LoopIsCaller, StreamStep
<1>3. CASE SourceStep
  BY <1>1, <1>2, <1>3, SourceStepKeeps DEF LoopInv, IteratorInv
<1>4. CASE Ask
  BY <1>1, <1>2, <1>4, AskKeeps DEF LoopInv, IteratorInv
<1>5. ASSUME UNCHANGED vars
      PROVE  SourceControl' /\ UNCHANGED <<pc, result, rows>>
  BY <1>1, <1>5, ControlUntouched
<1>6. CASE Begin \/ Answer \/ AnswerStatus \/ Increment \/ See \/ Leave \/ Finish
  <2>1. UNCHANGED vars
    BY <1>6 DEF Begin, Answer, AnswerStatus, Increment, See, Leave, Finish
  <2>2. SourceControl' /\ UNCHANGED <<pc, result, rows>>
    BY <1>5, <2>1
  <2>3. IteratorInv'
    BY <1>1, <1>6, <2>2, BeginKeeps, AnswerKeeps, AnswerStatusKeeps, IncrementKeeps,
       SeeKeeps, LeaveKeeps, FinishKeeps
  <2> QED
    BY <1>2, <2>2, <2>3 DEF LoopInv, IteratorInv
<1>7. CASE UNCHANGED loopVars
  <2>1. UNCHANGED vars /\ UNCHANGED <<iteratorVars, at, seen, single>>
    BY <1>7 DEF loopVars
  <2>2. SourceControl' /\ UNCHANGED <<pc, result, rows>>
    BY <1>5, <2>1
  <2>3. IteratorInv'
    BY <1>1, <2>1, <2>2, IteratorUntouched
  <2> QED
    BY <1>2, <2>2, <2>3 DEF LoopInv, IteratorInv
<1> QED
  BY <1>3, <1>4, <1>6, <1>7 DEF LoopNext

LEMMA LoopInvIsHonest == LoopInv => LoopIsHonest
<1> SUFFICES ASSUME LoopInv PROVE LoopIsHonest
  OBVIOUS
<1>1. DOMAIN seen = 1 .. Len(seen) /\ Len(seen) \in Nat
  BY SeenFacts DEF LoopInv, IteratorInv
<1>2. ASSUME NEW i \in DOMAIN seen
      PROVE  \/ /\ seen[i] = Error /\ i = Len(seen)
                /\ \/ result = "error"
                   \/ range = "tuples" /\ i <= NumRows /\ ResultRows[i] \in Misfits
             \/ /\ i <= NumRows /\ seen[i] = ResultRows[i]
                /\ range = "tuples" => ResultRows[i] \notin Misfits
  BY <1>1 DEF LoopInv, SeenInOrder, Reason, Fits
<1>3. ASSUME at = "done", use = "loop", \A i \in DOMAIN seen : seen[i] # Error
      PROVE  Len(seen) = NumRows
  <2>1. SawError \/ Len(seen) = NumRows
    BY <1>3 DEF LoopInv, LoopControl, InvAtEnd
  <2>2. ~SawError
    BY <1>1, <1>3 DEF SawError
  <2> QED
    BY <2>1, <2>2
<1> QED
  BY <1>2, <1>3 DEF LoopIsHonest

(***************************************************************************)
(* The theorems about the loop, from the same assumption.                  *)
(***************************************************************************)
\* What the source has answered, what the iterators hold and what the loop
\* has seen fit together, wherever the application is.
THEOREM LoopInvariance ==
  ASSUME TokenOnEveryMessage
  PROVE  LoopSpec => []LoopInv
<1>1. LoopInit => LoopInv
  BY LoopInitially
<1>2. LoopInv /\ [LoopNext]_loopVars => LoopInv'
  BY LoopStep
<1> QED
  BY <1>1, <1>2, PTL DEF LoopSpec

\* A range-for loop over a RowStream or a TupleStream sees the rows of the
\* result in order and once; it sees an error last, and for a reason; and if it
\* ends without an error it has seen all of them.
THEOREM LoopIsHonestCorrect ==
  ASSUME TokenOnEveryMessage
  PROVE  LoopSpec => []LoopIsHonest
<1>1. LoopSpec => []LoopInv
  BY LoopInvariance
<1>2. LoopInv => LoopIsHonest
  BY LoopInvIsHonest
<1> QED
  BY <1>1, <1>2, PTL

\* GetSingularRow() returns a row if and only if it is the only one, it converts,
\* and the source has said that it is the last.
THEOREM SingularIsOnlyCorrect ==
  ASSUME TokenOnEveryMessage
  PROVE  LoopSpec => []SingularIsOnly
<1>1. LoopSpec => []LoopInv
  BY LoopInvariance
<1>2. LoopInv => SingularIsOnly
  BY DEF LoopInv, LoopControl, InvAtEnd, SingularIsOnly
<1> QED
  BY <1>1, <1>2, PTL

\* What a loop or GetSingularRow() gets out of a result is what is in it.
THEOREM ReadingIsHonestCorrect ==
  ASSUME TokenOnEveryMessage
  PROVE  LoopSpec => []ReadingIsHonest
<1>1. LoopSpec => []LoopIsHonest
  BY LoopIsHonestCorrect
<1>2. LoopSpec => []SingularIsOnly
  BY SingularIsOnlyCorrect
<1> QED
  BY <1>1, <1>2, PTL DEF ReadingIsHonest

\* No iterator asks its source for a row after an error or the end.
THEOREM NotAskedAgainCorrect ==
  ASSUME TokenOnEveryMessage
  PROVE  LoopSpec => NotAskedAgain
<1> DEFINE Once == at = "ask" /\ at' = "asked" => result \in {"none", "row"}
<1>1. LoopSpec => []LoopInv
  BY LoopInvariance
<1>2. LoopInv /\ [LoopNext]_loopVars => [Once]_loopVars
  <2> SUFFICES ASSUME LoopInv, LoopNext, at = "ask", at' = "asked"
               PROVE  result \in {"none", "row"}
    OBVIOUS
  <2>1. Ask
    BY DEF LoopNext, SourceStep, Begin, Answer, AnswerStatus, Take, Increment, See,
           Leave, Finish
  <2> QED
    BY <2>1, AskKeeps DEF LoopInv, IteratorInv
<1> QED
  BY <1>1, <1>2, PTL DEF LoopSpec, NotAskedAgain
=============================================================================
