------------------------------- MODULE Bytes -------------------------------
(***************************************************************************)
(* Bytes: octets kept in their base64 representation (bytes.h, bytes.cc).  *)
(*                                                                         *)
(* Three octets of 4 * Bits bits are four digits of 3 * Bits bits; the     *)
(* code has Bits = 2.  A digit stands for its character; kPadding is the   *)
(* padding character and every other symbol is in no base64 text.          *)
(***************************************************************************)
EXTENDS Integers, Sequences, FiniteSets

CONSTANTS Bits, kPadding, kOther

ASSUME BytesAssumption == Bits \in Nat \ {0}

Octets == 0 .. 2 ^ (4 * Bits) - 1
Digits == 0 .. 2 ^ (3 * Bits) - 1
Base == 2 ^ (3 * Bits)

\* The digit of weight Base ^ i of three octets.
DigitOf(buf, i) ==
  (((buf[1] * 2 ^ (4 * Bits) + buf[2]) * 2 ^ (4 * Bits) + buf[3])
     \div Base ^ i) % Base

\* Three octets become four digits.
Flush(buf) ==
  <<DigitOf(buf, 3), DigitOf(buf, 2), DigitOf(buf, 1), DigitOf(buf, 0)>>

\* One or two octets become two or three digits and padding.
FlushAndPad(buf) ==
  LET v == buf \o <<0, 0>>
  IN IF Len(buf) = 2 THEN <<DigitOf(v, 3), DigitOf(v, 2), DigitOf(v, 1), kPadding>>
     ELSE <<DigitOf(v, 3), DigitOf(v, 2), kPadding, kPadding>>

\* The constructor from a sequence of octets.
RECURSIVE Encode(_)
Encode(octets) ==
  IF Len(octets) >= 3
  THEN Flush(SubSeq(octets, 1, 3)) \o Encode(SubSeq(octets, 4, Len(octets)))
  ELSE IF octets # <<>> THEN FlushAndPad(octets)
  ELSE <<>>

\* The octets of one chunk of four digits.  An octet has the low bits of one
\* digit and the high bits of the next.
Fill(p) ==
  LET o1 == p[1] * 2 ^ Bits + p[2] \div 2 ^ (2 * Bits)
      o2 == (p[2] % 2 ^ (2 * Bits)) * 2 ^ (2 * Bits) + p[3] \div 2 ^ Bits
      o3 == (p[3] % 2 ^ Bits) * 2 ^ (3 * Bits) + p[4]
  IN IF p[4] = kPadding
     THEN IF p[3] = kPadding THEN <<o1>> ELSE <<o1, o2>>
     ELSE <<o1, o2, o3>>

\* What the iterators of the Decoder go through.
RECURSIVE Decode(_)
Decode(rep) ==
  IF rep = <<>> THEN <<>>
  ELSE Fill(SubSeq(rep, 1, 4)) \o Decode(SubSeq(rep, 5, Len(rep)))

\* Mutant: the bits of the last digit that no octet has are not looked at.
IsLastChunk_AnyBits(p) ==
  /\ p[4] = kPadding
  /\ {p[1], p[2]} \subseteq Digits /\ p[3] \in Digits \cup {kPadding}

\* A chunk with padding: the bits that are in no octet are zero.
IsLastChunk(p) ==
  /\ p[4] = kPadding
  /\ {p[1], p[2]} \subseteq Digits
  /\ \/ p[3] = kPadding /\ p[2] % 2 ^ (2 * Bits) = 0
     \/ p[3] \in Digits /\ p[3] % 2 ^ Bits = 0

\* BytesFromBase64() accepts whole chunks; padding is in the last one.
RECURSIVE IsBase64(_)
IsBase64(input) ==
  \/ input = <<>>
  \/ Len(input) = 4 /\ IsLastChunk(input)
  \/ /\ Len(input) >= 4
     /\ \A i \in 1 .. 4 : input[i] \in Digits
     /\ IsBase64(SubSeq(input, 5, Len(input)))
=============================================================================
