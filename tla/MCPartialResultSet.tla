------------------------- MODULE MCPartialResultSet -------------------------
(* PartialResultSet for TLC: two short rows of one column, the first of      *)
(* which is sent in two pieces.                                              *)
EXTENDS PartialResultSet

ShortRows == <<1, 1, 2>>
=============================================================================
