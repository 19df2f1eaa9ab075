---------------------------- MODULE MCResultLoop ----------------------------
(***************************************************************************)
(* ResultLoop for TLC: three rows of two columns, some of whose values are *)
(* sent in two or three pieces, and the last of which does not convert.    *)
(* The rows are read through an iterator, or by whoever calls the source   *)
(* itself, again and again, also after its end.                            *)
(***************************************************************************)
EXTENDS ResultLoop

ThreeRows == <<1, 2, 2, 3, 3, 3, 4, 5, 6, 6>>
ThirdRow == {ResultRows[r] : r \in {3} \cap 1 .. NumRows}

VARIABLE reader

ReaderInit ==
  \/ reader = "iterator" /\ LoopInit
  \/ /\ reader = "caller" /\ Init
     /\ range = "rows" /\ use = "loop"
     /\ row_ = Error /\ source_ = FALSE /\ tup_ = Error
     /\ at = "left" /\ seen = <<>> /\ single = Error

ReaderNext ==
  \/ reader = "iterator" /\ LoopNext /\ UNCHANGED reader
  \/ reader = "caller" /\ Next /\ UNCHANGED <<iteratorVars, at, seen, single, reader>>

ReaderSpec == ReaderInit /\ [][ReaderNext]_<<loopVars, reader>> /\ LoopFairness
=============================================================================
