----------------------------- MODULE ResultLoop -----------------------------
(***************************************************************************)
(* An application reads the rows of a result: RowStreamIterator over the   *)
(* answers of PartialResultSetSource, TupleStreamIterator over that        *)
(* (row.h, row.cc), in a range-for loop or in GetSingularRow().  A result  *)
(* that could not be created is a StatusOnlyResultSetSource                *)
(* (connection_impl.cc).                                                   *)
(*                                                                         *)
(* The steps of the source are those of PartialResultSet; the application  *)
(* waits in NextRow() for its answer.                                      *)
(***************************************************************************)
EXTENDS PartialResultSet

CONSTANTS
  Misfits,      \* the rows that Row::get<Tuple>() does not convert
  NoRow,        \* the empty row, which is the end of a stream
  Error         \* a StatusOr<> without a value

ASSUME LoopAssumption ==
  /\ NoRow # Error /\ Error \notin Misfits
  /\ \A r \in 1 .. NumRows : ResultRows[r] \notin {NoRow, Error}

VARIABLES
  range,        \* what is read: "rows" of a RowStream, or "tuples" of a
                \* TupleStream
  use,          \* "loop": a range-for loop; "single": GetSingularRow()
  row_,         \* RowStreamIterator: a row, NoRow or Error
  source_,      \* RowStreamIterator: whether there is one; without, it is "end"
  tup_,         \* TupleStreamIterator: the row that was converted, or Error
  at,           \* the application: it waits for the result; is about to ask
                \* the source; has asked it; looks at the iterator; is about to
                \* increment it; is done, or has left the loop
  seen,         \* the elements it has seen
  single        \* what GetSingularRow() has returned

iteratorVars == <<range, use, row_, source_, tup_>>
loopVars == <<vars, iteratorVars, at, seen, single>>

LoopInit ==
  /\ Init
  /\ range \in {"rows", "tuples"} /\ use \in {"loop", "single"}
  /\ row_ = Error /\ source_ = FALSE /\ tup_ = Error
  /\ at = "create" /\ seen = <<>> /\ single = Error

\* The source is at work; it is destroyed with the result, after the loop.
SourceStep ==
  /\ \/ \E n \in 0 .. NumPieces, has_token \in BOOLEAN : ReadMessage(n, has_token)
     \/ \E status \in Statuses : ReadEnds(status)
     \/ Resume \/ Expire \/ ReturnRow
     \/ at \in {"done", "left"} /\ Destroy
  /\ UNCHANGED <<iteratorVars, at, seen, single>>

(***************************************************************************)
(* RowStreamIterator and TupleStreamIterator.                              *)
(***************************************************************************)
\* begin(): the constructor increments the iterator.
Begin ==
  /\ at = "create" /\ pc \in {"idle", "over"}
  /\ row_' = NoRow /\ source_' = TRUE
  /\ at' = "ask"
  /\ UNCHANGED <<vars, range, use, tup_, seen, single>>

\* Mutant: a row that does not convert leaves the tuple of the one before it.
ParseTuple_Keep(row, more) ==
  IF ~more \/ row \in Misfits THEN tup_ ELSE row

\* ParseTuple(): nothing to convert at the end.  The conversion moves the row
\* out of the iterator, which keeps its status.
ParseTuple(row, more) ==
  IF ~more THEN tup_ ELSE IF row \in Misfits THEN Error ELSE row

\* operator++ has an answer of the source.
Take(answer) ==
  /\ row_' = answer
  /\ source_' = (answer # NoRow)
  /\ tup_' = IF range = "tuples" THEN ParseTuple(answer, answer # NoRow) ELSE tup_
  /\ at' = "look"
  /\ UNCHANGED <<range, use, seen, single>>

\* source_() calls NextRow().
Ask ==
  /\ at = "ask" /\ pc = "idle"
  /\ NextRow
  /\ at' = "asked"
  /\ UNCHANGED <<iteratorVars, seen, single>>

\* NextRow() returns.
Answer ==
  /\ at = "asked" /\ pc = "idle"
  /\ Take(CASE result = "row" -> rows[Len(rows)]
            [] result = "end" -> NoRow
            [] OTHER -> Error)
  /\ UNCHANGED vars

\* A StatusOnlyResultSetSource has one answer.
AnswerStatus ==
  /\ at = "ask" /\ pc = "over"
  /\ Take(Error)
  /\ UNCHANGED vars

\* What operator* returns, and operator++ tests.
Element == IF range = "tuples" THEN tup_ ELSE row_

\* Mutant: the source is asked again after an error.
IsLast_Never == FALSE

\* The last element was an error: become "end".
IsLast == Element = Error \/ row_ = Error

\* operator++.
Increment ==
  /\ at = "increment"
  /\ IF IsLast
     THEN source_' = FALSE /\ at' = "look" /\ row_' = Error
     ELSE at' = "ask" /\ UNCHANGED <<row_, source_>>
  /\ UNCHANGED <<vars, range, use, tup_, seen, single>>

(***************************************************************************)
(* The application.                                                        *)
(***************************************************************************)
\* The body of the loop, and GetSingularRow() with its first element, which
\* it moves out of the iterator.
See ==
  /\ at = "look" /\ source_
  /\ use = "single" => seen = <<>>
  /\ seen' = Append(seen, Element)
  /\ at' = "increment"
  /\ UNCHANGED <<vars, iteratorVars, single>>

\* The body of the loop leaves it.
Leave ==
  /\ at = "increment" /\ use = "loop"
  /\ at' = "left"
  /\ UNCHANGED <<vars, iteratorVars, seen, single>>

\* Mutant: the second row is not looked for.
OnlyOne_First == seen # <<>>

OnlyOne == seen # <<>> /\ ~source_

\* The loop ends at "end", GetSingularRow() there or at a second element.
Finish ==
  /\ at = "look"
  /\ ~source_ \/ (use = "single" /\ seen # <<>>)
  /\ single' = IF use = "single" /\ OnlyOne THEN seen[1] ELSE single
  /\ at' = "done"
  /\ UNCHANGED <<vars, iteratorVars, seen>>

LoopNext ==
  \/ SourceStep
  \/ Begin \/ Ask \/ Answer \/ AnswerStatus \/ Increment
  \/ See \/ Leave \/ Finish

\* The application's thread runs.
LoopFairness ==
  /\ Fairness
  /\ WF_loopVars(Begin \/ Ask \/ Answer \/ AnswerStatus \/ Increment \/ See \/ Finish)

LoopSpec == LoopInit /\ [][LoopNext]_loopVars /\ LoopFairness

(***************************************************************************)
(* Properties.                                                             *)
(***************************************************************************)
\* A loop over the rows or the tuples of a result sees the rows of the result
\* in their order, each once.  An error is the last that it sees, and then the
\* stream has failed or that row does not convert; a loop that ends without an
\* error has seen all the rows.
LoopIsHonest ==
  /\ \A i \in DOMAIN seen :
       \/ /\ seen[i] = Error /\ i = Len(seen)
          /\ \/ result = "error"
             \/ range = "tuples" /\ i <= NumRows /\ ResultRows[i] \in Misfits
       \/ /\ i <= NumRows /\ seen[i] = ResultRows[i]
          /\ range = "tuples" => ResultRows[i] \notin Misfits
  /\ at = "done" /\ use = "loop" /\ (\A i \in DOMAIN seen : seen[i] # Error) =>
       Len(seen) = NumRows

\* GetSingularRow() returns the row of a result that has one, after the source
\* has said that there is no other; whatever else it finds is an error.
SingularIsOnly ==
  at = "done" /\ use = "single" =>
    IF /\ NumRows = 1 /\ result = "end"
       /\ range = "tuples" => ResultRows[1] \notin Misfits
    THEN single = ResultRows[1]
    ELSE single = Error

\* What an application gets out of a result is what is in it, or an error.
ReadingIsHonest == LoopIsHonest /\ SingularIsOnly

\* A source that has announced the end of its rows or an error is not asked
\* again: it would say "end" after an error, or go on behind a gap.
NotAskedAgain ==
  [][at = "ask" /\ at' = "asked" => result \in {"none", "row"}]_loopVars

\* A loop ends, and GetSingularRow() returns, if the policy counts failures.
LoopEnds == policy = "count" ~> at \in {"done", "left"}
=============================================================================
