-------------------------- MODULE PartialResultSet --------------------------
(***************************************************************************)
(* The rows of a streaming read or query: PartialResultSetSource, which    *)
(* assembles rows from partial result sets, on top of                      *)
(* PartialResultSetResume, which replaces a broken stream by one that      *)
(* starts at the last resume token (google/cloud/spanner/internal).        *)
(*                                                                         *)
(* The service may cut the result into messages at any point, inside a     *)
(* value too, and may break the stream before any message.  A value is the *)
(* sequence of the pieces it was sent in, and a piece is its position in   *)
(* the result, so that rows show what they were made of.                   *)
(***************************************************************************)
EXTENDS Integers, Sequences, FiniteSets

CONSTANTS
  Stream,               \* the result: the value each piece belongs to
  NumColumns,           \* columns of a row
  Policies,             \* retry policies: they limit the "count" of failures
                        \* or the "time"
  MaxFailures,          \* maximum_failures of the former
  TokenOnEveryMessage   \* whether every message has a resume token

NumPieces == Len(Stream)
NumValues == IF NumPieces = 0 THEN 0 ELSE Stream[NumPieces]

\* The values come in order, and each one has at least one piece.
ASSUME StreamAssumption ==
  /\ NumColumns \in Nat \ {0} /\ MaxFailures \in Nat
  /\ Policies \subseteq {"count", "time"}
  /\ TokenOnEveryMessage \in BOOLEAN
  /\ Stream \in Seq(Nat \ {0})
  /\ \A p, q \in 1 .. NumPieces : p <= q => Stream[p] <= Stream[q]
  /\ \A v \in 1 .. NumValues : \E p \in 1 .. NumPieces : Stream[p] = v
  /\ NumValues % NumColumns = 0

VARIABLES
  (* The stream of child_, and PartialResultSetResume. *)
  pos,                  \* pieces of the result the stream has passed
  child_,               \* "open", or the status it ended with
  last_resume_token_,   \* a position; the empty token is position 0
  last_status_,         \* "none", or the cached result of Finish()
  policy,               \* the retry policy of the stream
  failures,             \* failures the retry policy has counted
  expired,              \* the deadline of a time-limited policy has passed
  (* PartialResultSetSource. *)
  metadata_,            \* whether it has been received
  buffer_,              \* complete values not yet in a row
  chunk_,               \* the pieces of an incomplete value
  finished_,
  (* The caller. *)
  pc,                   \* create, next: in the loop of Create() or NextRow()
                        \* idle: between calls; over: the source is gone
                        \* stuck: in Finish() of a stream nobody drains
  backoff,              \* asleep before the stream is resumed
  rows,                 \* rows returned so far
  result                \* "row", "end" or "error": what the last call returned

vars == <<pos, child_, last_resume_token_, last_status_, policy, failures,
          expired, metadata_, buffer_, chunk_, finished_, pc, backoff, rows,
          result>>
resumeVars == <<pos, child_, last_resume_token_, last_status_, policy, failures>>
sourceVars == <<metadata_, buffer_, chunk_, finished_>>

Statuses == {"ok", "transient", "permanent"}
Calls == {"create", "next"}

(***************************************************************************)
(* What the service sends.                                                 *)
(***************************************************************************)
Pieces(a, b) == [i \in 1 .. (b - a + 1) |-> a + i - 1]

\* The first piece of value v comes after those of the values before it.
FirstPiece(v) == Cardinality({p \in 1 .. NumPieces : Stream[p] < v}) + 1
LastPiece(v) == FirstPiece(v + 1) - 1

\* The values of a message with the pieces from a to b, the first and the
\* last of which may be parts of a value.
Values(a, b) ==
  LET value(v) == Pieces(IF FirstPiece(v) < a THEN a ELSE FirstPiece(v),
                         IF LastPiece(v) > b THEN b ELSE LastPiece(v))
  IN  IF b < a THEN <<>>
      ELSE [k \in 1 .. (Stream[b] - Stream[a] + 1) |-> value(Stream[a] + k - 1)]

Chunked(a, b) == a <= b /\ b < NumPieces /\ Stream[b] = Stream[b + 1]

\* The rows of the result.
NumRows == NumValues \div NumColumns
ResultRows ==
  [r \in 1 .. NumRows |->
     [k \in 1 .. NumColumns |-> Values(1, NumPieces)[(r - 1) * NumColumns + k]]]

(***************************************************************************)
(* The retry policy.                                                       *)
(***************************************************************************)
IsExhausted == IF policy = "count" THEN failures > MaxFailures ELSE expired

\* OnFailure() counts a transient failure and tells whether to go on.
OnFailure(status) ==
  /\ status = "transient"
  /\ IF policy = "count" THEN failures + 1 <= MaxFailures ELSE ~expired

Init ==
  /\ pos = 0 /\ child_ = "open"
  /\ last_resume_token_ = 0 /\ last_status_ = "none"
  /\ policy \in Policies /\ failures = 0 /\ expired = FALSE
  /\ metadata_ = FALSE /\ buffer_ = <<>> /\ chunk_ = <<>> /\ finished_ = FALSE
  /\ pc = "create" /\ backoff = FALSE
  /\ rows = <<>> /\ result = "none"

(***************************************************************************)
(* PartialResultSetSource: what becomes of a message, and of the end.      *)
(***************************************************************************)
\* A call returns; Create() does not return a source when it fails.
Return(res) ==
  /\ result' = res
  /\ pc' = IF pc = "create" /\ res = "error" THEN "over" ELSE "idle"

\* ReadFromStream() with the values of a message.
Receive(values, chunked) ==
  LET merged == IF chunk_ = <<>> \/ values = <<>> THEN values
                ELSE [values EXCEPT ![1] = chunk_ \o @]
      n == Len(merged)
  IN  \/ /\ chunk_ # <<>> /\ values = <<>>      \* nothing to merge with
         /\ Return("error")
         /\ UNCHANGED <<buffer_, chunk_, rows>>
      \/ /\ chunk_ = <<>> \/ values # <<>>
         /\ buffer_' = buffer_ \o (IF chunked THEN SubSeq(merged, 1, n - 1)
                                              ELSE merged)
         /\ chunk_' = IF chunked THEN merged[n] ELSE <<>>
         /\ IF pc = "create" THEN Return("none") ELSE UNCHANGED <<pc, result>>
         /\ UNCHANGED rows

\* Mutant: a transient failure that is not retried passes for the end.
IsError_OnlyPermanent(status) == status = "permanent"

IsError(status) == status # "ok"

\* The reader has no more messages and its status is known: Create() wants
\* metadata, NextRow() wants no leftovers.
EndOfStream(status) ==
  /\ finished_' = TRUE
  /\ Return(IF \/ IsError(status)
               \/ pc = "create" /\ ~metadata_
               \/ pc = "next" /\ (chunk_ # <<>> \/ buffer_ # <<>>)
            THEN "error"
            ELSE IF pc = "create" THEN "none" ELSE "end")
  /\ UNCHANGED <<metadata_, buffer_, chunk_, rows>>

(***************************************************************************)
(* PartialResultSetResume::Read(), one iteration at a time.                *)
(***************************************************************************)
\* NextRow() needs more values.
WantsMessage == \/ pc = "create"
                \/ pc = "next" /\ Len(buffer_) < NumColumns

\* Mutant: the token is not saved.
ResumeToken_NeverSaved(token) == 0

\* The token to resume from: that of the last message, be it empty.
ResumeToken(token) == token

\* child_->Read() returns the next n pieces; the first message has metadata
\* and may have nothing else.
ReadMessage(n, has_token) ==
  /\ WantsMessage /\ ~backoff /\ child_ = "open"
  /\ pos + n <= NumPieces
  /\ n = 0 => pos = 0 /\ (~metadata_ \/ chunk_ # <<>>)
  /\ TokenOnEveryMessage => has_token
  /\ last_resume_token_' = ResumeToken(IF has_token THEN pos + n ELSE 0)
  /\ pos' = pos + n
  /\ metadata_' = (metadata_ \/ pos = 0)
  /\ Receive(Values(pos + 1, pos + n), Chunked(pos + 1, pos + n))
  /\ UNCHANGED <<child_, last_status_, policy, failures, expired, finished_,
                 backoff>>

\* child_->Read() returns nothing, and Finish() tells why: the whole result
\* has been sent, or the stream broke.  ConnectionImpl makes every stream
\* kIdempotent, so the retry policy decides.
ReadEnds(status) ==
  /\ WantsMessage /\ ~backoff /\ child_ = "open"
  /\ status = "ok" => pos = NumPieces
  /\ child_' = status
  /\ last_status_' = status
  /\ failures' = IF policy = "count" /\ status = "transient" THEN failures + 1
                                                            ELSE failures
  /\ \/ /\ OnFailure(status)
        /\ backoff' = TRUE
        /\ UNCHANGED <<sourceVars, pc, rows, result>>
     \/ /\ ~OnFailure(status)
        /\ EndOfStream(status)
        /\ UNCHANGED backoff
  /\ UNCHANGED <<pos, last_resume_token_, policy, expired>>

\* Mutant: every new stream gets a policy of its own.
FailuresOnResume_Fresh == 0

\* One policy object serves all the streams of a result.
FailuresOnResume == failures

\* After the backoff a new stream replaces the broken one.  When the policy
\* has become exhausted meanwhile, Read() returns without a look at the new
\* stream, and PartialResultSetSource calls Finish() on it: gRPC reports the
\* status of a stream that has failed or has nothing to read, and may block
\* for ever on one that has.
Resume ==
  /\ backoff
  /\ backoff' = FALSE
  /\ pos' = last_resume_token_
  /\ \/ /\ ~IsExhausted
        /\ child_' = "open" /\ last_status_' = "none"
        /\ UNCHANGED <<sourceVars, pc, rows, result>>
     \/ /\ IsExhausted /\ pos' < NumPieces
        /\ child_' = "open" /\ last_status_' = "none"
        /\ finished_' = TRUE /\ pc' = "stuck"
        /\ UNCHANGED <<metadata_, buffer_, chunk_, rows, result>>
     \/ /\ IsExhausted
        /\ \E status \in Statuses :
             /\ status = "ok" => pos' = NumPieces
             /\ child_' = status /\ last_status_' = status
             /\ EndOfStream(status)
  /\ failures' = FailuresOnResume
  /\ UNCHANGED <<last_resume_token_, policy, expired>>

\* The deadline of a time-limited policy passes.
Expire ==
  /\ policy = "time" /\ ~expired
  /\ expired' = TRUE
  /\ UNCHANGED <<resumeVars, sourceVars, pc, backoff, rows, result>>

(***************************************************************************)
(* The caller.                                                             *)
(***************************************************************************)
NextRow ==
  /\ pc = "idle"
  /\ \/ finished_ /\ result' = "end" /\ UNCHANGED pc
     \/ ~finished_ /\ pc' = "next" /\ UNCHANGED result
  /\ UNCHANGED <<resumeVars, sourceVars, expired, backoff, rows>>

\* NextRow() has the values of a row.
ReturnRow ==
  /\ pc = "next" /\ ~backoff /\ Len(buffer_) >= NumColumns
  /\ rows' = Append(rows, SubSeq(buffer_, 1, NumColumns))
  /\ buffer_' = SubSeq(buffer_, NumColumns + 1, Len(buffer_))
  /\ Return("row")
  /\ UNCHANGED <<resumeVars, expired, metadata_, chunk_, finished_, backoff>>

\* The destructor: an unfinished stream is cancelled, then finished.
Destroy ==
  /\ pc = "idle"
  /\ pc' = "over"
  /\ child_' = IF finished_ THEN child_ ELSE "permanent"
  /\ UNCHANGED <<pos, last_resume_token_, last_status_, policy, failures,
                 sourceVars, expired, backoff, rows, result>>

Next ==
  \/ \E n \in 0 .. NumPieces, has_token \in BOOLEAN : ReadMessage(n, has_token)
  \/ \E status \in Statuses : ReadEnds(status)
  \/ Resume \/ Expire \/ NextRow \/ ReturnRow \/ Destroy

\* The service answers every read, the backoff ends, the caller's thread runs.
Fairness ==
  /\ WF_vars(\/ \E n \in 0 .. NumPieces, has_token \in BOOLEAN :
                  ReadMessage(n, has_token)
             \/ \E status \in Statuses : ReadEnds(status))
  /\ WF_vars(Resume) /\ WF_vars(ReturnRow)

Spec == Init /\ [][Next]_vars /\ Fairness

(***************************************************************************)
(* Properties.                                                             *)
(***************************************************************************)
\* However the service cuts the result into messages and wherever the stream
\* breaks, NextRow() returns the rows of the result in order, each one once
\* and made of its own pieces (partial_result_set_resume.h: "resumes the
\* streaming RPC on retryable errors").
RowsInOrder ==
  /\ Len(rows) <= NumRows
  /\ rows = SubSeq(ResultRows, 1, Len(rows))

\* NextRow() announces the end of the rows only when it has returned all of
\* them; a stream that breaks for good ends in an error.
EndIsHonest ==
  [][pc = "next" /\ pc' = "idle" /\ result' = "end" => rows = ResultRows]_vars

\* With a retry policy that counts failures, Create() and NextRow() return:
\* each stream can break again and again, but all count against one policy.
CountedCallsReturn ==
  pc \in Calls /\ policy = "count" ~> pc \in {"idle", "over"}
=============================================================================
