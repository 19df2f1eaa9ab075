----------------------------- MODULE RetryLoop -----------------------------
(***************************************************************************)
(* Statuses, the classification that decides whether to try again, and     *)
(* what is common to the retry loops (retry_policy.h, status_utils.cc,     *)
(* retry_loop.h).                                                          *)
(*                                                                         *)
(* A status is its code and the phrases that can be found in its message.  *)
(* A policy counts failures: the number a loop has had so far is a         *)
(* variable of the module that runs the loop.                              *)
(***************************************************************************)
EXTENDS Naturals

MakeStatus(code, phrases) == [code |-> code, message |-> phrases]

OkStatus        == MakeStatus("kOk", {})
Unavailable     == MakeStatus("kUnavailable", {})
Aborted         == MakeStatus("kAborted", {})
SessionNotFound == MakeStatus("kNotFound", {"Session not found"})
NotFound        == MakeStatus("kNotFound", {})
InvalidArgument == MakeStatus("kInvalidArgument", {})

IsOk(status) == status.code = "kOk"

IsSessionNotFound(status) ==
  /\ status.code = "kNotFound"
  /\ "Session not found" \in status.message

\* SafeGrpcRetry: which failures of an RPC are worth another try.
IsRetryable(status) == status.code \in {"kUnavailable", "kResourceExhausted"}

\* Neither a success nor worth another try.
IsPermanentFailure(status) == ~IsOk(status) /\ ~IsRetryable(status)

\* SafeTransactionRerun: which failures end an attempt but not the loop.
IsRerunnable(status) == status.code = "kAborted" \/ IsSessionNotFound(status)

\* Mutant: one failure too many is tolerated.
OnFailure_OffByOne(permanent, failures, maximum) ==
  ~permanent /\ failures <= maximum

\* RetryPolicy::OnFailure(): a permanent failure ends the loop, and so does
\* one failure more than the policy tolerates.
OnFailure(permanent, failures, maximum) == ~permanent /\ failures < maximum

\* Mutant: the error says what happened only in its text.
RetryLoopError_NoCode(loop_message, last_status) ==
  MakeStatus("kOk", last_status.message \cup {loop_message})

\* The error of a loop has the code of the last error and quotes its text
\* after a phrase of its own.
RetryLoopError(loop_message, last_status) ==
  MakeStatus(last_status.code, last_status.message \cup {loop_message})

\* Why RetryLoop() gave up: the operation may not be repeated, the error is
\* permanent, or the policy is exhausted.
LoopMessage(is_idempotent, last_status) ==
  CASE ~is_idempotent -> "Error in non-idempotent operation"
    [] is_idempotent /\ IsPermanentFailure(last_status) -> "Permanent error in"
    [] OTHER -> "Retry policy exhausted in"

\* One failed call in RetryLoop(): is it made again?
CallsAgain(is_idempotent, last_status, failures, maximum) ==
  is_idempotent /\ OnFailure(IsPermanentFailure(last_status), failures, maximum)

\* What RetryLoop() returns when it does not call again.
LoopResult(is_idempotent, last_status) ==
  RetryLoopError(LoopMessage(is_idempotent, last_status), last_status)
=============================================================================
