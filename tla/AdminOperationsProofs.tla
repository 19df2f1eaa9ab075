----------------------- MODULE AdminOperationsProofs -----------------------
(***************************************************************************)
(* Theorems about AdminOperations: types, that a request which is not      *)
(* idempotent is executed at most once, and that the read-modify-write     *)
(* loop of SetIamPolicy() loses no update, for any number of callers and   *)
(* any policies.                                                           *)
(***************************************************************************)
EXTENDS AdminOperations, TLAPS

(***************************************************************************)
(* Lemmas about the tables of methods, statuses and failed tries.          *)
(***************************************************************************)
\* No list is among the methods that RetryLoop() may not repeat, so each of
\* them sends one request that can succeed, and no page is an operation.
LEMMA MethodKinds ==
  /\ NonIdempotent \cap Lists = {} /\ LongRunning \cap Lists = {}
  /\ "SetIamPolicyUpdater" \notin NonIdempotent
  /\ "SetIamPolicyUpdater" \notin LongRunning \cup Lists
  /\ Awaited = LongRunning
  /\ \A m \in NonIdempotent : ~IsIdempotent(m)
  BY DEF NonIdempotent, Lists, LongRunning, OfKind, DatabaseMethods,
         BackupMethods, OperationMethods, IamMethods, InstanceMethods, Awaited,
         AwaitDatabase, AwaitUpdateDatabase, AwaitCreateBackup,
         AwaitCreateOrUpdateInstance, IsIdempotent

\* The errors of RPCs; RetryLoop() makes an error of the same code of them.
IsRpcError(st) == st.code \in {"kUnavailable", "kInvalidArgument", "kAborted"}

LEMMA LoopResultIsError ==
  ASSUME NEW st \in {Unavailable, InvalidArgument, Aborted}, NEW b
  PROVE  IsRpcError(LoopResult(b, st)) /\ IsRpcError(st)
<1>1. LoopResult(b, st).code = st.code
  BY DEF LoopResult, RetryLoopError, MakeStatus
<1> QED
  BY <1>1 DEF Unavailable, InvalidArgument, Aborted, MakeStatus, IsRpcError

\* The statuses that a call can end with are told apart by their codes.
LEMMA Codes ==
  /\ OkStatus.code = "kOk" /\ Pending.code = "pending"
  /\ DeadlineExceeded.code = "kDeadlineExceeded"
  /\ OperationFailed.code = "kFailedPrecondition"
  /\ Cancelled.code = "kCancelled" /\ NoResult.code = "kInternal"
  BY DEF OkStatus, OperationFailed, Cancelled, NoResult, Pending,
         DeadlineExceeded, MakeStatus

LEMMA RpcErrorIsNoResult ==
  ASSUME NEW st, IsRpcError(st)
  PROVE  ~IsOk(st) /\ st \notin {OperationFailed, Cancelled, NoResult, Pending}
  BY Codes DEF IsRpcError, IsOk

LEMMA DistinctResults ==
  /\ IsOk(OkStatus) /\ ~IsOk(Pending) /\ ~IsOk(DeadlineExceeded)
  /\ OkStatus \notin {OperationFailed, Cancelled, NoResult, Pending}
  /\ DeadlineExceeded \notin {OperationFailed, Cancelled, NoResult, Pending}
  BY Codes DEF IsOk

\* Where a caller goes, and how it ends.
LEMMA Moves ==
  ASSUME TypeOK, NEW c \in Callers, NEW p \in Places, Goto(c, p)
  PROVE  /\ pc' \in [Callers -> Places] /\ pc'[c] = p
         /\ \A d \in Callers : d # c => pc'[d] = pc[d]
  BY DEF Goto, TypeOK, Places

LEMMA Finishes ==
  ASSUME TypeOK, NEW c \in Callers, NEW st, Finish(c, st)
  PROVE  /\ pc' \in [Callers -> Places] /\ pc'[c] = "done"
         /\ DOMAIN result' = Callers /\ result'[c] = st
         /\ \A d \in Callers : d # c => pc'[d] = pc[d] /\ result'[d] = result[d]
  BY Moves DEF Finish, TypeOK, Places

\* What a failed try does: it is repeated, or the loop returns an error, to
\* the caller or to the IAM loop, which ends or reads the policy again.
TryOutcome(c) ==
  /\ pc' \in [Callers -> Places]
  /\ failures' \in [Callers -> 0 .. MaxFailures]
  /\ reruns' \in [Callers -> 0 .. MaxReruns]
  /\ DOMAIN result' = Callers
  /\ \A d \in Callers : d # c =>
       /\ pc'[d] = pc[d] /\ failures'[d] = failures[d]
       /\ result'[d] = result[d]
  /\ \/ pc'[c] = "done" /\ ~IsOk(result'[c]) /\ IsRpcError(result'[c])
     \/ pc'[c] = "get" /\ pc[c] # "call" /\ result'[c] = result[c]
     \/ /\ pc'[c] = pc[c] /\ result'[c] = result[c]
        /\ failures'[c] = failures[c] + 1

LEMMA FailedTry ==
  ASSUME TypeOK, NEW c \in Callers,
         NEW st \in {Unavailable, InvalidArgument, Aborted},
         NEW b \in BOOLEAN, TryFails(c, st, b),
         pc[c] \in {"call", "get", "set"}
  PROVE  /\ TryOutcome(c)
         /\ pc[c] = "call" /\ ~b => pc'[c] = "done"
<1>1. ~IsOk(LoopResult(b, st)) /\ IsRpcError(LoopResult(b, st))
  BY LoopResultIsError, RpcErrorIsNoResult
<1>2. CASE CallsAgain(b, st, failures[c], MaxFailures)
  <2>1. b /\ failures[c] < MaxFailures
    BY <1>2, Zenon DEF CallsAgain, OnFailure
  <2>2. /\ failures' = [failures EXCEPT ![c] = @ + 1]
        /\ UNCHANGED <<pc, result, reruns>>
    BY <1>2, Zenon DEF TryFails
  <2>3. TryOutcome(c)
    BY <2>1, <2>2, AdminAssumption DEF TypeOK, TryOutcome
  <2> QED
    BY <2>1, <2>3, Zenon
<1>3. CASE ~CallsAgain(b, st, failures[c], MaxFailures)
  <2>1. /\ failures' = [failures EXCEPT ![c] = 0]
        /\ \/ Finish(c, LoopResult(b, st)) /\ UNCHANGED reruns
           \/ /\ pc[c] # "call" /\ reruns[c] < MaxReruns
              /\ reruns' = [reruns EXCEPT ![c] = @ + 1]
              /\ Goto(c, "get") /\ UNCHANGED result
    BY <1>3, Zenon DEF TryFails, OnFailure
  <2>2. ASSUME NEW r, ~IsOk(r), IsRpcError(r), Finish(c, r), UNCHANGED reruns
        PROVE  TryOutcome(c) /\ pc'[c] = "done"
    BY <2>1, <2>2, Finishes, AdminAssumption DEF TypeOK, TryOutcome
  <2>3. ASSUME pc[c] # "call", reruns[c] < MaxReruns,
               reruns' = [reruns EXCEPT ![c] = @ + 1],
               Goto(c, "get"), UNCHANGED result
        PROVE  TryOutcome(c)
    BY <2>1, <2>3, Moves, AdminAssumption DEF TypeOK, TryOutcome, Places
  <2> QED
    BY <1>1, <2>1, <2>2, <2>3, Zenon
<1> QED
  BY <1>2, <1>3, Zenon

(***************************************************************************)
(* Types, and how often a request is executed.                             *)
(***************************************************************************)
\* A request that starts an operation has been executed no more often than
\* the retry policy has counted failures, so that each execution has a number.
Numbered ==
  \A c \in Callers :
    method[c] \in LongRunning /\ pc[c] \in {"start", "call"}
      => executed[c] <= failures[c]

\* A range asks for a page only while there is one left.
Listing ==
  \A c \in Callers :
    method[c] \in Lists /\ pc[c] \in {"start", "call"} => listed[c] < NumPages

\* A request that is not idempotent has not been executed while its caller can
\* still send it.
Unsent ==
  \A c \in Callers :
    method[c] \in NonIdempotent /\ pc[c] \in {"start", "call"} => executed[c] = 0

\* A thread polls an operation that was started.
Started ==
  \A c \in Callers :
    pc[c] \in {"await", "polling"} => operation[c].name \in Executions

ExecutionInv ==
  TypeOK /\ Numbered /\ Listing /\ Unsent /\ Started /\ AtMostOneExecution

LEMMA ExecutionInit == Init => ExecutionInv
<1> SUFFICES ASSUME Init PROVE ExecutionInv
  OBVIOUS
<1>1. pc \in [Callers -> Places]
  BY DEF Init, Places
<1>2. /\ operation \in [Callers -> [name : {0} \cup Executions, is : LroStates]]
      /\ lro \in [Callers -> [Executions -> LroStates]]
  BY DEF Init, LroStates
<1>3. current \in [Callers -> Policies]
  BY DEF Init, Policies, NoEtag
<1>4. TypeOK
  BY <1>1, <1>2, <1>3, AdminAssumption, AssignmentsAssumption
     DEF Init, TypeOK, NoEtag
<1> QED
  BY <1>4, AdminAssumption
     DEF Init, ExecutionInv, Numbered, Listing, Unsent, Started,
         AtMostOneExecution

\* The service executes a request of a call that is still allowed to be sent.
LEMMA ExecutesOnce ==
  ASSUME ExecutionInv, NEW c \in Callers, pc[c] = "call", Executes(c)
  PROVE  /\ executed' \in [Callers -> Nat]
         /\ lro' \in [Callers -> [Executions -> LroStates]]
         /\ executed'[c] = executed[c] + 1
         /\ \A d \in Callers : d # c => executed'[d] = executed[d]
         /\ method[c] \in LongRunning => executed'[c] \in Executions
<1>1. executed \in [Callers -> Nat] /\ executed' = [executed EXCEPT ![c] = @ + 1]
  BY DEF ExecutionInv, TypeOK, Executes
<1>2. method[c] \in LongRunning => executed[c] + 1 \in Executions
  BY <1>1, AdminAssumption DEF ExecutionInv, TypeOK, Numbered, Executions
<1>3. lro' \in [Callers -> [Executions -> LroStates]]
  <2>1. lro \in [Callers -> [Executions -> LroStates]]
    BY DEF ExecutionInv, TypeOK
  <2>2. CASE UNCHANGED lro
    BY <2>1, <2>2
  <2>3. ASSUME NEW o \in LroStates, NEW k, lro' = [lro EXCEPT ![c][k] = o]
        PROVE  lro' \in [Callers -> [Executions -> LroStates]]
    BY <2>1, <2>3
  <2> QED
    BY <2>2, <2>3 DEF Executes
<1>4. executed'[c] = executed[c] + 1 /\ executed' \in [Callers -> Nat]
  BY <1>1
<1> QED
  BY <1>1, <1>2, <1>3, <1>4

\* A step of caller c keeps the invariant if it keeps the types, leaves the
\* other callers alone, and c is still within its bounds or has left the loop.
LEMMA StepOfCaller ==
  ASSUME ExecutionInv, TypeOK', NEW c \in Callers, UNCHANGED method,
         \A d \in Callers : d # c =>
           /\ pc'[d] = pc[d] /\ executed'[d] = executed[d]
           /\ failures'[d] = failures[d] /\ listed'[d] = listed[d]
           /\ operation'[d] = operation[d],
         pc'[c] \in {"await", "polling"} => operation'[c].name \in Executions,
         pc'[c] \in {"start", "call"} =>
           /\ method[c] \in LongRunning => executed'[c] <= failures'[c]
           /\ method[c] \in Lists => listed'[c] < NumPages
           /\ method[c] \in NonIdempotent => executed'[c] = 0,
         method[c] \in NonIdempotent => executed'[c] <= 1
  PROVE  ExecutionInv'
  BY DEF ExecutionInv, Numbered, Listing, Unsent, Started, AtMostOneExecution

\* The same for a step after which c is not in RetryLoop(), or is there as it
\* was, and which executes nothing.
LEMMA StepOutside ==
  ASSUME ExecutionInv, TypeOK', NEW c \in Callers,
         UNCHANGED <<method, executed, listed>>,
         \A d \in Callers : d # c =>
           pc'[d] = pc[d] /\ failures'[d] = failures[d] /\ operation'[d] = operation[d],
         pc'[c] \notin {"start", "call"},
         pc'[c] \in {"await", "polling"} => operation'[c].name \in Executions
  PROVE  ExecutionInv'
  BY StepOfCaller DEF ExecutionInv, AtMostOneExecution

LEMMA ExecutionStep ==
  ASSUME ExecutionInv, [Next]_vars
  PROVE  ExecutionInv'
<1> USE AdminAssumption
<1>1. CASE UNCHANGED vars
  <2>1. TypeOK'
    BY <1>1 DEF vars, clientVars, serviceVars, ExecutionInv, TypeOK
  <2> QED
    BY <1>1, <2>1 DEF vars, clientVars, serviceVars, ExecutionInv, Numbered,
                      Listing, Unsent, Started, AtMostOneExecution
<1>2. ASSUME NEW c \in Callers, OperationEnds(c) \/ Cancel(c)
      PROVE  ExecutionInv'
  <2>1. lro' \in [Callers -> [Executions -> LroStates]]
    <3>1. lro \in [Callers -> [Executions -> LroStates]]
      BY DEF ExecutionInv, TypeOK
    <3>2. PICK k : \E o \in LroStates : lro' = [lro EXCEPT ![c][k] = o]
      BY <1>2 DEF OperationEnds, Cancel, LroStates
    <3>3. PICK o \in LroStates : lro' = [lro EXCEPT ![c][k] = o]
      BY <3>2
    <3> QED
      BY <3>1, <3>3
  <2>2. UNCHANGED <<method, clientVars, executed, bindings, etag>>
    BY <1>2 DEF OperationEnds, Cancel
  <2>3. TypeOK'
    BY <2>1, <2>2 DEF clientVars, ExecutionInv, TypeOK
  <2> QED
    BY <2>2, <2>3 DEF clientVars, ExecutionInv, Numbered, Listing, Unsent,
                      Started, AtMostOneExecution
<1>3. ASSUME NEW c \in Callers, ClientStep(c)
      PROVE  ExecutionInv'
  <2>0. TypeOK
    BY DEF ExecutionInv
  <2>1. CASE Start(c)
    <3>1. /\ pc'[c] \in {"get", "call"} /\ pc' \in [Callers -> Places]
          /\ \A d \in Callers : d # c => pc'[d] = pc[d]
      BY <2>0, <2>1, Moves DEF Start, Places
    <3>2. TypeOK'
      BY <2>0, <2>1, <3>1 DEF Start, serviceVars, TypeOK
    <3> QED
      BY <2>1, <3>1, <3>2, StepOfCaller
         DEF Start, serviceVars, ExecutionInv, Numbered, Listing, Unsent,
             AtMostOneExecution
  <2>2. CASE CallRefused(c)
    <3>1. TryOutcome(c) /\ (~IsIdempotent(method[c]) => pc'[c] = "done")
      <4>1. PICK st \in {Unavailable, InvalidArgument} :
              TryFails(c, st, IsIdempotent(method[c]))
        BY <2>2, Zenon DEF CallRefused
      <4> QED
        BY <2>0, <2>2, <4>1, FailedTry, Zenon DEF CallRefused, IsIdempotent
    <3>2. TypeOK'
      BY <2>0, <2>2, <3>1 DEF CallRefused, TryOutcome, serviceVars, TypeOK
    <3>3. executed[c] <= failures[c] => pc'[c] # "call" \/ executed[c] <= failures'[c]
      BY <2>0, <2>2, <3>1 DEF CallRefused, TryOutcome, TypeOK
    <3> QED
      BY <2>2, <3>1, <3>2, <3>3, StepOfCaller, MethodKinds
         DEF CallRefused, TryOutcome, serviceVars, ExecutionInv, Numbered,
             Listing, Unsent, AtMostOneExecution
  <2>3. CASE CallAnswerLost(c)
    <3>1. TryOutcome(c) /\ (~IsIdempotent(method[c]) => pc'[c] = "done")
      BY <2>0, <2>3, FailedTry, Zenon DEF CallAnswerLost, IsIdempotent
    <3>2. TypeOK'
      BY <2>0, <2>3, <3>1, ExecutesOnce DEF CallAnswerLost, TryOutcome, TypeOK
    <3>3. executed[c] <= failures[c] => pc'[c] # "call" \/ executed'[c] <= failures'[c]
      BY <2>0, <2>3, <3>1, ExecutesOnce DEF CallAnswerLost, TryOutcome, TypeOK
    <3>4. executed[c] = 0 => executed'[c] <= 1
      BY <2>3, ExecutesOnce DEF CallAnswerLost
    <3> QED
      BY <2>3, <3>1, <3>2, <3>3, <3>4, ExecutesOnce, StepOfCaller, MethodKinds
         DEF CallAnswerLost, TryOutcome, ExecutionInv, Numbered, Listing, Unsent
  <2>4. CASE CallSucceeds(c)
    <3>1. TypeOK'
      BY <2>0, <2>4, Finishes, ExecutesOnce DEF CallSucceeds, TypeOK
    <3>2. executed[c] = 0 => executed'[c] <= 1
      BY <2>4, ExecutesOnce DEF CallSucceeds
    <3> QED
      BY <2>0, <2>4, <3>1, <3>2, Finishes, ExecutesOnce, StepOfCaller
         DEF CallSucceeds, ExecutionInv, Unsent
  <2>5. CASE PageSucceeds(c)
    <3>1. TypeOK'
      BY <2>0, <2>5, Finishes, ExecutesOnce
         DEF PageSucceeds, TypeOK, ExecutionInv, Listing
    <3>2. /\ pc'[c] = "done" \/ (pc'[c] = "call" /\ listed'[c] < NumPages)
          /\ \A d \in Callers : d # c =>
               /\ pc'[d] = pc[d] /\ failures'[d] = failures[d]
               /\ listed'[d] = listed[d]
      BY <2>0, <2>5, Finishes DEF PageSucceeds, TypeOK
    <3> QED
      BY <2>5, <3>1, <3>2, ExecutesOnce, StepOfCaller, MethodKinds
         DEF PageSucceeds
  <2>6. CASE StartSucceeds(c)
    <3>1. TypeOK'
      BY <2>0, <2>6, Moves, ExecutesOnce, MethodKinds
         DEF StartSucceeds, Places, TypeOK
    <3>2. executed[c] = 0 => executed'[c] <= 1
      BY <2>6, ExecutesOnce DEF StartSucceeds
    <3>3. /\ pc'[c] = "await"
          /\ \A d \in Callers : d # c => pc'[d] = pc[d] /\ failures'[d] = failures[d]
      BY <2>0, <2>6, Moves DEF StartSucceeds, Places, TypeOK
    <3>4. /\ operation'[c].name = executed'[c]
          /\ \A d \in Callers : d # c => operation'[d] = operation[d]
      BY <2>0, <2>6, ExecutesOnce DEF StartSucceeds, TypeOK
    <3>5. operation'[c].name \in Executions
      BY <2>6, <3>4, ExecutesOnce, MethodKinds DEF StartSucceeds
    <3> QED
      BY <2>6, <3>1, <3>2, <3>3, <3>4, <3>5, ExecutesOnce, StepOfCaller
         DEF StartSucceeds, ExecutionInv, Unsent
  <2>7. CASE AwaitEnds(c) \/ AwaitSleeps(c)
    <3>1. TypeOK'
      BY <2>0, <2>7, Moves, Finishes
         DEF AwaitEnds, AwaitSleeps, Places, serviceVars, TypeOK
    <3> QED
      BY <2>0, <2>7, <3>1, Moves, Finishes, StepOutside
         DEF AwaitEnds, AwaitSleeps, Places, serviceVars, ExecutionInv, Started
  <2>8. CASE PollFindsDone(c)
    <3>1. operation' \in [Callers -> [name : {0} \cup Executions, is : LroStates]]
      <4>1. PICK o : /\ IsDone(o)
                     /\ operation' = [operation EXCEPT ![c].is = o]
                     /\ o = lro[c][operation[c].name]
        BY <2>8 DEF PollFindsDone
      <4>2. operation[c].name \in Executions
        BY <2>8 DEF PollFindsDone, ExecutionInv, Started
      <4>3. o \in LroStates
        BY <2>0, <4>1, <4>2 DEF TypeOK
      <4> QED
        BY <2>0, <4>1, <4>3 DEF TypeOK
    <3>2. TypeOK'
      BY <2>0, <2>8, <3>1, Moves DEF PollFindsDone, Places, serviceVars, TypeOK
    <3>3. /\ operation'[c].name = operation[c].name
          /\ \A d \in Callers : d # c => operation'[d] = operation[d]
      BY <2>0, <2>8 DEF PollFindsDone, TypeOK
    <3> QED
      BY <2>0, <2>8, <3>2, <3>3, Moves, StepOutside
         DEF PollFindsDone, Places, serviceVars, ExecutionInv, Started
  <2>9. CASE PollFindsNothing(c)
    <3>1. TypeOK'
      BY <2>0, <2>9, Moves, Finishes
         DEF PollFindsNothing, PollsAgain, OnFailure, CountPoll, Places,
             serviceVars, TypeOK
    <3>2. /\ pc'[c] \in {"await", "done"}
          /\ \A d \in Callers : d # c => pc'[d] = pc[d]
      BY <2>0, <2>9, Moves, Finishes DEF PollFindsNothing, Places
    <3> QED
      BY <2>9, <3>1, <3>2, StepOutside
         DEF PollFindsNothing, serviceVars, ExecutionInv, Started
  <2>10. CASE GetFails(c)
    <3>1. TryOutcome(c)
      <4>1. PICK st \in {Unavailable, InvalidArgument, Aborted} : TryFails(c, st, TRUE)
        BY <2>10, Zenon DEF GetFails
      <4> QED
        BY <2>0, <2>10, <4>1, FailedTry, Zenon DEF GetFails
    <3>2. TypeOK'
      BY <2>0, <2>10, <3>1 DEF GetFails, TryOutcome, serviceVars, TypeOK
    <3> QED
      BY <2>10, <3>1, <3>2, StepOutside DEF GetFails, TryOutcome, serviceVars
  <2>11. CASE GetSucceeds(c)
    <3>1. TypeOK'
      BY <2>0, <2>11, Moves DEF GetSucceeds, Places, Policies, serviceVars, TypeOK
    <3> QED
      BY <2>0, <2>11, <3>1, Moves, StepOutside
         DEF GetSucceeds, Places, serviceVars, TypeOK
  <2>12. CASE UpdaterDeclines(c)
    <3>1. TypeOK'
      BY <2>0, <2>12, Finishes DEF UpdaterDeclines, serviceVars, TypeOK
    <3> QED
      BY <2>0, <2>12, <3>1, Finishes, StepOutside DEF UpdaterDeclines, serviceVars
  <2>13. CASE UpdaterChanges(c)
    <3>1. current' \in [Callers -> Policies]
      <4>1. current[c].bindings[c] + 1 \in Nat
        BY <2>0 DEF TypeOK, Policies
      <4>2. PICK n \in Nat : current' = [current EXCEPT ![c].bindings[c] = n]
        BY <2>13, <4>1 DEF UpdaterChanges
      <4> QED
        BY <2>0, <4>2 DEF TypeOK, Policies
    <3>2. TypeOK'
      BY <2>0, <2>13, <3>1, Moves DEF UpdaterChanges, Places, serviceVars, TypeOK
    <3> QED
      BY <2>0, <2>13, <3>2, Moves, StepOutside
         DEF UpdaterChanges, Places, serviceVars
  <2>14. CASE SetRefused(c)
    <3>1. TryOutcome(c)
      <4>1. PICK st \in {Unavailable, InvalidArgument, Aborted} :
              TryFails(c, st, SentEtag(c) # NoEtag)
        BY <2>14, Zenon DEF SetRefused
      <4> QED
        BY <2>0, <2>14, <4>1, FailedTry, Zenon DEF SetRefused
    <3>2. TypeOK'
      BY <2>0, <2>14, <3>1 DEF SetRefused, TryOutcome, serviceVars, TypeOK
    <3> QED
      BY <2>14, <3>1, <3>2, StepOutside DEF SetRefused, TryOutcome, serviceVars
  <2>15. CASE SetAnswerLost(c)
    <3>1. TryOutcome(c)
      BY <2>0, <2>15, FailedTry, Zenon DEF SetAnswerLost
    <3>2. TypeOK'
      BY <2>0, <2>15, <3>1
         DEF SetAnswerLost, Replaces, TryOutcome, Policies, NoEtag, TypeOK
    <3> QED
      BY <2>15, <3>1, <3>2, StepOutside DEF SetAnswerLost, TryOutcome
  <2>16. CASE SetSucceeds(c)
    <3>1. TypeOK'
      BY <2>0, <2>16, Finishes DEF SetSucceeds, Replaces, Policies, NoEtag, TypeOK
    <3> QED
      BY <2>0, <2>16, <3>1, Finishes, StepOutside DEF SetSucceeds
  <2> QED
    BY <1>3, <2>1, <2>2, <2>3, <2>4, <2>5, <2>6, <2>7, <2>8, <2>9, <2>10,
       <2>11, <2>12, <2>13, <2>14, <2>15, <2>16, Zenon DEF ClientStep
<1> QED
  BY <1>1, <1>2, <1>3 DEF Next

\* The inductive invariant: types and the number of executions of a request.
THEOREM ExecutionInvariance == Spec => []ExecutionInv
  BY ExecutionInit, ExecutionStep, PTL DEF Spec

\* The variables keep their types: the policies bound the counters of
\* RetryLoop(), of the reruns and of the polls.
THEOREM AdminTypeCorrect == Spec => []TypeOK
<1>1. ExecutionInv => TypeOK
  BY DEF ExecutionInv
<1> QED
  BY <1>1, ExecutionInvariance, PTL

\* A request that is not idempotent (CreateDatabase(), CreateBackup(), ...) is
\* executed at most once, whatever answers RetryLoop() does not get.
THEOREM AtMostOneExecutionCorrect == Spec => []AtMostOneExecution
<1>1. ExecutionInv => AtMostOneExecution
  BY DEF ExecutionInv
<1> QED
  BY <1>1, ExecutionInvariance, PTL

(***************************************************************************)
(* The read-modify-write loop of SetIamPolicy().                           *)
(***************************************************************************)
\* An updater stays in its loop, and has no result before the end.
InLoop ==
  \A c \in Callers :
    /\ method[c] = "SetIamPolicyUpdater"
         => pc[c] \in {"start", "get", "update", "set", "done"}
    /\ pc[c] # "done" => ~IsOk(result[c])

\* The policy that was read is not from the future, and is contained in the
\* present one.
ReadIsPast ==
  \A c \in Callers : pc[c] = "update" =>
    /\ current[c].etag \in 1 .. etag
    /\ \A d \in Callers : current[c].bindings[d] <= bindings[d]
    /\ current[c].etag = etag => current[c].bindings = bindings

\* A policy to be set contains the one whose etag it carries.
SetIsFuture ==
  \A c \in Callers : pc[c] = "set" =>
    /\ current[c].etag \in 1 .. etag
    /\ current[c].etag = etag
         => \A d \in Callers : bindings[d] <= current[c].bindings[d]

PolicyInv == InLoop /\ ReadIsPast /\ SetIsFuture /\ NoLostUpdate

LEMMA PolicyInit == Init => PolicyInv
  BY DEF Init, PolicyInv, InLoop, ReadIsPast, SetIsFuture, NoLostUpdate, Pending,
         MakeStatus, IsOk

\* A step that leaves the policy alone keeps the invariant if it keeps it for
\* the one caller that moves.
LEMMA PolicyUntouched ==
  ASSUME PolicyInv, NEW c \in Callers, UNCHANGED <<method, bindings, etag>>,
         \A d \in Callers : d # c =>
           pc'[d] = pc[d] /\ result'[d] = result[d] /\ current'[d] = current[d],
         method[c] = "SetIamPolicyUpdater"
           => pc'[c] \in {"start", "get", "update", "set", "done"},
         pc'[c] # "done" => ~IsOk(result'[c]),
         pc'[c] = "update" =>
           /\ current'[c].etag \in 1 .. etag
           /\ \A d \in Callers : current'[c].bindings[d] <= bindings[d]
           /\ current'[c].etag = etag => current'[c].bindings = bindings,
         pc'[c] = "set" =>
           /\ current'[c].etag \in 1 .. etag
           /\ current'[c].etag = etag
                => \A d \in Callers : bindings[d] <= current'[c].bindings[d],
         method[c] = "SetIamPolicyUpdater" /\ IsOk(result'[c]) =>
           \A d \in Callers : current'[c].bindings[d] <= bindings[d]
  PROVE  PolicyInv'
<1>1. InLoop'
  BY DEF PolicyInv, InLoop
<1>2. ReadIsPast'
  BY DEF PolicyInv, ReadIsPast
<1>3. SetIsFuture'
  BY DEF PolicyInv, SetIsFuture
<1>4. NoLostUpdate'
  BY DEF PolicyInv, NoLostUpdate
<1> QED
  BY <1>1, <1>2, <1>3, <1>4 DEF PolicyInv

\* The same for a caller that moves with its copy of the policy unchanged, to
\* a place where nothing is asked of it.
LEMMA PolicyAside ==
  ASSUME PolicyInv, NEW c \in Callers, UNCHANGED <<method, bindings, etag, current>>,
         \A d \in Callers : d # c => pc'[d] = pc[d] /\ result'[d] = result[d],
         method[c] = "SetIamPolicyUpdater"
           => pc'[c] \in {"start", "get", "set", "done"} /\ ~IsOk(result'[c]),
         pc'[c] # "done" => ~IsOk(result'[c]),
         pc'[c] # "update", pc'[c] = "set" => pc[c] = "set"
  PROVE  PolicyInv'
  BY PolicyUntouched DEF PolicyInv, SetIsFuture

\* The service replaces the policy by one that contains it, so that every
\* policy that was contained in it still is.
LEMMA PolicyReplaced ==
  ASSUME TypeOK, PolicyInv, NEW c \in Callers, pc[c] = "set", Matches(c),
         Replaces(c), UNCHANGED <<method, current>>,
         \A d \in Callers : d # c => pc'[d] = pc[d] /\ result'[d] = result[d],
         pc'[c] \in {"get", "set", "done"}, pc'[c] # "done" => ~IsOk(result'[c])
  PROVE  PolicyInv'
<1>1. /\ etag \in Nat /\ etag' = etag + 1 /\ bindings' = current[c].bindings
      /\ \A d \in Callers : bindings[d] \in Nat
      /\ \A e \in Callers : /\ current[e].etag \in Nat
                            /\ \A d \in Callers : current[e].bindings[d] \in Nat
  BY DEF TypeOK, Replaces, Policies
<1>2. \A d \in Callers : bindings[d] <= bindings'[d]
  <2>1. current[c].etag = etag
    BY DEF PolicyInv, SetIsFuture, Matches, SentEtag, NoEtag
  <2> QED
    BY <1>1, <2>1 DEF PolicyInv, SetIsFuture
<1>3. \A d \in Callers : bindings'[d] \in Nat
  BY <1>1
<1>4. InLoop'
  BY DEF PolicyInv, InLoop
<1>5. ReadIsPast'
  BY <1>1, <1>2, <1>3 DEF PolicyInv, ReadIsPast
<1>6. SetIsFuture'
  BY <1>1 DEF PolicyInv, SetIsFuture
<1>7. NoLostUpdate'
  <2> SUFFICES ASSUME NEW e \in Callers, NEW d \in Callers,
                      method[e] = "SetIamPolicyUpdater", IsOk(result'[e])
               PROVE  current[e].bindings[d] <= bindings'[d]
    BY DEF NoLostUpdate
  <2>1. CASE e = c
    BY <1>1, <2>1
  <2>2. CASE e # c
    BY <1>1, <1>2, <1>3, <2>2 DEF PolicyInv, NoLostUpdate
  <2> QED
    BY <2>1, <2>2
<1> QED
  BY <1>4, <1>5, <1>6, <1>7 DEF PolicyInv

LEMMA PolicyStep ==
  ASSUME TypeOK, PolicyInv, [Next]_vars
  PROVE  PolicyInv'
<1>1. CASE UNCHANGED vars
  BY <1>1 DEF vars, clientVars, serviceVars, PolicyInv, InLoop, ReadIsPast,
              SetIsFuture, NoLostUpdate
<1>2. ASSUME NEW c \in Callers, OperationEnds(c) \/ Cancel(c)
      PROVE  PolicyInv'
  BY <1>2 DEF OperationEnds, Cancel, clientVars, PolicyInv, InLoop, ReadIsPast,
              SetIsFuture, NoLostUpdate
<1>3. ASSUME NEW c \in Callers, ClientStep(c)
      PROVE  PolicyInv'
  <2>1. CASE Start(c)
    <3>1. /\ method[c] = "SetIamPolicyUpdater" => pc'[c] = "get"
          /\ pc'[c] \in {"get", "call"}
          /\ \A d \in Callers : d # c => pc'[d] = pc[d]
      BY <2>1, Moves DEF Start, Places
    <3>2. ~IsOk(result[c])
      BY <2>1 DEF Start, PolicyInv, InLoop
    <3> QED
      BY <2>1, <3>1, <3>2, PolicyAside DEF Start, serviceVars
  <2>2. CASE CallRefused(c) \/ CallAnswerLost(c)
    <3>1. TryOutcome(c) /\ pc[c] = "call"
      <4>1. PICK st \in {Unavailable, InvalidArgument, Aborted} :
              TryFails(c, st, IsIdempotent(method[c])) /\ pc[c] = "call"
        BY <2>2, Zenon DEF CallRefused, CallAnswerLost
      <4> QED
        BY <4>1, FailedTry, Zenon DEF IsIdempotent
    <3>2. method[c] # "SetIamPolicyUpdater" /\ ~IsOk(result[c])
      BY <3>1 DEF PolicyInv, InLoop
    <3>3. UNCHANGED <<method, bindings, etag, current>>
      BY <2>2 DEF CallRefused, CallAnswerLost, serviceVars
    <3> QED
      BY <3>1, <3>2, <3>3, PolicyAside DEF TryOutcome
  <2>3. CASE CallSucceeds(c) \/ PageSucceeds(c) \/ StartSucceeds(c)
    <3>1. pc[c] = "call" /\ UNCHANGED <<method, bindings, etag, current>>
      BY <2>3 DEF CallSucceeds, PageSucceeds, StartSucceeds
    <3>2. method[c] # "SetIamPolicyUpdater" /\ ~IsOk(result[c])
      BY <3>1 DEF PolicyInv, InLoop
    <3>3. /\ pc'[c] \in {"call", "await", "done"}
          /\ pc'[c] # "done" => result'[c] = result[c]
          /\ \A d \in Callers : d # c => pc'[d] = pc[d] /\ result'[d] = result[d]
      BY <2>3, Moves, Finishes
         DEF CallSucceeds, PageSucceeds, StartSucceeds, Places
    <3> QED
      BY <3>1, <3>2, <3>3, PolicyAside
  <2>4. CASE AwaitEnds(c) \/ AwaitSleeps(c) \/ PollFindsDone(c) \/ PollFindsNothing(c)
    <3>1. pc[c] \in {"await", "polling"} /\ UNCHANGED <<method, bindings, etag, current>>
      BY <2>4 DEF AwaitEnds, AwaitSleeps, PollFindsDone, PollFindsNothing,
                  serviceVars
    <3>2. method[c] # "SetIamPolicyUpdater" /\ ~IsOk(result[c])
      BY <3>1 DEF PolicyInv, InLoop
    <3>3. /\ pc'[c] \in {"await", "polling", "done"}
          /\ pc'[c] # "done" => result'[c] = result[c]
          /\ \A d \in Callers : d # c => pc'[d] = pc[d] /\ result'[d] = result[d]
      BY <2>4, Moves, Finishes
         DEF AwaitEnds, AwaitSleeps, PollFindsDone, PollFindsNothing, Places
    <3> QED
      BY <3>1, <3>2, <3>3, PolicyAside
  <2>5. CASE GetFails(c) \/ SetRefused(c)
    <3>1. TryOutcome(c) /\ pc[c] \in {"get", "set"}
      <4>1. PICK st \in {Unavailable, InvalidArgument, Aborted}, b \in BOOLEAN :
              TryFails(c, st, b) /\ pc[c] \in {"get", "set"}
        BY <2>5, Zenon DEF GetFails, SetRefused
      <4> QED
        BY <4>1, FailedTry, Zenon
    <3>2. ~IsOk(result[c])
      BY <3>1 DEF PolicyInv, InLoop
    <3>3. UNCHANGED <<method, bindings, etag, current>>
      BY <2>5 DEF GetFails, SetRefused, serviceVars
    <3> QED
      BY <3>1, <3>2, <3>3, PolicyAside DEF TryOutcome
  <2>6. CASE GetSucceeds(c)
    <3>1. /\ current'[c] = [bindings |-> bindings, etag |-> etag]
          /\ \A d \in Callers : d # c => current'[d] = current[d]
      BY <2>6 DEF GetSucceeds, TypeOK
    <3>2. /\ current'[c].bindings = bindings /\ current'[c].etag = etag
          /\ etag \in 1 .. etag
          /\ \A d \in Callers : bindings[d] <= bindings[d]
      BY <3>1 DEF TypeOK, NoEtag
    <3>3. pc'[c] = "update" /\ \A d \in Callers : d # c => pc'[d] = pc[d]
      BY <2>6, Moves DEF GetSucceeds, Places
    <3>4. ~IsOk(result[c])
      BY <2>6 DEF GetSucceeds, PolicyInv, InLoop
    <3> QED
      BY <2>6, <3>1, <3>2, <3>3, <3>4, PolicyUntouched DEF GetSucceeds, serviceVars
  <2>7. CASE UpdaterDeclines(c)
    <3>1. \A d \in Callers : current[c].bindings[d] <= bindings[d]
      BY <2>7 DEF UpdaterDeclines, PolicyInv, ReadIsPast
    <3> QED
      BY <2>7, <3>1, Finishes, PolicyUntouched DEF UpdaterDeclines, serviceVars
  <2>8. CASE UpdaterChanges(c)
    <3>1. /\ current[c].etag \in 1 .. etag
          /\ current[c].etag = etag => current[c].bindings = bindings
          /\ ~IsOk(result[c])
      BY <2>8 DEF UpdaterChanges, PolicyInv, ReadIsPast, InLoop
    <3>2. /\ current'[c].etag = current[c].etag
          /\ \A d \in Callers : d # c => current'[d] = current[d]
          /\ \A d \in Callers : current[c].bindings[d] <= current'[c].bindings[d]
      BY <2>8 DEF UpdaterChanges, TypeOK, Policies
    <3>3. pc'[c] = "set" /\ \A d \in Callers : d # c => pc'[d] = pc[d]
      BY <2>8, Moves DEF UpdaterChanges, Places
    <3> QED
      BY <2>8, <3>1, <3>2, <3>3, PolicyUntouched DEF UpdaterChanges, serviceVars
  <2>9. CASE SetAnswerLost(c)
    <3>1. TryOutcome(c)
      BY <2>9, FailedTry, Zenon DEF SetAnswerLost
    <3>2. ~IsOk(result[c])
      BY <2>9 DEF SetAnswerLost, PolicyInv, InLoop
    <3> QED
      BY <2>9, <3>1, <3>2, PolicyReplaced DEF SetAnswerLost, TryOutcome
  <2>10. CASE SetSucceeds(c)
    BY <2>10, Finishes, PolicyReplaced DEF SetSucceeds
  <2> QED
    BY <1>3, <2>1, <2>2, <2>3, <2>4, <2>5, <2>6, <2>7, <2>8, <2>9, <2>10, Zenon
       DEF ClientStep
<1> QED
  BY <1>1, <1>2, <1>3 DEF Next

\* Callers of SetIamPolicy() with an updater, any number of them, do not undo
\* each other's changes, whatever answers are lost.
THEOREM NoLostUpdateCorrect == Spec => []NoLostUpdate
<1>1. Init => PolicyInv
  BY PolicyInit
<1>2. TypeOK /\ PolicyInv /\ [Next]_vars => PolicyInv'
  BY PolicyStep
<1>3. PolicyInv => NoLostUpdate
  BY DEF PolicyInv
<1> QED
  BY <1>1, <1>2, <1>3, AdminTypeCorrect, PTL DEF Spec

(***************************************************************************)
(* What calls and futures report.                                          *)
(***************************************************************************)
\* The state at the service of the operation that c has started.
OutcomeOf(c) == IF operation[c].name = 0 THEN "none" ELSE lro[c][operation[c].name]

Honest(c) ==
  result[c] # Pending =>
    /\ IsOk(result[c]) =>
         /\ method[c] \in LongRunning => Extracts(method[c]) \in FieldsOf(OutcomeOf(c))
         /\ method[c] \in Lists => listed[c] = NumPages
         /\ method[c] = "SetIamPolicyUpdater" => current[c].etag # NoEtag
         /\ method[c] \notin LongRunning \cup Lists \cup {"SetIamPolicyUpdater"}
              => executed[c] > 0
    /\ result[c] = OperationFailed => OutcomeOf(c) = "failed"
    /\ result[c] = Cancelled => OutcomeOf(c) = "cancelled"
    /\ result[c] = NoResult => OutcomeOf(c) \in {"no_response", "empty"}

\* Where a call can be, and what the thread that polls an operation knows of
\* it: an end that it has seen is the end.
Known(c) ==
  /\ pc[c] \in {"await", "polling"} => method[c] \in LongRunning
  /\ pc[c] \in {"get", "update", "set"} => method[c] = "SetIamPolicyUpdater"
  /\ pc[c] = "call" => method[c] # "SetIamPolicyUpdater"
  /\ pc[c] \in {"start", "call"} => operation[c].name = 0
  /\ IsDone(operation[c].is) =>
       operation[c].name # 0 /\ OutcomeOf(c) = operation[c].is
  /\ pc[c] # "done" => result[c] = Pending
  /\ pc[c] \in {"update", "set"} => current[c].etag # NoEtag

HonestInv == \A c \in Callers : Known(c) /\ Honest(c)

\* What the promise gets is the outcome of the operation.
LEMMA OperationResultIs ==
  ASSUME NEW m, NEW is \in LroStates, IsDone(is)
  PROVE  /\ IsOk(OperationResult(m, is)) => Extracts(m) \in FieldsOf(is)
         /\ OperationResult(m, is) = OperationFailed => is = "failed"
         /\ OperationResult(m, is) = Cancelled => is = "cancelled"
         /\ OperationResult(m, is) = NoResult => is \in {"no_response", "empty"}
<1>1. CASE is \in {"failed", "cancelled"}
  BY <1>1, Codes DEF OperationResult, IsOk
<1>2. CASE is \in {"no_response", "empty", "succeeded"}
  <2>1. CASE Extracts(m) \in FieldsOf(is)
    BY <1>2, <2>1, DistinctResults DEF OperationResult
  <2>2. CASE Extracts(m) \notin FieldsOf(is)
    <3>1. OperationResult(m, is) = NoResult
      BY <1>2, <2>2 DEF OperationResult
    <3>2. is # "succeeded"
      BY <2>2 DEF Extracts, FieldsOf
    <3> QED
      BY <1>2, <3>1, <3>2, Codes DEF IsOk
  <2> QED
    BY <2>1, <2>2
<1> QED
  BY <1>1, <1>2 DEF LroStates, IsDone

LEMMA HonestGivesProperty == HonestInv => ResultIsHonest
<1> SUFFICES ASSUME HonestInv, NEW c \in Callers, result[c] # Pending
             PROVE  LET is == OutcomeOf(c) IN
                    /\ IsOk(result[c]) =>
                         CASE method[c] \in LongRunning -> Extracts(method[c]) \in FieldsOf(is)
                           [] method[c] \in Lists -> listed[c] = NumPages
                           [] method[c] = "SetIamPolicyUpdater" -> current[c].etag # NoEtag
                           [] OTHER -> executed[c] > 0
                    /\ result[c] = OperationFailed => is = "failed"
                    /\ result[c] = Cancelled => is = "cancelled"
                    /\ result[c] = NoResult => is \in {"no_response", "empty"}
  BY DEF ResultIsHonest, OutcomeOf
<1>1. Honest(c)
  BY DEF HonestInv
<1>2. CASE method[c] \in LongRunning
  BY <1>1, <1>2, MethodKinds DEF Honest
<1>3. CASE method[c] \in Lists
  BY <1>1, <1>3, MethodKinds DEF Honest
<1>4. CASE method[c] = "SetIamPolicyUpdater"
  BY <1>1, <1>4, MethodKinds DEF Honest
<1>5. CASE method[c] \notin LongRunning \cup Lists \cup {"SetIamPolicyUpdater"}
  BY <1>1, <1>5 DEF Honest
<1> QED
  BY <1>2, <1>3, <1>4, <1>5

LEMMA HonestInit == Init => HonestInv
  BY DEF Init, HonestInv, Known, Honest, IsDone

\* The service does nothing to the operations of the other callers.
LEMMA ExecutesAside ==
  ASSUME TypeOK, NEW c \in Callers, Executes(c) \/ UNCHANGED <<executed, lro>>
  PROVE  \A d \in Callers : d # c => lro'[d] = lro[d] /\ executed'[d] = executed[d]
  BY DEF Executes, TypeOK

\* A step of c leaves what the others report and know as it was.
LEMMA HonestForOthers ==
  ASSUME HonestInv, NEW c \in Callers, UNCHANGED method,
         \A d \in Callers : d # c =>
           /\ pc'[d] = pc[d] /\ result'[d] = result[d] /\ operation'[d] = operation[d]
           /\ listed'[d] = listed[d] /\ current'[d] = current[d]
           /\ executed'[d] = executed[d] /\ lro'[d] = lro[d],
         Known(c)', Honest(c)'
  PROVE  HonestInv'
<1> SUFFICES ASSUME NEW d \in Callers PROVE Known(d)' /\ Honest(d)'
  BY DEF HonestInv
<1>1. CASE d = c
  BY <1>1
<1>2. CASE d # c
  <2>1. OutcomeOf(d)' = OutcomeOf(d)
    BY <1>2 DEF OutcomeOf
  <2>2. Known(d) /\ Honest(d)
    BY DEF HonestInv
  <2>3. Known(d)'
    BY <1>2, <2>1, <2>2 DEF Known
  <2>4. Honest(d)'
    BY <1>2, <2>1, <2>2 DEF Honest
  <2> QED
    BY <2>3, <2>4
<1> QED
  BY <1>1, <1>2

\* A call that ends with an error of an RPC reports nothing about the service.
LEMMA RpcErrorIsHonest ==
  ASSUME NEW c \in Callers, IsRpcError(result'[c])
  PROVE  Honest(c)'
  BY RpcErrorIsNoResult DEF Honest

\* Neither does one that has not ended.
LEMMA PendingIsHonest ==
  ASSUME NEW c \in Callers, result'[c] = Pending
  PROVE  Honest(c)'
  BY DEF Honest

LEMMA HonestStep ==
  ASSUME ExecutionInv, HonestInv, [Next]_vars
  PROVE  HonestInv'
<1>0. TypeOK
  BY DEF ExecutionInv
<1>1. CASE UNCHANGED vars
  BY <1>1 DEF vars, clientVars, serviceVars, HonestInv, Known, Honest, OutcomeOf
<1>2. ASSUME NEW c \in Callers, OperationEnds(c) \/ Cancel(c)
      PROVE  HonestInv'
  <2>1. /\ lro' \in [Callers -> [Executions -> LroStates]]
        /\ \A d \in Callers : d # c => lro'[d] = lro[d]
        /\ \A k \in Executions : IsDone(lro[c][k]) => lro'[c][k] = lro[c][k]
    <3>1. lro \in [Callers -> [Executions -> LroStates]]
      BY <1>0 DEF TypeOK
    <3>2. PICK k : \E o \in LroStates :
            lro' = [lro EXCEPT ![c][k] = o] /\ lro[c][k] = "running"
      BY <1>2 DEF OperationEnds, Cancel, LroStates
    <3>3. PICK o \in LroStates : lro' = [lro EXCEPT ![c][k] = o]
      BY <3>2
    <3> QED
      BY <3>1, <3>2, <3>3 DEF IsDone
  <2>2. UNCHANGED <<method, clientVars, executed, bindings, etag>>
    BY <1>2 DEF OperationEnds, Cancel
  <2>3. IsDone(OutcomeOf(c)) => OutcomeOf(c)' = OutcomeOf(c)
    BY <1>0, <2>1, <2>2 DEF OutcomeOf, clientVars, TypeOK, IsDone
  <2>4. Known(c) /\ Honest(c)
    BY DEF HonestInv
  <2>5. Known(c)'
    BY <2>2, <2>3, <2>4 DEF Known, clientVars
  <2>6. Honest(c)'
    <3>1. /\ IsDone("failed") /\ IsDone("cancelled")
          /\ \A o \in {"no_response", "empty"} : IsDone(o)
          /\ ~IsDone(OutcomeOf(c)) => FieldsOf(OutcomeOf(c)) = {}
      BY DEF IsDone, FieldsOf
    <3> QED
      BY <2>2, <2>3, <2>4, <3>1 DEF Honest, clientVars
  <2> QED
    BY <2>1, <2>2, <2>5, <2>6, HonestForOthers DEF clientVars
<1>3. ASSUME NEW c \in Callers, ClientStep(c)
      PROVE  HonestInv'
  <2>0. Known(c)
    BY DEF HonestInv
  <2>1. CASE Start(c)
    <3>1. /\ pc'[c] \in {"get", "call"}
          /\ pc'[c] = "get" <=> method[c] = "SetIamPolicyUpdater"
          /\ \A d \in Callers : d # c => pc'[d] = pc[d]
      BY <1>0, <2>1, Moves DEF Start, Places
    <3>2. UNCHANGED <<method, operation, result, listed, current, executed, lro>>
      BY <2>1 DEF Start, serviceVars
    <3>3. pc[c] = "start" /\ result'[c] = Pending
      BY <2>0, <2>1, <3>2 DEF Start, Known
    <3>4. Known(c)'
      BY <2>0, <3>1, <3>2, <3>3 DEF Known, OutcomeOf
    <3> QED
      BY <3>1, <3>2, <3>3, <3>4, PendingIsHonest, HonestForOthers
  <2>2. CASE CallRefused(c) \/ CallAnswerLost(c)
    <3>1. TryOutcome(c) /\ pc[c] = "call"
      <4>1. PICK st \in {Unavailable, InvalidArgument, Aborted} :
              TryFails(c, st, IsIdempotent(method[c])) /\ pc[c] = "call"
        BY <2>2, Zenon DEF CallRefused, CallAnswerLost
      <4> QED
        BY <1>0, <4>1, FailedTry, Zenon DEF IsIdempotent
    <3>2. /\ UNCHANGED <<method, operation, listed, current>>
          /\ \A d \in Callers : d # c => executed'[d] = executed[d] /\ lro'[d] = lro[d]
      BY <1>0, <2>2, ExecutesOnce, ExecutesAside
         DEF CallRefused, CallAnswerLost, serviceVars
    <3>3. result[c] = Pending /\ operation[c].name = 0 /\ ~IsDone(operation[c].is)
      BY <2>0, <3>1 DEF Known
    <3>4. Known(c)'
      BY <2>0, <3>1, <3>2, <3>3 DEF Known, TryOutcome
    <3>5. Honest(c)'
      BY <3>1, <3>3, RpcErrorIsHonest, PendingIsHonest DEF TryOutcome
    <3> QED
      BY <3>1, <3>2, <3>4, <3>5, HonestForOthers DEF TryOutcome
  <2>3. CASE CallSucceeds(c)
    <3>1. /\ UNCHANGED <<method, operation, listed, current>>
          /\ \A d \in Callers : d # c => executed'[d] = executed[d] /\ lro'[d] = lro[d]
          /\ executed'[c] > 0
      BY <1>0, <2>3, ExecutesOnce, ExecutesAside DEF CallSucceeds, TypeOK
    <3>2. /\ pc'[c] = "done" /\ result'[c] = OkStatus
          /\ \A d \in Callers : d # c => pc'[d] = pc[d] /\ result'[d] = result[d]
      BY <1>0, <2>3, Finishes DEF CallSucceeds
    <3>3. ~IsDone(operation[c].is)
      BY <2>0, <2>3 DEF Known, CallSucceeds
    <3>4. Known(c)'
      BY <3>1, <3>2, <3>3 DEF Known
    <3>5. method[c] \notin LongRunning \cup Lists \cup {"SetIamPolicyUpdater"}
      BY <2>0, <2>3 DEF Known, CallSucceeds
    <3>6. Honest(c)'
      BY <3>1, <3>2, <3>5, DistinctResults DEF Honest
    <3> QED
      BY <3>1, <3>2, <3>4, <3>6, HonestForOthers
  <2>4. CASE PageSucceeds(c)
    <3>1. /\ UNCHANGED <<method, operation, current>>
          /\ \A d \in Callers : d # c =>
               executed'[d] = executed[d] /\ lro'[d] = lro[d] /\ listed'[d] = listed[d]
      BY <1>0, <2>4, ExecutesOnce, ExecutesAside DEF PageSucceeds, TypeOK
    <3>2. /\ \/ pc'[c] = "done" /\ result'[c] = OkStatus /\ listed'[c] = NumPages
             \/ pc'[c] = "call" /\ result'[c] = result[c]
          /\ \A d \in Callers : d # c => pc'[d] = pc[d] /\ result'[d] = result[d]
      BY <1>0, <2>4, Finishes DEF PageSucceeds
    <3>3. /\ ~IsDone(operation[c].is) /\ result[c] = Pending /\ operation[c].name = 0
          /\ method[c] \in Lists /\ method[c] # "SetIamPolicyUpdater"
      BY <2>0, <2>4 DEF Known, PageSucceeds
    <3>4. Known(c)'
      BY <3>1, <3>2, <3>3 DEF Known
    <3>5. Honest(c)'
      BY <3>1, <3>2, <3>3, DistinctResults, MethodKinds DEF Honest
    <3> QED
      BY <3>1, <3>2, <3>4, <3>5, HonestForOthers
  <2>5. CASE StartSucceeds(c)
    <3>1. /\ UNCHANGED <<method, result, listed, current>>
          /\ \A d \in Callers : d # c => executed'[d] = executed[d] /\ lro'[d] = lro[d]
      BY <1>0, <2>5, ExecutesOnce, ExecutesAside DEF StartSucceeds
    <3>2. pc'[c] = "await" /\ \A d \in Callers : d # c => pc'[d] = pc[d]
      BY <1>0, <2>5, Moves DEF StartSucceeds, Places
    <3>3. /\ \A d \in Callers : d # c => operation'[d] = operation[d]
          /\ operation'[c].name = executed[c] + 1
          /\ operation'[c].is = lro'[c][executed[c] + 1]
          /\ executed[c] + 1 # 0
      BY <1>0, <2>5 DEF StartSucceeds, TypeOK
    <3>4. /\ result'[c] = Pending /\ method[c] \in LongRunning
      BY <2>0, <2>5, <3>1, MethodKinds DEF Known, StartSucceeds
    <3>5. OutcomeOf(c)' = operation'[c].is
      BY <3>3 DEF OutcomeOf
    <3>6. Known(c)'
      BY <3>1, <3>2, <3>3, <3>4, <3>5 DEF Known
    <3> QED
      BY <3>1, <3>2, <3>3, <3>4, <3>6, PendingIsHonest, HonestForOthers
  <2>6. CASE AwaitEnds(c)
    <3>1. UNCHANGED <<method, operation, listed, current, executed, lro>>
      BY <2>6 DEF AwaitEnds, serviceVars
    <3>2. /\ pc'[c] = "done"
          /\ result'[c] = OperationResult(method[c], operation[c].is)
          /\ \A d \in Callers : d # c => pc'[d] = pc[d] /\ result'[d] = result[d]
      BY <1>0, <2>6, Finishes DEF AwaitEnds
    <3>3. /\ method[c] \in LongRunning /\ IsDone(operation[c].is)
          /\ OutcomeOf(c) = operation[c].is
      BY <2>0, <2>6 DEF Known, AwaitEnds
    <3>4. OutcomeOf(c)' = operation[c].is
      BY <3>1, <3>3 DEF OutcomeOf
    <3>5. Known(c)'
      BY <2>0, <3>1, <3>2, <3>3, <3>4 DEF Known
    <3>6. operation[c].is \in LroStates
      BY <1>0 DEF TypeOK
    <3>7. Honest(c)'
      BY <3>1, <3>2, <3>3, <3>4, <3>6, OperationResultIs, MethodKinds DEF Honest
    <3> QED
      BY <3>1, <3>2, <3>5, <3>7, HonestForOthers
  <2>7. CASE AwaitSleeps(c)
    <3>1. UNCHANGED <<method, operation, result, listed, current, executed, lro>>
      BY <2>7 DEF AwaitSleeps, serviceVars
    <3>2. pc'[c] = "polling" /\ \A d \in Callers : d # c => pc'[d] = pc[d]
      BY <1>0, <2>7, Moves DEF AwaitSleeps, Places
    <3>3. Known(c)' /\ result'[c] = Pending
      BY <2>0, <2>7, <3>1, <3>2 DEF Known, AwaitSleeps
    <3> QED
      BY <3>1, <3>2, <3>3, PendingIsHonest, HonestForOthers
  <2>8. CASE PollFindsDone(c)
    <3>1. UNCHANGED <<method, result, listed, current, executed, lro>>
      BY <2>8 DEF PollFindsDone, serviceVars
    <3>2. pc'[c] = "await" /\ \A d \in Callers : d # c => pc'[d] = pc[d]
      BY <1>0, <2>8, Moves DEF PollFindsDone, Places
    <3>3. /\ operation'[c].name = operation[c].name
          /\ operation'[c].is = lro[c][operation[c].name]
          /\ \A d \in Callers : d # c => operation'[d] = operation[d]
      BY <1>0, <2>8 DEF PollFindsDone, TypeOK
    <3>4. operation[c].name # 0
      BY <2>8, AdminAssumption
         DEF PollFindsDone, ExecutionInv, Started, Executions
    <3>5. OutcomeOf(c)' = operation'[c].is
      BY <3>1, <3>3, <3>4 DEF OutcomeOf
    <3>6. Known(c)' /\ result'[c] = Pending
      BY <2>0, <2>8, <3>1, <3>2, <3>3, <3>4, <3>5 DEF Known, PollFindsDone
    <3> QED
      BY <3>1, <3>2, <3>3, <3>6, PendingIsHonest, HonestForOthers
  <2>9. CASE PollFindsNothing(c)
    <3>1. UNCHANGED <<method, operation, listed, current, executed, lro>>
      BY <2>9 DEF PollFindsNothing, serviceVars
    <3>2. /\ \/ pc'[c] = "await" /\ result'[c] = result[c]
             \/ /\ pc'[c] = "done"
                /\ result'[c] = DeadlineExceeded \/ IsRpcError(result'[c])
          /\ \A d \in Callers : d # c => pc'[d] = pc[d] /\ result'[d] = result[d]
      <4>1. PICK status \in {OkStatus, Unavailable, InvalidArgument} :
              \/ Goto(c, "await") /\ UNCHANGED result
              \/ Finish(c, IF IsOk(status) THEN DeadlineExceeded ELSE status)
        BY <2>9, Zenon DEF PollFindsNothing
      <4>2. IsOk(status) \/ IsRpcError(status)
        BY LoopResultIsError, DistinctResults
      <4> QED
        BY <1>0, <4>1, <4>2, Moves, Finishes DEF Places
    <3>3. result[c] = Pending
      BY <2>0, <2>9 DEF Known, PollFindsNothing
    <3>4. OutcomeOf(c)' = OutcomeOf(c)
      BY <3>1 DEF OutcomeOf
    <3>5. Known(c)'
      BY <2>0, <2>9, <3>1, <3>2, <3>3, <3>4 DEF Known, PollFindsNothing
    <3>6. Honest(c)'
      <4>1. CASE result'[c] = DeadlineExceeded
        BY <4>1, DistinctResults DEF Honest
      <4>2. CASE result'[c] # DeadlineExceeded
        BY <3>2, <3>3, <4>2, RpcErrorIsHonest, PendingIsHonest
      <4> QED
        BY <4>1, <4>2
    <3> QED
      BY <3>1, <3>2, <3>5, <3>6, HonestForOthers
  <2>10. CASE GetFails(c) \/ SetRefused(c) \/ SetAnswerLost(c)
    <3>1. TryOutcome(c) /\ pc[c] \in {"get", "set"}
      <4>1. PICK st \in {Unavailable, InvalidArgument, Aborted}, b \in BOOLEAN :
              TryFails(c, st, b) /\ pc[c] \in {"get", "set"}
        BY <2>10, Zenon DEF GetFails, SetRefused, SetAnswerLost
      <4> QED
        BY <1>0, <4>1, FailedTry, Zenon
    <3>2. UNCHANGED <<method, operation, listed, current, executed, lro>>
      BY <2>10 DEF GetFails, SetRefused, SetAnswerLost, serviceVars
    <3>3. result[c] = Pending
      BY <2>0, <3>1 DEF Known
    <3>4. OutcomeOf(c)' = OutcomeOf(c)
      BY <3>2 DEF OutcomeOf
    <3>5. Known(c)'
      BY <2>0, <3>1, <3>2, <3>3, <3>4 DEF Known, TryOutcome
    <3>6. Honest(c)'
      BY <3>1, <3>3, RpcErrorIsHonest, PendingIsHonest DEF TryOutcome
    <3> QED
      BY <3>1, <3>2, <3>5, <3>6, HonestForOthers DEF TryOutcome
  <2>11. CASE GetSucceeds(c) \/ UpdaterChanges(c)
    <3>1. UNCHANGED <<method, operation, result, listed, executed, lro>>
      BY <2>11 DEF GetSucceeds, UpdaterChanges, serviceVars
    <3>2. /\ pc[c] \in {"get", "update"} /\ pc'[c] \in {"update", "set"}
          /\ \A d \in Callers : d # c => pc'[d] = pc[d]
      BY <1>0, <2>11, Moves DEF GetSucceeds, UpdaterChanges, Places
    <3>3. /\ \A d \in Callers : d # c => current'[d] = current[d]
          /\ current'[c].etag # NoEtag
      <4>1. CASE GetSucceeds(c)
        BY <1>0, <4>1 DEF GetSucceeds, TypeOK
      <4>2. CASE UpdaterChanges(c)
        BY <1>0, <2>0, <4>2 DEF UpdaterChanges, TypeOK, Policies, Known
      <4> QED
        BY <2>11, <4>1, <4>2
    <3>4. OutcomeOf(c)' = OutcomeOf(c)
      BY <3>1 DEF OutcomeOf
    <3>5. Known(c)' /\ result'[c] = Pending
      BY <2>0, <3>1, <3>2, <3>3, <3>4 DEF Known
    <3> QED
      BY <3>1, <3>2, <3>3, <3>5, PendingIsHonest, HonestForOthers
  <2>12. CASE UpdaterDeclines(c) \/ SetSucceeds(c)
    <3>1. UNCHANGED <<method, operation, listed, current, executed, lro>>
      BY <2>12 DEF UpdaterDeclines, SetSucceeds, serviceVars
    <3>2. /\ pc'[c] = "done" /\ result'[c] = OkStatus
          /\ \A d \in Callers : d # c => pc'[d] = pc[d] /\ result'[d] = result[d]
      BY <1>0, <2>12, Finishes DEF UpdaterDeclines, SetSucceeds
    <3>3. method[c] = "SetIamPolicyUpdater" /\ current[c].etag # NoEtag
      BY <2>0, <2>12 DEF Known, UpdaterDeclines, SetSucceeds
    <3>4. OutcomeOf(c)' = OutcomeOf(c)
      BY <3>1 DEF OutcomeOf
    <3>5. Known(c)'
      BY <2>0, <3>1, <3>2, <3>3, <3>4 DEF Known
    <3>6. Honest(c)'
      BY <3>1, <3>2, <3>3, DistinctResults, MethodKinds DEF Honest
    <3> QED
      BY <3>1, <3>2, <3>5, <3>6, HonestForOthers
  <2> QED
    BY <1>3, <2>1, <2>2, <2>3, <2>4, <2>5, <2>6, <2>7, <2>8, <2>9, <2>10, <2>11,
       <2>12, Zenon DEF ClientStep
<1> QED
  BY <1>1, <1>2, <1>3 DEF Next

\* What a call or a future reports has happened at the service: a call that
\* returned OK was executed, a range has had every page, and a future has the
\* outcome of the operation that its call started.
THEOREM ResultIsHonestCorrect == Spec => []ResultIsHonest
<1>1. Init => HonestInv
  BY HonestInit
<1>2. ExecutionInv /\ HonestInv /\ [Next]_vars => HonestInv'
  BY HonestStep
<1>3. HonestInv => ResultIsHonest
  BY HonestGivesProperty
<1> QED
  BY <1>1, <1>2, <1>3, ExecutionInvariance, PTL DEF Spec
=============================================================================
