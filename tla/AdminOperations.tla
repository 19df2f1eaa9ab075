-------------------------- MODULE AdminOperations --------------------------
(***************************************************************************)
(* The administrative API: DatabaseAdminClient and InstanceAdminClient on  *)
(* their connections (database_admin_connection.cc,                        *)
(* instance_admin_connection.cc), with RetryLoop() and PollingLoop().      *)
(*                                                                         *)
(* Each caller makes one call.  A call is one RPC in RetryLoop(), or one   *)
(* RPC per page of a list, or an RPC that starts a long-running operation  *)
(* which a detached thread then polls, or SetIamPolicy() with an updater,  *)
(* which reads, modifies and writes the policy until no other writer comes *)
(* in between.                                                             *)
(***************************************************************************)
EXTENDS RetryLoop, FiniteSets

CONSTANTS
  Callers,
  Assignments,    \* which method each caller calls, in each instance
  MaxFailures,    \* failures the RetryPolicy of an RPC tolerates
  MaxPolls,       \* polls the PollingPolicy tolerates
  MaxReruns,      \* failures the TransactionRerunPolicy tolerates
  NumPages        \* pages of every list

ASSUME AdminAssumption ==
  /\ MaxFailures \in Nat /\ MaxPolls \in Nat /\ MaxReruns \in Nat
  /\ NumPages \in Nat \ {0}

(***************************************************************************)
(* The methods.                                                            *)
(***************************************************************************)
\* The methods that are one RPC, a list in pages, or the start of a
\* long-running operation, and those that call RetryLoop() as not idempotent.
DatabaseMethods ==
  [single       |-> {"GetDatabase", "GetDatabaseDdl", "DropDatabase"},
   list         |-> {"ListDatabases"},
   long_running |-> {"CreateDatabase", "UpdateDatabase", "RestoreDatabase"},
   once         |-> {"CreateDatabase", "UpdateDatabase", "RestoreDatabase"}]

BackupMethods ==
  [single       |-> {"GetBackup", "DeleteBackup", "UpdateBackup"},
   list         |-> {"ListBackups"},
   long_running |-> {"CreateBackup"},
   once         |-> {"CreateBackup"}]

OperationMethods ==
  [single       |-> {},
   list         |-> {"ListBackupOperations", "ListDatabaseOperations"},
   long_running |-> {},
   once         |-> {}]

\* SetIamPolicy() is called with and without an etag in the policy.
IamMethods ==
  [single       |-> {"GetIamPolicy", "TestIamPermissions", "SetIamPolicy",
                     "SetIamPolicyEtag"},
   list         |-> {},
   long_running |-> {},
   once         |-> {"SetIamPolicy"}]

InstanceMethods ==
  [single       |-> {"GetInstance", "GetInstanceConfig", "DeleteInstance"},
   list         |-> {"ListInstances", "ListInstanceConfigs"},
   long_running |-> {"CreateInstance", "UpdateInstance"},
   once         |-> {"CreateInstance"}]

OfKind(k) == UNION {t[k] : t \in {DatabaseMethods, BackupMethods,
                                  OperationMethods, IamMethods,
                                  InstanceMethods}}
Lists         == OfKind("list")
LongRunning   == OfKind("long_running")
NonIdempotent == OfKind("once")
\* One more is the overload of SetIamPolicy() that takes an updater.
Methods == OfKind("single") \cup Lists \cup LongRunning
             \cup {"SetIamPolicyUpdater"}

ASSUME AssignmentsAssumption ==
  Assignments \subseteq [Callers -> Methods \cup {"none"}]

\* What hands the operation of a method to a thread that polls it.
AwaitDatabase       == {"CreateDatabase", "RestoreDatabase"}
AwaitUpdateDatabase == {"UpdateDatabase"}
AwaitCreateBackup   == {"CreateBackup"}
AwaitCreateOrUpdateInstance == {"CreateInstance", "UpdateInstance"}
Awaited == AwaitDatabase \cup AwaitUpdateDatabase \cup AwaitCreateBackup
             \cup AwaitCreateOrUpdateInstance

\* Mutant: everything is retried.
IsIdempotent_Always(m) == TRUE

\* The is_idempotent argument of RetryLoop() in each method.
IsIdempotent(m) == m \notin NonIdempotent

VARIABLES
  method,         \* the method each caller calls
  pc,
  failures,       \* failures counted by the retry policy of the RPC
  reruns,         \* failures counted by the rerun policy
  polls,          \* polls counted by the polling policy
  operation,      \* the thread's copy of its operation: which one and what
  result,         \* status of the call or of its future; Pending until then
  listed,         \* pages the range has returned
  current,        \* policy and etag the IAM loop has read
  executed,       \* times the service has executed the caller's request
  lro,            \* the operations those requests started at the service
  bindings,       \* the policy, as far as updaters change it: how often
                  \* the update of each caller is in it
  etag            \* its version

clientVars == <<pc, failures, reruns, polls, operation, result, listed, current>>
serviceVars == <<executed, lro, bindings, etag>>
vars == <<method, clientVars, serviceVars>>

Pending == MakeStatus("pending", {})
DeadlineExceeded ==
  MakeStatus("kDeadlineExceeded",
             {"exhausted polling policy with no previous error"})
OperationFailed == MakeStatus("kFailedPrecondition", {})
Cancelled == MakeStatus("kCancelled", {})
NoEtag == 0
NoResult == MakeStatus("kInternal", {"operation completed without error"})

\* What an operation can be at the service.  One that ends without an error
\* should have its metadata and a response.
LroStates == {"none", "running", "succeeded", "no_response", "empty", "failed",
              "cancelled"}
FieldsOf(o) == CASE o = "succeeded"   -> {"metadata", "response"}
                 [] o = "no_response" -> {"metadata"}
                 [] OTHER             -> {}
IsDone(o) == o \notin {"none", "running"}
Executions == 1 .. MaxFailures + 1

Places == {"start", "call", "await", "polling", "get", "update", "set", "done"}
Policies == [bindings : [Callers -> Nat], etag : Nat]

TypeOK ==
  /\ method \in [Callers -> Methods \cup {"none"}]
  /\ pc \in [Callers -> Places]
  /\ failures \in [Callers -> 0 .. MaxFailures]
  /\ reruns \in [Callers -> 0 .. MaxReruns]
  /\ polls \in [Callers -> 0 .. MaxPolls]
  /\ operation \in [Callers -> [name : {0} \cup Executions, is : LroStates]]
  /\ DOMAIN result = Callers
  /\ listed \in [Callers -> 0 .. NumPages]
  /\ current \in [Callers -> Policies]
  /\ executed \in [Callers -> Nat]
  /\ lro \in [Callers -> [Executions -> LroStates]]
  /\ bindings \in [Callers -> Nat] /\ etag \in Nat \ {NoEtag}

Init ==
  /\ method \in Assignments
  /\ pc = [c \in Callers |-> IF method[c] = "none" THEN "done" ELSE "start"]
  /\ failures = [c \in Callers |-> 0]
  /\ reruns = [c \in Callers |-> 0]
  /\ polls = [c \in Callers |-> 0]
  /\ operation = [c \in Callers |-> [name |-> 0, is |-> "none"]]
  /\ result = [c \in Callers |-> Pending]
  /\ listed = [c \in Callers |-> 0]
  /\ current = [c \in Callers |-> [bindings |-> [d \in Callers |-> 0],
                                   etag |-> NoEtag]]
  /\ executed = [c \in Callers |-> 0]
  /\ lro = [c \in Callers |-> [k \in Executions |-> "none"]]
  /\ bindings = [c \in Callers |-> 0]
  /\ etag = 1

Goto(c, place) == pc' = [pc EXCEPT ![c] = place]
Finish(c, st) == Goto(c, "done") /\ result' = [result EXCEPT ![c] = st]

(***************************************************************************)
(* RetryLoop().                                                            *)
(***************************************************************************)
\* A client method sends its request to the connection.
Start(c) ==
  /\ pc[c] = "start"
  /\ Goto(c, IF method[c] = "SetIamPolicyUpdater" THEN "get" ELSE "call")
  /\ UNCHANGED <<method, failures, reruns, polls, operation, result, listed,
                 current, serviceVars>>

\* A try fails: another one follows, or the loop returns the error.  The IAM
\* loop has an opinion of its own on that error.
TryFails(c, st, idempotent) ==
  \/ /\ CallsAgain(idempotent, st, failures[c], MaxFailures)
     /\ failures' = [failures EXCEPT ![c] = @ + 1]
     /\ UNCHANGED <<pc, result, reruns>>
  \/ /\ ~CallsAgain(idempotent, st, failures[c], MaxFailures)
     /\ failures' = [failures EXCEPT ![c] = 0]
     /\ \/ /\ pc[c] = "call"
           /\ Finish(c, LoopResult(idempotent, st))
           /\ UNCHANGED reruns
        \/ /\ pc[c] # "call"
           /\ \/ /\ OnFailure(~IsRerunnable(st), reruns[c], MaxReruns)
                 /\ reruns' = [reruns EXCEPT ![c] = @ + 1]
                 /\ Goto(c, "get") /\ UNCHANGED result
              \/ \* The policy refuses, or its time runs out in the backoff.
                 /\ Finish(c, LoopResult(idempotent, st))
                 /\ UNCHANGED reruns

\* The service executes the request of a call: it may start an operation.
Executes(c) ==
  /\ executed' = [executed EXCEPT ![c] = @ + 1]
  /\ \/ /\ method[c] \in LongRunning
        /\ \E o \in LroStates \ {"none", "cancelled"} :
             lro' = [lro EXCEPT ![c][executed[c] + 1] = o]
     \/ method[c] \notin LongRunning /\ UNCHANGED lro

\* An RPC of the call is refused, or does not get to the service.
CallRefused(c) ==
  /\ pc[c] = "call"
  /\ \E st \in {Unavailable, InvalidArgument} :
       TryFails(c, st, IsIdempotent(method[c]))
  /\ UNCHANGED <<method, polls, operation, listed, current, serviceVars>>

\* It is executed but its answer does not get back.
CallAnswerLost(c) ==
  /\ pc[c] = "call"
  /\ Executes(c)
  /\ TryFails(c, Unavailable, IsIdempotent(method[c]))
  /\ UNCHANGED <<method, polls, operation, listed, current, bindings, etag>>

\* A call that is a single RPC succeeds.
CallSucceeds(c) ==
  /\ pc[c] = "call" /\ method[c] \notin LongRunning \cup Lists
  /\ Executes(c)
  /\ Finish(c, OkStatus)
  /\ UNCHANGED <<method, failures, reruns, polls, operation, listed, current,
                 bindings, etag>>

\* A range gets a page; each page has a retry policy of its own.
PageSucceeds(c) ==
  /\ pc[c] = "call" /\ method[c] \in Lists
  /\ Executes(c)
  /\ listed' = [listed EXCEPT ![c] = @ + 1]
  /\ failures' = [failures EXCEPT ![c] = 0]
  /\ \/ listed'[c] < NumPages /\ UNCHANGED <<pc, result>>
     \/ listed'[c] = NumPages /\ Finish(c, OkStatus)
  /\ UNCHANGED <<method, reruns, polls, operation, current, bindings, etag>>

\* The operation is started: Await...() hands it to a thread of its own and
\* returns the future.
StartSucceeds(c) ==
  /\ pc[c] = "call" /\ method[c] \in Awaited
  /\ Executes(c)
  /\ operation' = [operation EXCEPT ![c] =
       [name |-> executed[c] + 1, is |-> lro'[c][executed[c] + 1]]]
  /\ failures' = [failures EXCEPT ![c] = 0]
  /\ Goto(c, "await")
  /\ UNCHANGED <<method, reruns, polls, result, listed, current, bindings, etag>>

(***************************************************************************)
(* PollingLoop(), on the thread that Await...() detaches, and the promise  *)
(* that it satisfies.                                                      *)
(***************************************************************************)
\* The field of the operation that the result is taken from.
Extracts(m) == IF m \in AwaitUpdateDatabase THEN "metadata" ELSE "response"

\* Mutant: an operation that is done is taken for one that succeeded.
OperationResult_NoError(m, is) == IF is = "empty" THEN NoResult ELSE OkStatus

\* The error of the operation, or what the extractor makes of it.
OperationResult(m, is) ==
  CASE is = "failed"    -> OperationFailed
    [] is = "cancelled" -> Cancelled
    [] is \notin {"failed", "cancelled"} /\ Extracts(m) \notin FieldsOf(is)
                        -> NoResult
    [] OTHER            -> OkStatus

\* The operation is done: the promise gets its result.
AwaitEnds(c) ==
  /\ pc[c] = "await" /\ IsDone(operation[c].is)
  /\ Finish(c, OperationResult(method[c], operation[c].is))
  /\ UNCHANGED <<method, failures, reruns, polls, operation, listed, current,
                 serviceVars>>

\* It is not: the thread sleeps for WaitPeriod().
AwaitSleeps(c) ==
  /\ pc[c] = "await" /\ ~IsDone(operation[c].is)
  /\ Goto(c, "polling")
  /\ UNCHANGED <<method, failures, reruns, polls, operation, result, listed,
                 current, serviceVars>>

\* Mutant: only failures count against the polling policy.
CountPoll_OnlyFailures(count, status) == IF IsOk(status) THEN count ELSE count + 1

\* The policy has its say on every poll that does not end the loop, the
\* successful ones too.
CountPoll(count, status) == count + 1

PollsAgain(count, status) ==
  OnFailure(IsPermanentFailure(status), count, MaxPolls)

\* GetOperation() finds the operation done.  That is kept before the policy
\* is asked.
PollFindsDone(c) ==
  /\ pc[c] = "polling"
  /\ IsDone(lro[c][operation[c].name])
  /\ operation' = [operation EXCEPT ![c].is = lro[c][operation[c].name]]
  /\ Goto(c, "await")
  /\ UNCHANGED <<method, failures, reruns, polls, result, listed, current,
                 serviceVars>>

\* GetOperation() fails, or finds the operation running.
PollFindsNothing(c) ==
  /\ pc[c] = "polling"
  /\ \E status \in {OkStatus, Unavailable, InvalidArgument} :
       /\ IsOk(status) => lro[c][operation[c].name] = "running"
       /\ \/ /\ PollsAgain(polls[c], status)
             /\ polls' = [polls EXCEPT ![c] = CountPoll(@, status)]
             /\ Goto(c, "await") /\ UNCHANGED result
          \/ /\ ~PollsAgain(polls[c], status)
             /\ Finish(c, IF IsOk(status) THEN DeadlineExceeded ELSE status)
             /\ UNCHANGED polls
  /\ UNCHANGED <<method, failures, reruns, operation, listed, current,
                 serviceVars>>

\* A running operation ends.
OperationEnds(c) ==
  /\ \E k \in Executions, o \in LroStates \ {"none", "running", "cancelled"} :
       lro[c][k] = "running" /\ lro' = [lro EXCEPT ![c][k] = o]
  /\ UNCHANGED <<method, clientVars, executed, bindings, etag>>

\* The caller cancels the future of CreateBackup(): CancelOperation() is sent
\* once and its status ignored.  The thread goes on polling.
Cancel(c) ==
  /\ method[c] \in AwaitCreateBackup /\ pc[c] \in {"await", "polling"}
  /\ lro[c][operation[c].name] = "running"
  /\ lro' = [lro EXCEPT ![c][operation[c].name] = "cancelled"]
  /\ UNCHANGED <<method, clientVars, executed, bindings, etag>>

(***************************************************************************)
(* SetIamPolicy() with an updater.                                         *)
(***************************************************************************)
\* GetIamPolicy() fails.
GetFails(c) ==
  /\ pc[c] = "get"
  /\ \E st \in {Unavailable, InvalidArgument, Aborted} : TryFails(c, st, TRUE)
  /\ UNCHANGED <<method, polls, operation, listed, current, serviceVars>>

\* It returns the policy and its etag.
GetSucceeds(c) ==
  /\ pc[c] = "get"
  /\ current' = [current EXCEPT ![c] = [bindings |-> bindings, etag |-> etag]]
  /\ failures' = [failures EXCEPT ![c] = 0]
  /\ Goto(c, "update")
  /\ UNCHANGED <<method, reruns, polls, operation, result, listed, serviceVars>>

\* The updater leaves the policy as it is, which is then returned.
UpdaterDeclines(c) ==
  /\ pc[c] = "update"
  /\ Finish(c, OkStatus)
  /\ UNCHANGED <<method, failures, reruns, polls, operation, listed, current,
                 serviceVars>>

\* It returns the policy with a change of its own in it.
UpdaterChanges(c) ==
  /\ pc[c] = "update"
  /\ current' = [current EXCEPT ![c].bindings[c] = @ + 1]
  /\ Goto(c, "set")
  /\ UNCHANGED <<method, failures, reruns, polls, operation, result, listed,
                 serviceVars>>

\* Mutant: the etag of the policy that was read is not set in the new one.
SentEtag_None(c) == NoEtag

\* The etag in the SetIamPolicyRequest: the one that was read, whatever the
\* updater has put there.
SentEtag(c) == current[c].etag

\* A request with an etag replaces only the policy of that etag.
Matches(c) == SentEtag(c) \in {NoEtag, etag}

\* The service replaces the policy.
Replaces(c) == bindings' = current[c].bindings /\ etag' = etag + 1

\* SetIamPolicy() fails and has changed nothing.
SetRefused(c) ==
  /\ pc[c] = "set"
  /\ \E st \in {Unavailable, InvalidArgument, Aborted} :
       /\ st = Aborted => ~Matches(c)
       /\ TryFails(c, st, SentEtag(c) # NoEtag)
  /\ UNCHANGED <<method, polls, operation, listed, current, serviceVars>>

\* It replaces the policy but the answer is lost.
SetAnswerLost(c) ==
  /\ pc[c] = "set" /\ Matches(c)
  /\ Replaces(c)
  /\ TryFails(c, Unavailable, SentEtag(c) # NoEtag)
  /\ UNCHANGED <<method, polls, operation, listed, current, executed, lro>>

\* It replaces the policy.
SetSucceeds(c) ==
  /\ pc[c] = "set" /\ Matches(c)
  /\ Replaces(c)
  /\ Finish(c, OkStatus)
  /\ UNCHANGED <<method, failures, reruns, polls, operation, listed, current,
                 executed, lro>>

(***************************************************************************)
(* The specification.                                                      *)
(***************************************************************************)
ClientStep(c) ==
  \/ Start(c)
  \/ CallRefused(c) \/ CallAnswerLost(c) \/ CallSucceeds(c)
  \/ PageSucceeds(c) \/ StartSucceeds(c)
  \/ AwaitEnds(c) \/ AwaitSleeps(c) \/ PollFindsDone(c) \/ PollFindsNothing(c)
  \/ GetFails(c) \/ GetSucceeds(c)
  \/ UpdaterDeclines(c) \/ UpdaterChanges(c)
  \/ SetRefused(c) \/ SetAnswerLost(c) \/ SetSucceeds(c)

Next == \E c \in Callers : ClientStep(c) \/ OperationEnds(c) \/ Cancel(c)

\* The threads of the callers and the polling threads run, and every RPC
\* returns.  Nothing is asked of the operations.
Fairness == \A c \in Callers : WF_vars(ClientStep(c))

Spec == Init /\ [][Next]_vars /\ Fairness

(***************************************************************************)
(* Properties.                                                             *)
(***************************************************************************)
\* A request that is not idempotent is executed at most once, whatever
\* answers are lost.
AtMostOneExecution ==
  \A c \in Callers : method[c] \in NonIdempotent => executed[c] <= 1

\* What a call or a future reports is so: a call that returned OK was
\* executed, a range that ended without an error has had every page, and a
\* future has the outcome of the very operation that was started.
ResultIsHonest ==
  \A c \in Callers : result[c] # Pending =>
    LET is == IF operation[c].name = 0 THEN "none"
              ELSE lro[c][operation[c].name]
    IN
    /\ IsOk(result[c]) =>
         CASE method[c] \in LongRunning -> Extracts(method[c]) \in FieldsOf(is)
           [] method[c] \in Lists -> listed[c] = NumPages
           [] method[c] = "SetIamPolicyUpdater" -> current[c].etag # NoEtag
           [] OTHER -> executed[c] > 0
    /\ result[c] = OperationFailed => is = "failed"
    /\ result[c] = Cancelled => is = "cancelled"
    /\ result[c] = NoResult => is \in {"no_response", "empty"}

\* Two callers that update the policy do not undo each other's changes: what
\* is in a policy that SetIamPolicy() has returned stays in the policy.
NoLostUpdate ==
  \A c, d \in Callers :
    method[c] = "SetIamPolicyUpdater" /\ IsOk(result[c])
      => current[c].bindings[d] <= bindings[d]

\* Every call returns and every future is satisfied, even if the operation
\* never ends.
CallsReturn == \A c \in Callers : <>(pc[c] = "done")
=============================================================================
