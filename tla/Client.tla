------------------------------- MODULE Client -------------------------------
(***************************************************************************)
(* Client::Commit() with a mutator (client.cc) on top of ConnectionImpl    *)
(* (connection_impl.cc), the retry loops of its RPCs, a pool of sessions   *)
(* and a service that aborts transactions, loses sessions and answers.     *)
(*                                                                         *)
(* A caller runs its mutator in a transaction.  The mutator makes requests *)
(* and ends in one of four ways: mutations, a bad status, an exception     *)
(* with a status, any other exception.  Commit() then commits, rolls back, *)
(* or reruns the mutator in a new transaction.                             *)
(*                                                                         *)
(* An RPC is a step: the service executes the request or not, and the      *)
(* client gets the answer or kUnavailable.  An RPC that is retried is as   *)
(* many steps as it has tries.  The pool is modelled by the sessions that  *)
(* are idle; SessionPool has the rest of it.                               *)
(***************************************************************************)
EXTENDS RetryLoop, FiniteSets

CONSTANTS
  Callers,        \* threads that call Commit()
  Sessions,       \* sessions of the pool
  Ids,            \* transaction ids the service can assign
  MaxReruns,      \* failures the TransactionRerunPolicy tolerates
  MaxFailures,    \* failures the RetryPolicy of an RPC tolerates
  MaxRequests     \* bound: requests of a mutator in one attempt

ASSUME ClientAssumption ==
  /\ MaxReruns \in Nat /\ MaxFailures \in Nat /\ MaxRequests \in Nat
  /\ "null" \notin Sessions /\ "begin" \notin Ids

VARIABLES
  pc,             \* where a caller is
  session,        \* session of the caller's transaction, or Null
  selector,       \* "begin" or the id of the caller's transaction
  status,         \* status the caller goes on with
  seen,           \* failures that the mutator got from its requests
  requests,       \* requests made in this attempt
  reruns,         \* failures counted by the rerun policy
  failures,       \* failures counted by the retry policy of the RPC
  thrown,         \* the mutator threw something that is not a status
  rb_status,      \* result of Rollback(), which is only logged, or NotCalled
  known,          \* history: ids that the caller's attempts have had
  idle,           \* sessions in the pool
  others,         \* sessions held by other users of the pool
  bad,            \* sessions marked bad
  reported,       \* history: sessions a status has reported as lost
  lost,           \* sessions the service no longer has
  state,          \* state of every transaction at the service
  home            \* session of every transaction at the service

loopVars == <<status, seen, requests, reruns, thrown, rb_status>>
poolVars == <<idle, others, bad, reported>>
serviceVars == <<lost, state, home>>
vars == <<pc, session, selector, loopVars, failures, known, poolVars,
          serviceVars>>

Null == "null"

Unknown == MakeStatus("kUnknown", {"OK Status thrown from mutator"})
Exhausted == MakeStatus("kResourceExhausted", {"session pool exhausted"})

NotCalled == MakeStatus("not_called", {})

\* The RPCs in which a caller can be.
Rpcs == {"request", "begin", "commit", "rollback"}

TypeOK ==
  /\ pc \in [Callers -> {"start", "mutator", "prepare_request",
                         "prepare_commit", "prepare_rollback", "judge",
                         "return", "done"} \cup Rpcs]
  /\ session \in [Callers -> Sessions \cup {Null}]
  /\ selector \in [Callers -> Ids \cup {"begin"}]
  /\ requests \in [Callers -> 0 .. MaxRequests]
  /\ reruns \in [Callers -> 0 .. MaxReruns]
  /\ failures \in [Callers -> 0 .. MaxFailures]
  /\ thrown \in [Callers -> BOOLEAN]
  /\ known \in [Callers -> SUBSET Ids]
  /\ idle \subseteq Sessions /\ others \subseteq Sessions
  /\ bad \subseteq Sessions
  /\ reported \subseteq Sessions /\ lost \subseteq Sessions
  /\ state \in [Ids -> {"unused", "active", "committed", "aborted",
                        "rolled_back"}]
  /\ home \in [Ids -> Sessions \cup {Null}]

Init ==
  /\ pc = [c \in Callers |-> "start"]
  /\ session = [c \in Callers |-> Null]
  /\ selector = [c \in Callers |-> "begin"]
  /\ status = [c \in Callers |-> OkStatus]
  /\ seen = [c \in Callers |-> {}]
  /\ requests = [c \in Callers |-> 0]
  /\ reruns = [c \in Callers |-> 0]
  /\ failures = [c \in Callers |-> 0]
  /\ thrown = [c \in Callers |-> FALSE]
  /\ rb_status = [c \in Callers |-> NotCalled]
  /\ known = [c \in Callers |-> {}]
  /\ idle = Sessions /\ others = {} /\ bad = {} /\ reported = {} /\ lost = {}
  /\ state = [i \in Ids |-> "unused"]
  /\ home = [i \in Ids |-> Null]

Goto(c, place) == pc' = [pc EXCEPT ![c] = place]
SetStatus(c, st) == status' = [status EXCEPT ![c] = st]

(***************************************************************************)
(* The service.                                                            *)
(***************************************************************************)
\* Nothing is of interest when all calls have returned.
Running == \E c \in Callers : pc[c] # "done"

\* A transaction is aborted, for a conflict or any other reason.
AbortTransaction(i) ==
  /\ Running /\ state[i] = "active"
  /\ state' = [state EXCEPT ![i] = "aborted"]
  /\ UNCHANGED <<pc, session, selector, loopVars, failures, known, poolVars,
                 lost, home>>

\* Nobody will hear of a transaction again that is over and that no caller
\* uses: its id stands for a new one from now on.
ForgetTransaction(i) ==
  /\ Running /\ state[i] \in {"aborted", "rolled_back"}
  /\ \A c \in Callers : selector[c] # i
  /\ state' = [state EXCEPT ![i] = "unused"]
  /\ home' = [home EXCEPT ![i] = Null]
  /\ known' = [c \in Callers |-> known[c] \ {i}]
  /\ UNCHANGED <<pc, session, selector, loopVars, failures, poolVars, lost>>

\* A session is deleted, and its active transactions with it.
LoseSession(s) ==
  /\ Running /\ s \notin lost
  /\ lost' = lost \cup {s}
  /\ state' = [i \in Ids |-> IF home[i] = s /\ state[i] = "active"
                             THEN "aborted" ELSE state[i]]
  /\ UNCHANGED <<pc, session, selector, loopVars, failures, known, poolVars,
                 home>>

\* How the service can refuse a request of caller c.  A commit or a rollback
\* that it has executed already is not refused.
Refusals(c) ==
  CASE session[c] \in lost -> {SessionNotFound}
    [] session[c] \notin lost /\ selector[c] \notin Ids -> {NotFound}
    [] session[c] \notin lost /\ selector[c] \in Ids ->
         CASE state[selector[c]] = "aborted" -> {Aborted}
           [] state[selector[c]] = "active" -> {NotFound}
           [] OTHER -> {}

\* Can it execute the request?
Accepts(c) ==
  /\ session[c] \notin lost
  /\ selector[c] \in Ids => state[selector[c]] # "aborted"

\* The ids are interchangeable: the service assigns them in a fixed order.
IsNextId(i) ==
  state[i] = "unused" /\ i = CHOOSE j \in Ids : state[j] = "unused"

\* The service begins a transaction for caller c.
Begins(c, i) ==
  /\ Accepts(c)
  /\ IsNextId(i)
  /\ state' = [state EXCEPT ![i] = "active"]
  /\ home' = [home EXCEPT ![i] = session[c]]
  /\ UNCHANGED lost

\* The service ends the transaction of caller c.  To repeat a commit or a
\* rollback changes nothing and gives the same answer.
Ends(c, end) ==
  /\ Accepts(c)
  /\ state' = [state EXCEPT ![selector[c]] =
                 IF @ = "active" THEN end ELSE @]
  /\ UNCHANGED <<lost, home>>

(***************************************************************************)
(* Transactions and their sessions.                                        *)
(***************************************************************************)
\* Dropping the last holder of a session returns it to the pool, unless it
\* is bad.
Release(s) == IF s = Null \/ s \in bad THEN idle ELSE idle \cup {s}

\* Other users of the pool take sessions and return them.
OthersAllocate(s) ==
  /\ Running /\ s \in idle
  /\ idle' = idle \ {s} /\ others' = others \cup {s}
  /\ UNCHANGED <<pc, session, selector, loopVars, failures, known, bad,
                 reported, serviceVars>>

OthersRelease(s) ==
  /\ s \in others
  /\ idle' = Release(s) /\ others' = others \ {s}
  /\ UNCHANGED <<pc, session, selector, loopVars, failures, known, bad,
                 reported, serviceVars>>

\* PrepareSession(): the transaction has a session, or gets one from the pool,
HasSession(c) ==
  \/ session[c] # Null /\ UNCHANGED <<session, idle>>
  \/ /\ session[c] = Null
     /\ \E s \in idle :
          session' = [session EXCEPT ![c] = s] /\ idle' = idle \ {s}

\* or the pool has none.
NoSession(c) == session[c] = Null /\ idle = {} /\ UNCHANGED <<session, idle>>

\* Mutant: the session of a failed RPC stays as it is.
BadAfter_Unchanged(c, st) == bad

\* Every functor that gets a status looks for a lost session in it.
BadAfter(c, st) == IF IsSessionNotFound(st) THEN bad \cup {session[c]} ELSE bad

MarkBad(c, st) ==
  /\ bad' = BadAfter(c, st)
  /\ reported' = IF IsSessionNotFound(st)
                 THEN reported \cup {session[c]} ELSE reported

\* An RPC has failed for good: the functor returns the error to the mutator,
\* to Commit(), or to the part of Commit() that logs it.
Fails(c, st) ==
  /\ MarkBad(c, st)
  /\ failures' = [failures EXCEPT ![c] = 0]
  /\ \/ /\ pc[c] = "request" /\ Goto(c, "mutator")
        /\ seen' = [seen EXCEPT ![c] = @ \cup {st}]
        /\ UNCHANGED <<status, rb_status>>
     \/ /\ pc[c] \in {"begin", "commit"} /\ Goto(c, "judge")
        /\ SetStatus(c, st)
        /\ UNCHANGED <<seen, rb_status>>
     \/ /\ pc[c] = "rollback" /\ Goto(c, "return")
        /\ rb_status' = [rb_status EXCEPT ![c] = st]
        /\ UNCHANGED <<seen, status>>

\* What the service does when it executes the request of the RPC.
Executes(c) ==
  \/ /\ pc[c] = "begin" \/ (pc[c] = "request" /\ selector[c] = "begin")
     /\ \E i \in Ids : Begins(c, i)
  \/ /\ pc[c] = "request" /\ selector[c] \in Ids
     /\ Accepts(c) /\ UNCHANGED serviceVars
  \/ pc[c] = "commit" /\ Ends(c, "committed")
  \/ pc[c] = "rollback" /\ Ends(c, "rolled_back")

\* A try of an RPC that gets no answer or a refusal, in RetryLoop().
TryFails(c, st) ==
  /\ \/ /\ CallsAgain(TRUE, st, failures[c], MaxFailures)
        /\ failures' = [failures EXCEPT ![c] = @ + 1]
        /\ UNCHANGED <<pc, status, seen, rb_status, bad, reported>>
     \/ /\ ~CallsAgain(TRUE, st, failures[c], MaxFailures)
        /\ Fails(c, LoopResult(TRUE, st))
  /\ UNCHANGED <<session, selector, requests, reruns, thrown, known, idle,
                 others>>

Refused(c) ==
  /\ pc[c] \in Rpcs
  /\ \E st \in Refusals(c) \cup {Unavailable} : TryFails(c, st)
  /\ UNCHANGED serviceVars

AnswerLost(c) ==
  /\ pc[c] \in Rpcs
  /\ Executes(c)
  /\ TryFails(c, Unavailable)

(***************************************************************************)
(* The mutator.                                                            *)
(***************************************************************************)
MutatorRequests(c) ==
  /\ pc[c] = "mutator" /\ requests[c] < MaxRequests
  /\ requests' = [requests EXCEPT ![c] = @ + 1]
  /\ Goto(c, "prepare_request")
  /\ UNCHANGED <<session, selector, status, seen, reruns, thrown, rb_status,
                 failures, known, poolVars, serviceVars>>

PrepareRequest(c) ==
  /\ pc[c] = "prepare_request"
  /\ \/ HasSession(c) /\ Goto(c, "request") /\ UNCHANGED seen
     \/ /\ NoSession(c) /\ Goto(c, "mutator")
        /\ seen' = [seen EXCEPT ![c] = @ \cup {Exhausted}]
  /\ UNCHANGED <<selector, status, requests, reruns, thrown, rb_status,
                 failures, known, others, bad, reported, serviceVars>>

\* The transaction has the id that came with the answer to its first request.
Learns(c, i) ==
  /\ selector' = [selector EXCEPT ![c] = i]
  /\ known' = [known EXCEPT ![c] = @ \cup {i}]

\* A read, query or DML statement succeeds.  A batch of statements whose first
\* one failed succeeds too, and brings no id.
RequestSucceeds(c) ==
  /\ pc[c] = "request"
  /\ \/ /\ selector[c] = "begin"
        /\ \E i \in Ids : Begins(c, i) /\ Learns(c, i)
     \/ Accepts(c) /\ UNCHANGED <<selector, known, serviceVars>>
  /\ failures' = [failures EXCEPT ![c] = 0]
  /\ Goto(c, "mutator")
  /\ UNCHANGED <<session, loopVars, poolVars>>

\* A stream of rows that the mutator reads fails after its first message: the
\* functor that made it has returned and looks at the status no more.
StreamBreaks(c) ==
  /\ pc[c] = "mutator" /\ selector[c] \in Ids
  /\ \E st \in Refusals(c) \ seen[c] :
       seen' = [seen EXCEPT ![c] = @ \cup {st}]
  /\ UNCHANGED <<pc, session, selector, status, requests, reruns, thrown,
                 rb_status, failures, known, poolVars, serviceVars>>

(***************************************************************************)
(* Commit().                                                               *)
(***************************************************************************)
\* MakeReadWriteTransaction() and the first call of the mutator.
Start(c) ==
  /\ pc[c] = "start"
  /\ Goto(c, "mutator")
  /\ UNCHANGED <<session, selector, loopVars, failures, known, poolVars,
                 serviceVars>>

MutatorSucceeds(c) ==
  /\ pc[c] = "mutator"
  /\ SetStatus(c, OkStatus)
  /\ Goto(c, "prepare_commit")
  /\ UNCHANGED <<session, selector, seen, requests, reruns, thrown, rb_status,
                 failures, known, poolVars, serviceVars>>

\* The mutator returns or throws a bad status: one it was given, one of its
\* own that is not rerunnable, or the one that Commit() makes of an OK status
\* that was thrown.
MutatorFails(c) ==
  /\ pc[c] = "mutator"
  /\ \E st \in seen[c] \cup {InvalidArgument, Unknown} :
       /\ SetStatus(c, st)
       /\ Goto(c, IF IsRerunnable(st) THEN "judge" ELSE "prepare_rollback")
  /\ UNCHANGED <<session, selector, seen, requests, reruns, thrown, rb_status,
                 failures, known, poolVars, serviceVars>>

MutatorThrows(c) ==
  /\ pc[c] = "mutator"
  /\ thrown' = [thrown EXCEPT ![c] = TRUE]
  /\ Goto(c, "prepare_rollback")
  /\ UNCHANGED <<session, selector, status, seen, requests, reruns, rb_status,
                 failures, known, poolVars, serviceVars>>

\* CommitImpl(): a transaction that has no id yet is begun first.
PrepareCommit(c) ==
  /\ pc[c] = "prepare_commit"
  /\ \/ /\ HasSession(c)
        /\ Goto(c, IF selector[c] \in Ids THEN "commit" ELSE "begin")
        /\ UNCHANGED status
     \/ NoSession(c) /\ Goto(c, "judge") /\ SetStatus(c, Exhausted)
  /\ UNCHANGED <<selector, seen, requests, reruns, thrown, rb_status, failures,
                 known, others, bad, reported, serviceVars>>

BeginSucceeds(c) ==
  /\ pc[c] = "begin"
  /\ \E i \in Ids : Begins(c, i) /\ Learns(c, i)
  /\ failures' = [failures EXCEPT ![c] = 0]
  /\ Goto(c, "commit")
  /\ UNCHANGED <<session, loopVars, poolVars>>

CommitSucceeds(c) ==
  /\ pc[c] = "commit"
  /\ Ends(c, "committed")
  /\ failures' = [failures EXCEPT ![c] = 0]
  /\ Goto(c, "return")
  /\ UNCHANGED <<session, selector, loopVars, known, poolVars>>

\* Mutant: no transaction is rolled back at the service.
NothingToRollback_Always(c) == TRUE

NothingToRollback(c) == selector[c] = "begin"

\* RollbackImpl(): nothing is sent for a transaction that has no id.
PrepareRollback(c) ==
  /\ pc[c] = "prepare_rollback"
  /\ \/ /\ HasSession(c) /\ ~NothingToRollback(c)
        /\ Goto(c, "rollback") /\ UNCHANGED rb_status
     \/ /\ HasSession(c) /\ NothingToRollback(c)
        /\ Goto(c, "return")
        /\ rb_status' = [rb_status EXCEPT ![c] = OkStatus]
     \/ /\ NoSession(c)
        /\ Goto(c, "return")
        /\ rb_status' = [rb_status EXCEPT ![c] = Exhausted]
  /\ UNCHANGED <<selector, status, seen, requests, reruns, thrown, failures,
                 known, others, bad, reported, serviceVars>>

RollbackSucceeds(c) ==
  /\ pc[c] = "rollback"
  /\ Ends(c, "rolled_back")
  /\ failures' = [failures EXCEPT ![c] = 0]
  /\ rb_status' = [rb_status EXCEPT ![c] = OkStatus]
  /\ Goto(c, "return")
  /\ UNCHANGED <<session, selector, status, seen, requests, reruns, thrown,
                 known, poolVars>>

\* Mutant: a rerun in the same session is not counted.
CountRerun_OnlyLost(c) ==
  reruns' = [reruns EXCEPT ![c] = IF IsSessionNotFound(status[c])
                                  THEN @ + 1 ELSE @]

CountRerun(c) == reruns' = [reruns EXCEPT ![c] = @ + 1]

\* A lost session is left behind, any other is used by the next attempt.
NextSession(c) == IF IsSessionNotFound(status[c]) THEN Null ELSE session[c]

\* The attempt has failed with a status that may be rerunnable: return it, or
\* run the mutator again in a new transaction.
Judge(c) ==
  /\ pc[c] = "judge"
  /\ \/ /\ \/ ~IsRerunnable(status[c])
           \/ ~OnFailure(FALSE, reruns[c], MaxReruns)
        /\ Goto(c, "return")
        /\ UNCHANGED <<session, selector, seen, requests, reruns, poolVars>>
     \/ /\ IsRerunnable(status[c])
        /\ OnFailure(FALSE, reruns[c], MaxReruns)
        /\ CountRerun(c)
        /\ MarkBad(c, status[c])
        /\ session' = [session EXCEPT ![c] = NextSession(c)]
        /\ idle' = IF session'[c] = session[c] THEN idle
                   ELSE idle \cup ({session[c]} \ bad')
        /\ UNCHANGED others
        /\ selector' = [selector EXCEPT ![c] = "begin"]
        /\ seen' = [seen EXCEPT ![c] = {}]
        /\ requests' = [requests EXCEPT ![c] = 0]
        /\ Goto(c, "mutator")
  /\ UNCHANGED <<status, thrown, rb_status, failures, known, serviceVars>>

\* Commit() returns its result or rethrows; the transaction is destroyed.
Return(c) ==
  /\ pc[c] = "return"
  /\ Goto(c, "done")
  /\ idle' = Release(session[c])
  /\ session' = [session EXCEPT ![c] = Null]
  /\ UNCHANGED <<selector, loopVars, failures, known, others, bad, reported,
                 serviceVars>>

RpcStep(c) ==
  \/ Refused(c) \/ AnswerLost(c) \/ RequestSucceeds(c) \/ BeginSucceeds(c)
  \/ CommitSucceeds(c) \/ RollbackSucceeds(c)

MutatorEnds(c) == MutatorSucceeds(c) \/ MutatorFails(c) \/ MutatorThrows(c)

LocalStep(c) ==
  \/ PrepareRequest(c) \/ PrepareCommit(c) \/ PrepareRollback(c)
  \/ Judge(c) \/ Return(c)

Next ==
  \/ \E c \in Callers :
       \/ Start(c) \/ MutatorRequests(c) \/ StreamBreaks(c) \/ MutatorEnds(c)
       \/ RpcStep(c) \/ LocalStep(c)
  \/ \E i \in Ids : AbortTransaction(i) \/ ForgetTransaction(i)
  \/ \E s \in Sessions :
       LoseSession(s) \/ OthersAllocate(s) \/ OthersRelease(s)

\* RPCs end, mutators return, and a thread that can go on does.
Fairness ==
  \A c \in Callers :
    WF_vars(RpcStep(c)) /\ WF_vars(MutatorEnds(c)) /\ WF_vars(LocalStep(c))

Spec == Init /\ [][Next]_vars /\ Fairness

(***************************************************************************)
(* Properties.                                                             *)
(***************************************************************************)
Over(c, i) == i # selector[c] \/ pc[c] = "done"

\* What Commit() reports is what has happened: a success means that its last
\* transaction is committed; a transaction of an attempt that was abandoned,
\* or whose failure was reported, is not committed.  There are two exceptions.
\* kUnavailable says nothing about the commit it ends.  And if the service
\* loses the session between the commit and an answer that gets through, the
\* retried Commit() RPC is told "Session not found" and the mutator is rerun.
OutcomeIsHonest ==
  \A c \in Callers :
    /\ pc[c] = "done" /\ ~thrown[c] /\ IsOk(status[c]) =>
         selector[c] \in Ids /\ state[selector[c]] = "committed"
    /\ \A i \in known[c] : Over(c, i) /\ state[i] = "committed" =>
         \/ home[i] \in lost
         \/ /\ i = selector[c] /\ ~thrown[c]
            /\ status[c].code \in {"kOk", "kUnavailable"}

\* No attempt leaves its transaction open at the service (client.h: "If the
\* mutator returns a non-rerunnable status ... the transaction is rolled
\* back"; a rerunnable status is only given by a transaction that is over).
\* Left are a Rollback() that failed itself, which is only logged, and a
\* Commit() that failed with a status that is not rerunnable.
NothingLeftOpen ==
  \A c \in Callers : \A i \in known[c] :
    Over(c, i) /\ state[i] = "active" =>
      /\ i = selector[c]
      /\ \/ rb_status[c] \notin {NotCalled, OkStatus}
         \/ rb_status[c] = NotCalled /\ ~IsRerunnable(status[c])

\* A session that a status has reported as lost does not get back into the
\* pool, whoever got the status, and no two users have the same session,
\* also when a transaction inherits the session of another.
SessionsKeptApart ==
  /\ reported \cap idle = {}
  /\ idle \cap others = {}
  /\ \A c \in Callers : session[c] \notin idle \cup others
  /\ \A c, d \in Callers :
       c # d /\ session[c] # Null => session[c] # session[d]

\* Every call of Commit() returns: the policies bound the reruns of the
\* mutator and the tries of each RPC, whatever the service does.
CommitReturns == \A c \in Callers : pc[c] = "mutator" ~> pc[c] = "done"
=============================================================================
