-------------------------- MODULE TransactionImpl --------------------------
(***************************************************************************)
(* One transaction shared by threads: TransactionImpl::Visit()             *)
(* (google/cloud/spanner/internal/transaction_impl.h) and the functors     *)
(* that ConnectionImpl (connection_impl.cc) runs under it.                 *)
(*                                                                         *)
(* The first successful request of a transaction begins it on the service  *)
(* and learns its id.  Until then Visit() runs one functor at a time and   *)
(* the other visitors wait; from then on functors run concurrently.        *)
(*                                                                         *)
(* A functor takes several steps: it looks for a session, perhaps blocks   *)
(* in SessionPool::Allocate(), sends its request and gets the response.    *)
(* Its result, and what it does with rows, are not modelled.               *)
(***************************************************************************)
EXTENDS Integers, FiniteSets

CONSTANTS
  Visitors,       \* threads that use the transaction
  Sessions,       \* sessions the pool can hand out
  Ids,            \* transaction ids the service can assign
  MaxVisits       \* bound: calls of Visit()

ASSUME TransactionAssumption ==
  /\ MaxVisits \in Nat
  /\ "begin" \notin Ids /\ "single_use" \notin Ids
  /\ "null" \notin Sessions

VARIABLES
  state_,         \* kBegin, kPending or kDone
  seqno_,
  session_,       \* the session of the transaction, or Null
  selector_,      \* "begin", "single_use" or the id
  cond_,          \* visitors blocked on the condition variable
  pc,
  seqno,          \* sequence number of each visit
  exclusive,      \* visitors that set kPending and have to reset it
  used,           \* session in the request a functor has sent
  sent,           \* selector in that request
  begun           \* ids the service has assigned and reported

vars == <<state_, seqno_, session_, selector_, cond_, pc, seqno, exclusive,
          used, sent, begun>>

Null == "null"
HasBegin == selector_ = "begin"

\* Where a functor can be between its start and its end.
InFunctor == {"prepare", "allocate", "send", "rpc", "end", "throw"}

TypeOK ==
  /\ state_ \in {"kBegin", "kPending", "kDone"}
  /\ seqno_ \in Nat
  /\ session_ \in Sessions \cup {Null}
  /\ selector_ \in Ids \cup {"begin", "single_use"}
  /\ cond_ \in SUBSET Visitors
  /\ pc \in [Visitors -> {"out", "wait", "notify_one", "notify_all"}
                           \cup InFunctor]
  /\ seqno \in [Visitors -> Nat]
  /\ exclusive \in SUBSET Visitors
  /\ used \in [Visitors -> Sessions \cup {Null}]
  /\ sent \in [Visitors -> Ids \cup {"begin", "single_use"}]
  /\ begun \in SUBSET Ids

\* The constructors.  A transaction made to rerun another one starts with the
\* session of that one.  (A transaction made from ids, in another process, is
\* one whose id is known: state_ is kDone from the start.)
Init ==
  /\ selector_ \in Ids \cup {"begin", "single_use"}
  /\ session_ \in CASE selector_ \in Ids -> Sessions
                     [] selector_ = "begin" -> Sessions \cup {Null}
                     [] selector_ = "single_use" -> {Null}
  /\ state_ = IF HasBegin THEN "kBegin" ELSE "kDone"
  /\ seqno_ = 0
  /\ cond_ = {}
  /\ pc = [v \in Visitors |-> "out"]
  /\ seqno = [v \in Visitors |-> 0]
  /\ exclusive = {}
  /\ used = [v \in Visitors |-> Null]
  /\ sent = [v \in Visitors |-> selector_]
  /\ begun = {selector_} \cap Ids

(***************************************************************************)
(* Visit().                                                                *)
(***************************************************************************)
\* Mutant: nobody waits for the visitor that begins the transaction.
MayProceed_Always == TRUE

\* The predicate of the wait.
MayProceed == state_ # "kPending"

\* Past the wait: run the functor, alone unless the transaction has an id.
Proceed(v) ==
  /\ MayProceed
  /\ IF state_ = "kDone"
     THEN UNCHANGED <<state_, exclusive>>
     ELSE state_' = "kPending" /\ exclusive' = exclusive \cup {v}
  /\ pc' = [pc EXCEPT ![v] = "prepare"]
  /\ UNCHANGED <<session_, selector_, used, sent, begun>>

\* Visit() up to its wait, or past it when nobody is active.  The connection
\* makes a single-use transaction for one call and shows it to nobody else.
Visit(v) ==
  /\ pc[v] = "out"
  /\ seqno_ < MaxVisits
  /\ selector_ = "single_use" => seqno_ = 0
  /\ seqno_' = seqno_ + 1
  /\ seqno' = [seqno EXCEPT ![v] = seqno_ + 1]
  /\ \/ Proceed(v) /\ UNCHANGED cond_
     \/ /\ ~MayProceed
        /\ pc' = [pc EXCEPT ![v] = "wait"]
        /\ cond_' = cond_ \cup {v}
        /\ UNCHANGED <<state_, session_, selector_, exclusive, used, sent,
                       begun>>

\* A visitor that is no longer blocked on cond_ gets mu_ back.
Reacquire(v) ==
  /\ pc[v] = "wait" /\ v \notin cond_
  /\ \/ Proceed(v) /\ UNCHANGED cond_
     \/ /\ ~MayProceed
        /\ cond_' = cond_ \cup {v}
        /\ UNCHANGED <<state_, session_, selector_, pc, exclusive, used, sent,
                       begun>>
  /\ UNCHANGED <<seqno_, seqno>>

\* Mutant: a functor that throws leaves the transaction marked as begun.
StateAfter_ThrowIsDone(v) ==
  IF HasBegin /\ pc[v] # "throw" THEN "kBegin" ELSE "kDone"

StateAfter(v) == IF HasBegin \/ pc[v] = "throw" THEN "kBegin" ELSE "kDone"

\* Mutant: one visitor is woken when all can go on.
WakeupFor_One(state) == "notify_one"

\* Mutant: nobody is woken to try again after a failure.
WakeupFor_OnlyDone(state) == IF state = "kDone" THEN "notify_all" ELSE "out"

WakeupFor(state) == IF state = "kDone" THEN "notify_all" ELSE "notify_one"

\* The functor has returned or thrown; an exclusive visitor resets the state
\* and unlocks mu_ before it notifies.
EndVisit(v) ==
  /\ pc[v] \in {"end", "throw"}
  /\ \/ /\ v \notin exclusive
        /\ pc' = [pc EXCEPT ![v] = "out"]
        /\ UNCHANGED <<state_, exclusive>>
     \/ /\ v \in exclusive
        /\ exclusive' = exclusive \ {v}
        /\ state_' = StateAfter(v)
        /\ pc' = [pc EXCEPT ![v] = WakeupFor(StateAfter(v))]
  /\ UNCHANGED <<seqno_, session_, selector_, cond_, seqno, used, sent, begun>>

Notify(v) ==
  /\ \/ /\ pc[v] = "notify_one"
        /\ \/ cond_ = {} /\ UNCHANGED cond_
           \/ \E w \in cond_ : cond_' = cond_ \ {w}
     \/ pc[v] = "notify_all" /\ cond_' = {}
  /\ pc' = [pc EXCEPT ![v] = "out"]
  /\ UNCHANGED <<state_, seqno_, session_, selector_, seqno, exclusive, used,
                 sent, begun>>

SpuriousWakeup(v) ==
  /\ v \in cond_
  /\ cond_' = cond_ \ {v}
  /\ UNCHANGED <<state_, seqno_, session_, selector_, pc, seqno, exclusive,
                 used, sent, begun>>

(***************************************************************************)
(* The functors.                                                           *)
(***************************************************************************)
visitVars == <<state_, seqno_, cond_, seqno, exclusive>>

\* Mutant: a session the transaction already has is not looked at.
NoSession_Always == TRUE

NoSession == session_ = Null

\* PrepareSession() looks at the holder, then allocates and assigns.
PrepareSession(v) ==
  /\ pc[v] = "prepare"
  /\ pc' = [pc EXCEPT ![v] = IF NoSession THEN "allocate" ELSE "send"]
  /\ UNCHANGED <<visitVars, session_, selector_, used, sent, begun>>

AllocateReturns(v) ==
  /\ pc[v] = "allocate"
  /\ \/ /\ session_' \in Sessions
        /\ pc' = [pc EXCEPT ![v] = "send"]
     \/ /\ pc' = [pc EXCEPT ![v] = "end"]
        /\ UNCHANGED session_
  /\ UNCHANGED <<visitVars, selector_, used, sent, begun>>

\* The request carries the session and the selector of this moment.
SendRequest(v) ==
  /\ pc[v] = "send"
  /\ used' = [used EXCEPT ![v] = session_]
  /\ sent' = [sent EXCEPT ![v] = selector_]
  /\ pc' = [pc EXCEPT ![v] = "rpc"]
  /\ UNCHANGED <<visitVars, session_, selector_, begun>>

\* Rollback of a transaction that has no id makes no request: it succeeds, or
\* is an error for a single-use transaction.
RollbackUnbegun(v) ==
  /\ pc[v] = "send"
  /\ selector_ \notin Ids
  /\ pc' = [pc EXCEPT ![v] = "end"]
  /\ UNCHANGED <<visitVars, session_, selector_, used, sent, begun>>

\* The service begins a transaction: the request asked for one and its
\* response has the id, or CommitImpl() and ExecutePartitionedDmlImpl() have
\* called BeginTransaction() and go on to a second request, with the id, after
\* which they may fail or throw.
BeginSucceeds(v) ==
  /\ pc[v] = "rpc"
  /\ \E id \in Ids \ begun :
       /\ begun' = begun \cup {id}
       /\ \/ sent[v] = "begin" /\ selector_' = IF HasBegin THEN id ELSE selector_
          \/ sent[v] \notin Ids /\ selector_' = id
  /\ \/ pc' = [pc EXCEPT ![v] = "end"]
     \/ pc' = [pc EXCEPT ![v] = "throw"]
  /\ UNCHANGED <<visitVars, session_, used, sent>>

\* Any other response: a request that had an id or was for single use, a
\* failure, or a success without a transaction (a batch of DML statements the
\* first of which failed).
Responds(v) ==
  /\ pc[v] = "rpc"
  /\ \/ pc' = [pc EXCEPT ![v] = "end"]
     \/ pc' = [pc EXCEPT ![v] = "throw"]
  /\ UNCHANGED <<visitVars, session_, selector_, used, sent, begun>>

\* A step of a functor that does not wait for the session pool.
OwnStep(v) ==
  PrepareSession(v) \/ SendRequest(v) \/ RollbackUnbegun(v)
    \/ BeginSucceeds(v) \/ Responds(v)

FunctorStep(v) == OwnStep(v) \/ AllocateReturns(v)

Next ==
  \E v \in Visitors :
    \/ Visit(v) \/ Reacquire(v) \/ EndVisit(v) \/ Notify(v)
    \/ SpuriousWakeup(v) \/ FunctorStep(v)

\* Every visitor that can go on does, and every RPC ends (its retry policy
\* gives up).  Nothing makes the application call Visit(), and nothing makes
\* SessionPool::Allocate() return: by default it waits for a session.
Fairness ==
  \A v \in Visitors :
    /\ WF_vars(Reacquire(v)) /\ WF_vars(EndVisit(v)) /\ WF_vars(Notify(v))
    /\ WF_vars(OwnStep(v))

Spec == Init /\ [][Next]_vars /\ Fairness

(***************************************************************************)
(* Properties.                                                             *)
(***************************************************************************)
Active == {v \in Visitors : pc[v] \in InFunctor}

\* Until the transaction has an id, one functor runs at a time: nothing else
\* protects session_ and selector_ from concurrent visitors.
ExclusiveUntilBegun ==
  HasBegin => \A v, w \in Active : v = w

\* Concurrent first requests begin one transaction on the service, and every
\* request in flight is made in the transaction and the session that all the
\* others are made in (transaction.h: "All reads/writes in the transaction
\* must be executed within the same session").
OneTransaction ==
  /\ \A a, b \in begun : a = b
  /\ \A v, w \in Visitors : pc[v] = "rpc" /\ pc[w] = "rpc" =>
       used[v] = used[w] /\ sent[v] = sent[w]

\* Neither the session nor the id of a transaction is ever replaced.
NeverRebound ==
  [][/\ session_ # Null => session_' = session_
     /\ selector_ \in Ids => selector_' = selector_]_vars

\* No visitor is forgotten on cond_: while one is blocked there, some other
\* visitor is on its way to wake it (it is active, or about to notify, or it
\* has been woken itself and passes the turn on).  Visit() notifies one
\* visitor when a functor fails, throws, or begins no transaction, and all of
\* them only when a functor has obtained the id.
TurnIsPassedOn ==
  cond_ # {} =>
    \/ \E v \in exclusive : pc[v] \in InFunctor
    \/ \E v \in Visitors : pc[v] = "notify_all"
    \/ /\ state_ = "kBegin"
       /\ \E v \in Visitors : \/ pc[v] = "notify_one"
                              \/ pc[v] = "wait" /\ v \notin cond_

\* Every call of SessionPool::Allocate() returns.
AllocationsReturn == \A v \in Visitors : []<>(pc[v] # "allocate")

\* A visitor that waits for another one to begin the transaction goes on, but
\* for a functor that waits in SessionPool::Allocate() for ever.
EveryVisitProceeds ==
  AllocationsReturn => \A v \in Visitors : pc[v] = "wait" ~> pc[v] # "wait"
=============================================================================
