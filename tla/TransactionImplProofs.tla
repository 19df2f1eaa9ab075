----------------------- MODULE TransactionImplProofs -----------------------
(***************************************************************************)
(* Proofs about TransactionImpl for any visitors, sessions and ids, and    *)
(* any number of visits.                                                   *)
(***************************************************************************)
EXTENDS TransactionImpl, TLAPS

\* At most one visitor is exclusive, and state_ says whether there is one.
Exclusion ==
  /\ \A v, w \in exclusive : v = w
  /\ \A v \in exclusive : pc[v] \in InFunctor
  /\ exclusive # {} <=> state_ = "kPending"
  /\ state_ # "kDone" => \A v \in Active : v \in exclusive
  /\ state_ = "kDone" => ~HasBegin

\* A visitor is blocked on cond_ inside the wait of Visit() only.
Blocked == \A v \in cond_ : pc[v] = "wait"

\* A single-use transaction has one visit.
SingleUse ==
  /\ selector_ = "single_use" =>
       /\ state_ = "kDone"
       /\ \A v, w \in Active : v = w
       /\ \A v \in Visitors : pc[v] # "wait"
  /\ seqno_ = 0 => \A v \in Visitors : pc[v] = "out"

\* What a functor knows of the session and the selector at each point.
Bound ==
  /\ selector_ \in Ids => session_ # Null
  /\ begun = {selector_} \cap Ids
  /\ \A v \in Visitors :
       /\ pc[v] = "allocate" => session_ = Null
       /\ pc[v] \in {"send", "rpc"} => session_ # Null
       /\ pc[v] = "rpc" => used[v] = session_ /\ sent[v] = selector_

\* The inductive invariant.
TInv == TypeOK /\ Exclusion /\ Blocked /\ SingleUse /\ Bound /\ TurnIsPassedOn

USE DEF HasBegin, Active, InFunctor, Null, MayProceed, StateAfter, WakeupFor,
        NoSession

LEMMA InitTInv == Init => TInv
<1> SUFFICES ASSUME Init PROVE TInv
  OBVIOUS
<1>1. TypeOK
  BY TransactionAssumption DEF Init, TypeOK
<1>2. Exclusion
  BY TransactionAssumption DEF Init, Exclusion
<1>3. Blocked /\ SingleUse /\ TurnIsPassedOn
  BY TransactionAssumption DEF Init, Blocked, SingleUse, TurnIsPassedOn
<1>4. Bound
  BY TransactionAssumption DEF Init, Bound
<1> QED
  BY <1>1, <1>2, <1>3, <1>4 DEF TInv

\* A visitor starts its functor.
LEMMA ProceedTInv ==
  ASSUME TInv, NEW v \in Visitors,
         pc[v] \in {"out", "wait"}, v \notin cond_,
         Proceed(v), UNCHANGED cond_,
         \/ pc[v] = "wait" /\ UNCHANGED <<seqno_, seqno>>
         \/ /\ seqno_' = seqno_ + 1
            /\ seqno' = [seqno EXCEPT ![v] = seqno_ + 1]
            /\ selector_ = "single_use" => seqno_ = 0
  PROVE  TInv'
<1>1. TypeOK'
  BY DEF TInv, TypeOK, Proceed
<1>2. Exclusion'
  BY DEF TInv, TypeOK, Exclusion, Proceed
<1>3. Blocked'
  BY DEF TInv, TypeOK, Blocked, Proceed
<1>4. SingleUse'
  BY DEF TInv, TypeOK, SingleUse, Proceed
<1>5. Bound'
  BY DEF TInv, TypeOK, Bound, Proceed
<1>6. TurnIsPassedOn'
  BY DEF TInv, TypeOK, TurnIsPassedOn, Exclusion, Blocked, Proceed
<1> QED
  BY <1>1, <1>2, <1>3, <1>4, <1>5, <1>6 DEF TInv

\* A visitor blocks, as another one is active.
LEMMA BlockTInv ==
  ASSUME TInv, NEW v \in Visitors, state_ = "kPending", pc[v] \in {"out", "wait"},
         pc' = [pc EXCEPT ![v] = "wait"], cond_' = cond_ \cup {v},
         \/ UNCHANGED <<seqno_, seqno>>
         \/ seqno_' = seqno_ + 1 /\ seqno' = [seqno EXCEPT ![v] = seqno_ + 1],
         UNCHANGED <<state_, session_, selector_, exclusive, used, sent, begun>>
  PROVE  TInv'
<1>1. TypeOK'
  BY DEF TInv, TypeOK
<1>2. Exclusion' /\ Blocked'
  BY DEF TInv, TypeOK, Exclusion, Blocked
<1>3. SingleUse' /\ Bound'
  BY DEF TInv, TypeOK, SingleUse, Bound, Exclusion
<1>4. TurnIsPassedOn'
  BY DEF TInv, TypeOK, TurnIsPassedOn, Exclusion
<1> QED
  BY <1>1, <1>2, <1>3, <1>4 DEF TInv

LEMMA VisitTInv == ASSUME TInv, NEW v \in Visitors, Visit(v) PROVE TInv'
<1>1. v \notin cond_ /\ seqno_ + 1 \in Nat
  BY DEF TInv, TypeOK, Blocked, Visit
<1>2. CASE Proceed(v) /\ UNCHANGED cond_
  BY <1>1, <1>2, ProceedTInv DEF Visit
<1>3. CASE state_ = "kPending"
  BY <1>1, <1>3, BlockTInv DEF Visit, Proceed
<1> QED
  BY <1>2, <1>3 DEF Visit

LEMMA ReacquireTInv ==
  ASSUME TInv, NEW v \in Visitors, Reacquire(v) PROVE TInv'
<1>1. seqno[v] \in Nat /\ pc \in [Visitors -> {"out", "wait", "notify_one",
                                              "notify_all"} \cup InFunctor]
  BY DEF TInv, TypeOK
<1>2. CASE Proceed(v) /\ UNCHANGED cond_
  BY <1>1, <1>2, ProceedTInv DEF Reacquire
<1>3. CASE state_ = "kPending"
  <2>1. pc' = [pc EXCEPT ![v] = "wait"]
    BY <1>1, <1>3 DEF Reacquire, Proceed
  <2> QED
    BY <1>3, <2>1, BlockTInv DEF Reacquire, Proceed
<1> QED
  BY <1>2, <1>3 DEF Reacquire

LEMMA EndVisitTInv ==
  ASSUME TInv, NEW v \in Visitors, EndVisit(v) PROVE TInv'
<1>1. TypeOK'
  BY DEF TInv, TypeOK, EndVisit
<1>2. Exclusion'
  BY DEF TInv, TypeOK, Exclusion, EndVisit
<1>3. Blocked' /\ SingleUse'
  BY DEF TInv, TypeOK, Exclusion, Blocked, SingleUse, EndVisit
<1>4. Bound'
  BY DEF TInv, TypeOK, Bound, EndVisit
<1>5. TurnIsPassedOn'
  BY DEF TInv, TypeOK, Exclusion, TurnIsPassedOn, EndVisit
<1> QED
  BY <1>1, <1>2, <1>3, <1>4, <1>5 DEF TInv

LEMMA NotifyTInv ==
  ASSUME TInv, NEW v \in Visitors, Notify(v) \/ SpuriousWakeup(v) PROVE TInv'
<1>1. TypeOK' /\ Exclusion' /\ Blocked'
  BY DEF TInv, TypeOK, Exclusion, Blocked, Notify, SpuriousWakeup
<1>2. SingleUse' /\ Bound'
  BY DEF TInv, TypeOK, SingleUse, Bound, Notify, SpuriousWakeup
<1>3. TurnIsPassedOn'
  BY DEF TInv, TypeOK, Exclusion, Blocked, TurnIsPassedOn, Notify,
         SpuriousWakeup
<1> QED
  BY <1>1, <1>2, <1>3 DEF TInv

LEMMA FunctorStepTInv ==
  ASSUME TInv, NEW v \in Visitors, FunctorStep(v) PROVE TInv'
<1> USE DEF FunctorStep, OwnStep, PrepareSession, AllocateReturns, SendRequest,
            RollbackUnbegun, BeginSucceeds, Responds, visitVars
<1>1. TypeOK'
  BY DEF TInv, TypeOK
<1>2. Exclusion'
  BY TransactionAssumption DEF TInv, TypeOK, Exclusion, Bound
<1>3. Blocked' /\ SingleUse'
  BY TransactionAssumption DEF TInv, TypeOK, Blocked, SingleUse
<1>4. Bound'
  <2>1. CASE PrepareSession(v) \/ RollbackUnbegun(v) \/ Responds(v)
             \/ SendRequest(v)
    BY <2>1 DEF TInv, TypeOK, Bound
  <2>2. CASE AllocateReturns(v)
    BY <2>2, TransactionAssumption
       DEF TInv, TypeOK, Bound, Exclusion, SingleUse
  <2>3. CASE BeginSucceeds(v)
    BY <2>3, TransactionAssumption
       DEF TInv, TypeOK, Bound, Exclusion, SingleUse
  <2> QED
    BY <2>1, <2>2, <2>3
<1>5. TurnIsPassedOn'
  BY DEF TInv, TypeOK, Exclusion, TurnIsPassedOn
<1> QED
  BY <1>1, <1>2, <1>3, <1>4, <1>5 DEF TInv

LEMMA NextTInv == TInv /\ [Next]_vars => TInv'
<1> SUFFICES ASSUME TInv, [Next]_vars PROVE TInv'
  OBVIOUS
<1>1. CASE UNCHANGED vars
  BY <1>1 DEF TInv, TypeOK, Exclusion, Blocked, SingleUse, Bound,
              TurnIsPassedOn, vars
<1>2. CASE Next
  BY <1>2, VisitTInv, ReacquireTInv, EndVisitTInv, NotifyTInv,
     FunctorStepTInv DEF Next
<1> QED
  BY <1>1, <1>2

\* TInv holds in every behaviour.
THEOREM Invariance == Spec => []TInv
<1>1. Spec => Init /\ [][Next]_vars
  BY PTL DEF Spec
<1> QED
  BY <1>1, InitTInv, NextTInv, PTL

\* Every variable keeps its type, whatever the number of visitors and visits.
THEOREM TypeCorrect == Spec => []TypeOK
<1>1. TInv => TypeOK
  BY DEF TInv
<1> QED
  BY <1>1, Invariance, PTL

\* While the transaction has no id, Visit() runs at most one functor.
THEOREM ExclusiveCorrect == Spec => []ExclusiveUntilBegun
<1>1. TInv => ExclusiveUntilBegun
  BY DEF TInv, Exclusion, ExclusiveUntilBegun
<1> QED
  BY <1>1, Invariance, PTL

\* However the visits interleave and fail, the service begins one transaction
\* for this TransactionImpl, and the requests in flight agree on it and on its
\* session.
THEOREM OneTransactionCorrect == Spec => []OneTransaction
<1>1. TInv => OneTransaction
  BY DEF TInv, TypeOK, Bound, OneTransaction
<1> QED
  BY <1>1, Invariance, PTL

\* Visit() leaves no visitor blocked with nobody to wake it.
THEOREM TurnIsPassedOnCorrect == Spec => []TurnIsPassedOn
<1>1. TInv => TurnIsPassedOn
  BY DEF TInv
<1> QED
  BY <1>1, Invariance, PTL

\* No step replaces the session or the id of the transaction.
THEOREM NeverReboundCorrect == Spec => NeverRebound
<1> DEFINE Keeps == /\ session_ # Null => session_' = session_
                    /\ selector_ \in Ids => selector_' = selector_
<1>1. ASSUME TInv, Next PROVE Keeps
  <2>1. PICK v \in Visitors :
           \/ Visit(v) \/ Reacquire(v) \/ EndVisit(v) \/ Notify(v)
           \/ SpuriousWakeup(v) \/ FunctorStep(v)
    BY <1>1 DEF Next
  <2>2. CASE Visit(v) \/ Reacquire(v) \/ EndVisit(v) \/ Notify(v)
             \/ SpuriousWakeup(v)
    BY <2>2 DEF Visit, Reacquire, Proceed, EndVisit, Notify, SpuriousWakeup
  <2>3. CASE FunctorStep(v)
    BY <1>1, <2>3, TransactionAssumption
       DEF TInv, TypeOK, Bound, FunctorStep, OwnStep, PrepareSession, AllocateReturns,
           SendRequest, RollbackUnbegun, BeginSucceeds, Responds
  <2> QED
    BY <2>1, <2>2, <2>3
<1>2. TInv /\ [Next]_vars => [Keeps]_vars
  BY <1>1
<1> QED
  BY <1>2, Invariance, PTL DEF NeverRebound, Spec
=============================================================================
