---------------------------- MODULE ClientProofs ----------------------------
(***************************************************************************)
(* Theorems about Client, for any number of callers of Commit(), sessions, *)
(* transactions and tolerated failures: the sessions of the pool are kept  *)
(* apart, what Commit() reports is what has happened, and no transaction   *)
(* is left open.                                                           *)
(***************************************************************************)
EXTENDS Client, TLAPS

\* The users of the pool have what they have, and nobody else has it.
Apart ==
  /\ session \in [Callers -> Sessions \cup {Null}]
  /\ idle \subseteq Sessions /\ others \subseteq Sessions
  /\ idle \cap others = {}
  /\ \A c \in Callers : session[c] \notin idle \cup others
  /\ \A c, d \in Callers :
       c # d /\ session[c] # Null => session[c] # session[d]

\* A session that was reported is marked, and no marked session is in the pool.
Marked == reported \subseteq bad /\ bad \cap idle = {}

SessionInv == Apart /\ Marked

LEMMA SessionInit == Init => SessionInv
  BY ClientAssumption DEF Init, SessionInv, Apart, Marked, Null

LEMMA InvGivesProperty == SessionInv => SessionsKeptApart
  BY DEF SessionInv, Apart, Marked, SessionsKeptApart

\* Nothing happens to the sessions.
LEMMA SessionsUntouched ==
  ASSUME SessionInv, UNCHANGED <<session, poolVars>>
  PROVE  SessionInv'
  BY DEF SessionInv, Apart, Marked, poolVars

\* A functor looks at a status: a session that is marked is not in the pool.
LEMMA MarkBadKeeps ==
  ASSUME SessionInv, NEW c \in Callers, NEW st,
         MarkBad(c, st) \/ UNCHANGED <<bad, reported>>,
         UNCHANGED <<session, idle, others>>
  PROVE  SessionInv'
<1>1. Apart'
  BY DEF SessionInv, Apart
<1>2. Marked'
  BY DEF SessionInv, Apart, Marked, MarkBad, BadAfter
<1> QED
  BY <1>1, <1>2 DEF SessionInv

\* A transaction gets a session from the pool, or has one.
LEMMA PrepareKeeps ==
  ASSUME SessionInv, NEW c \in Callers, HasSession(c) \/ NoSession(c),
         UNCHANGED <<others, bad, reported>>
  PROVE  SessionInv'
<1>1. CASE UNCHANGED <<session, idle>>
  BY <1>1, SessionsUntouched DEF poolVars
<1>2. CASE ~UNCHANGED <<session, idle>>
  <2>1. PICK s \in idle : /\ session' = [session EXCEPT ![c] = s]
                          /\ idle' = idle \ {s}
    BY <1>2 DEF HasSession, NoSession
  <2> QED
    BY <2>1 DEF SessionInv, Apart, Marked
<1> QED
  BY <1>1, <1>2

\* A holder of a session drops it.
LEMMA ReleaseKeeps ==
  ASSUME SessionInv, NEW c \in Callers, idle' = Release(session[c]),
         session' = [session EXCEPT ![c] = Null],
         UNCHANGED <<others, bad, reported>>
  PROVE  SessionInv'
<1>1. Apart'
  BY ClientAssumption DEF SessionInv, Apart, Release, Null
<1>2. Marked'
  BY DEF SessionInv, Marked, Release
<1> QED
  BY <1>1, <1>2 DEF SessionInv

LEMMA OthersKeep ==
  ASSUME SessionInv, NEW s \in Sessions, OthersAllocate(s) \/ OthersRelease(s)
  PROVE  SessionInv'
<1>1. Apart'
  BY ClientAssumption
     DEF OthersAllocate, OthersRelease, SessionInv, Apart, Release, Null
<1>2. Marked'
  BY DEF OthersAllocate, OthersRelease, SessionInv, Marked, Release
<1> QED
  BY <1>1, <1>2 DEF SessionInv

\* The next attempt keeps the session, or leaves one behind that is marked.
LEMMA JudgeKeeps ==
  ASSUME SessionInv, NEW c \in Callers, Judge(c)
  PROVE  SessionInv'
<1>1. CASE UNCHANGED <<session, poolVars>>
  BY <1>1, SessionsUntouched
<1>2. CASE ~UNCHANGED <<session, poolVars>>
  <2>1. /\ MarkBad(c, status[c])
        /\ session' = [session EXCEPT ![c] = NextSession(c)]
        /\ idle' = IF session'[c] = session[c] THEN idle
                   ELSE idle \cup ({session[c]} \ bad')
        /\ UNCHANGED others
    BY <1>2 DEF Judge
  <2>2. CASE IsSessionNotFound(status[c])
    <3>1. session' = [session EXCEPT ![c] = Null]
      BY <2>1, <2>2 DEF NextSession
    <3>2. /\ bad' = bad \cup {session[c]}
          /\ reported' = reported \cup {session[c]}
      BY <2>1, <2>2 DEF MarkBad, BadAfter
    <3>3. idle' = idle
      BY <2>1, <3>2
    <3>4. Apart'
      BY <2>1, <3>1, <3>3, ClientAssumption DEF SessionInv, Apart, Null
    <3>5. Marked'
      BY <3>2, <3>3 DEF SessionInv, Apart, Marked
    <3> QED
      BY <3>4, <3>5 DEF SessionInv
  <2>3. CASE ~IsSessionNotFound(status[c])
    <3>1. session' = session
      BY <2>1, <2>3 DEF NextSession, SessionInv, Apart
    <3> QED
      BY <2>1, <3>1, MarkBadKeeps
  <2> QED
    BY <2>2, <2>3
<1> QED
  BY <1>1, <1>2

LEMMA SessionStep ==
  ASSUME SessionInv, [Next]_vars
  PROVE  SessionInv'
<1>1. CASE UNCHANGED vars
  BY <1>1, SessionsUntouched DEF vars
<1>2. ASSUME NEW i \in Ids, AbortTransaction(i) \/ ForgetTransaction(i)
      PROVE  SessionInv'
  BY <1>2, SessionsUntouched DEF AbortTransaction, ForgetTransaction
<1>3. ASSUME NEW s \in Sessions, LoseSession(s) \/ OthersAllocate(s) \/ OthersRelease(s)
      PROVE  SessionInv'
  BY <1>3, SessionsUntouched, OthersKeep DEF LoseSession
<1>4. ASSUME NEW c \in Callers,
             \/ Start(c) \/ MutatorRequests(c) \/ StreamBreaks(c) \/ MutatorEnds(c)
             \/ RpcStep(c) \/ LocalStep(c)
      PROVE  SessionInv'
  <2>1. CASE Start(c) \/ MutatorRequests(c) \/ StreamBreaks(c) \/ MutatorEnds(c)
    BY <2>1, SessionsUntouched
       DEF Start, MutatorRequests, StreamBreaks, MutatorEnds, MutatorSucceeds,
           MutatorFails, MutatorThrows
  <2>2. CASE Refused(c) \/ AnswerLost(c)
    <3>1. PICK st : TryFails(c, st)
      BY <2>2 DEF Refused, AnswerLost
    <3>2. /\ \/ UNCHANGED <<bad, reported>>
             \/ MarkBad(c, LoopResult(TRUE, st))
          /\ UNCHANGED <<session, idle, others>>
      BY <3>1, Zenon DEF TryFails, Fails
    <3> QED
      BY <3>2, MarkBadKeeps
  <2>3. CASE \/ RequestSucceeds(c) \/ BeginSucceeds(c)
             \/ CommitSucceeds(c) \/ RollbackSucceeds(c)
    BY <2>3, SessionsUntouched
       DEF RequestSucceeds, BeginSucceeds, CommitSucceeds, RollbackSucceeds
  <2>4. CASE PrepareRequest(c) \/ PrepareCommit(c) \/ PrepareRollback(c)
    BY <2>4, PrepareKeeps DEF PrepareRequest, PrepareCommit, PrepareRollback
  <2>5. CASE Judge(c)
    BY <2>5, JudgeKeeps
  <2>6. CASE Return(c)
    BY <2>6, ReleaseKeeps DEF Return
  <2> QED
    BY <1>4, <2>1, <2>2, <2>3, <2>4, <2>5, <2>6 DEF RpcStep, LocalStep
<1> QED
  BY <1>1, <1>2, <1>3, <1>4 DEF Next

\* A lost session that was reported does not return to the pool, and no two
\* users have the same session, although a rerun inherits the session of the
\* attempt before it.
THEOREM SessionsKeptApartCorrect == Spec => []SessionsKeptApart
<1>1. Init => SessionInv
  BY SessionInit
<1>2. SessionInv /\ [Next]_vars => SessionInv'
  BY SessionStep
<1>3. SessionInv => SessionsKeptApart
  BY InvGivesProperty
<1> QED
  BY <1>1, <1>2, <1>3, PTL DEF Spec

(***************************************************************************)
(* The outcome of Commit().  The invariant of a caller relates the place   *)
(* it has reached and the statuses it holds to the transactions it knows.  *)
(***************************************************************************)
Codes == {"kOk", "kUnavailable", "kAborted", "kNotFound", "kInvalidArgument",
          "kUnknown", "kResourceExhausted", "not_called"}
LoopPhrases == {"Permanent error in", "Retry policy exhausted in"}
Phrases == {"Session not found", "OK Status thrown from mutator",
            "session pool exhausted"} \cup LoopPhrases
StatusType == [code : Codes, message : SUBSET Phrases]

StatusTypes ==
  /\ status \in [Callers -> StatusType]
  /\ seen \in [Callers -> SUBSET StatusType]
  /\ rb_status \in [Callers -> StatusType]

\* The transaction of the attempt, once it has an id.
HasId(c) == selector[c] \in Ids
Own(c) == state[selector[c]]

\* A status that calls for a rerun has its reason at the service: the session
\* is lost, or the transaction is aborted.
Justified(c, st) ==
  /\ IsSessionNotFound(st) => session[c] \in lost
  /\ st.code = "kAborted" => HasId(c) /\ Own(c) = "aborted"

\* A transaction with an id is in the session of the attempt.
OwnSession(c) ==
  /\ pc[c] \in Rpcs => session[c] # Null
  /\ HasId(c) /\ pc[c] # "done" =>
       session[c] # Null /\ home[selector[c]] = session[c]

KnownIds(c) ==
  /\ HasId(c) => selector[c] \in known[c]
  /\ \A i \in known[c] : state[i] # "unused"

\* What is true at the places of Commit().
AtPlace(c) ==
  /\ pc[c] \in {"start", "mutator", "prepare_request", "request"} => ~thrown[c]
  /\ pc[c] \in {"prepare_commit", "begin", "commit"} =>
       ~thrown[c] /\ IsOk(status[c])
  /\ pc[c] = "begin" => selector[c] = "begin"
  /\ pc[c] \in {"commit", "rollback"} => HasId(c)
  /\ pc[c] \in {"prepare_rollback", "rollback"} => thrown[c] \/ ~IsOk(status[c])
  /\ pc[c] = "judge" =>
       ~thrown[c] /\ ~IsOk(status[c]) /\ Justified(c, status[c])
  /\ pc[c] \notin {"return", "done"} => rb_status[c] = NotCalled

SeenJustified(c) ==
  pc[c] # "done" => \A st \in seen[c] : ~IsOk(st) /\ Justified(c, st)

\* An attempt that was abandoned has left nothing open.
AbandonedOver(c) == \A i \in known[c] : i # selector[c] => state[i] # "active"

\* A transaction is rolled back at the end of a call.
RolledBackPlace(c) ==
  HasId(c) /\ Own(c) = "rolled_back" => pc[c] \in {"rollback", "return", "done"}

\* A committed transaction is that of the attempt in its commit, or in what
\* follows a commit that has succeeded or was not answered, or its session
\* is lost.
CommittedPlace(c) ==
  \A i \in known[c] : state[i] = "committed" =>
    \/ home[i] \in lost
    \/ /\ i = selector[c] /\ ~thrown[c]
       /\ \/ pc[c] = "commit"
          \/ pc[c] = "judge" /\ status[c].code = "kUnavailable"
          \/ /\ pc[c] \in {"return", "done"}
             /\ status[c].code \in {"kOk", "kUnavailable"}

\* What a call that is about to return leaves behind.
AtEnd(c) ==
  pc[c] \in {"return", "done"} =>
    /\ ~thrown[c] /\ IsOk(status[c]) => HasId(c) /\ Own(c) = "committed"
    /\ HasId(c) /\ Own(c) = "active" =>
         \/ rb_status[c] \notin {NotCalled, OkStatus}
         \/ rb_status[c] = NotCalled /\ ~IsRerunnable(status[c])

CallerInv(c) ==
  /\ OwnSession(c) /\ KnownIds(c) /\ AtPlace(c) /\ SeenJustified(c)
  /\ AbandonedOver(c) /\ RolledBackPlace(c) /\ CommittedPlace(c) /\ AtEnd(c)

KnownApart ==
  \A c, d \in Callers : c # d => known[c] \cap known[d] = {}

\* The transactions of a lost session are over.
ActiveAlive == \A i \in Ids : state[i] = "active" => home[i] \notin lost

ClientInv ==
  /\ TypeOK /\ StatusTypes /\ KnownApart /\ ActiveAlive
  /\ \A c \in Callers : CallerInv(c)

LEMMA StatusFacts ==
  /\ {OkStatus, Unavailable, Aborted, SessionNotFound, NotFound,
      InvalidArgument, Unknown, Exhausted, NotCalled} \subseteq StatusType
  /\ IsOk(OkStatus) /\ ~IsRerunnable(OkStatus)
  /\ \A st \in {Unavailable, Aborted, SessionNotFound, NotFound,
                InvalidArgument, Unknown, Exhausted} : ~IsOk(st)
  /\ \A st \in {Unavailable, NotFound, InvalidArgument, Unknown, Exhausted} :
       ~IsSessionNotFound(st) /\ st.code # "kAborted"
  /\ ~IsSessionNotFound(Aborted) /\ SessionNotFound.code # "kAborted"
  /\ Unavailable.code = "kUnavailable" /\ OkStatus.code = "kOk"
<1> USE DEF OkStatus, Unavailable, Aborted, SessionNotFound, NotFound,
            InvalidArgument, Unknown, Exhausted, NotCalled, MakeStatus
<1>1. {OkStatus, Unavailable, Aborted, SessionNotFound, NotFound,
       InvalidArgument, Unknown, Exhausted, NotCalled} \subseteq StatusType
  BY DEF StatusType, Codes, Phrases
<1>2. /\ IsOk(OkStatus) /\ ~IsRerunnable(OkStatus)
      /\ \A st \in {Unavailable, Aborted, SessionNotFound, NotFound,
                    InvalidArgument, Unknown, Exhausted} : ~IsOk(st)
  BY DEF IsOk, IsRerunnable, IsSessionNotFound
<1>3. \A st \in {Unavailable, NotFound, InvalidArgument, Unknown, Exhausted} :
        ~IsSessionNotFound(st) /\ st.code # "kAborted"
  <2>1. /\ Unavailable.code = "kUnavailable" /\ NotFound.message = {}
        /\ NotFound.code = "kNotFound"
        /\ InvalidArgument.code = "kInvalidArgument"
        /\ Unknown.code = "kUnknown" /\ Exhausted.code = "kResourceExhausted"
    OBVIOUS
  <2> HIDE DEF Unavailable, NotFound, InvalidArgument, Unknown, Exhausted
  <2> QED
    BY <2>1 DEF IsSessionNotFound
<1>4. /\ ~IsSessionNotFound(Aborted) /\ SessionNotFound.code # "kAborted"
      /\ Unavailable.code = "kUnavailable" /\ OkStatus.code = "kOk"
  BY DEF IsSessionNotFound
<1> QED
  BY <1>1, <1>2, <1>3, <1>4

\* RetryLoop() adds to the message of a status, and leaves what it means.
LEMMA LoopResultFacts ==
  ASSUME NEW st \in StatusType
  PROVE  LET r == LoopResult(TRUE, st)
         IN  /\ r \in StatusType /\ r.code = st.code
             /\ IsOk(r) <=> IsOk(st)
             /\ IsSessionNotFound(r) <=> IsSessionNotFound(st)
<1>1. PICK m : m = LoopMessage(TRUE, st)
  OBVIOUS
<1>2. m \in LoopPhrases
  BY <1>1 DEF LoopMessage, LoopPhrases
<1>3. m \in Phrases /\ m # "Session not found"
  BY <1>2 DEF LoopPhrases, Phrases
<1>4. st.message \in SUBSET Phrases /\ st.code \in Codes
  BY DEF StatusType
<1>5. PICK r : r = LoopResult(TRUE, st)
  OBVIOUS
<1>6. r = [code |-> st.code, message |-> st.message \cup {m}]
  BY <1>1, <1>5 DEF LoopResult, RetryLoopError, MakeStatus
<1>7. r \in StatusType /\ r.code = st.code /\ r.message = st.message \cup {m}
  BY <1>3, <1>4, <1>6 DEF StatusType
<1>8. /\ IsOk(r) <=> IsOk(st)
      /\ IsSessionNotFound(r) <=> IsSessionNotFound(st)
  BY <1>3, <1>7 DEF IsOk, IsSessionNotFound
<1> QED
  BY <1>5, <1>7, <1>8

\* A refusal has its reason, and nobody refuses what was committed.
LEMMA RefusalFacts ==
  ASSUME NEW c \in Callers, NEW st \in Refusals(c)
  PROVE  /\ st \in {SessionNotFound, NotFound, Aborted}
         /\ Justified(c, st)
         /\ HasId(c) /\ Own(c) = "committed" => session[c] \in lost
<1>1. CASE session[c] \in lost
  <2>1. st = SessionNotFound
    BY <1>1 DEF Refusals
  <2> QED
    BY <1>1, <2>1, StatusFacts DEF Justified
<1>2. CASE session[c] \notin lost /\ selector[c] \notin Ids
  <2>1. st = NotFound
    BY <1>2 DEF Refusals
  <2> QED
    BY <1>2, <2>1, StatusFacts DEF Justified, HasId
<1>3. CASE session[c] \notin lost /\ selector[c] \in Ids
  <2>1. Refusals(c) = CASE state[selector[c]] = "aborted" -> {Aborted}
                        [] state[selector[c]] = "active" -> {NotFound}
                        [] OTHER -> {}
    BY <1>3 DEF Refusals
  <2>2. CASE state[selector[c]] = "aborted"
    <3>1. st = Aborted
      BY <2>1, <2>2
    <3> QED
      BY <1>3, <2>2, <3>1, StatusFacts DEF Justified, HasId, Own
  <2>3. CASE state[selector[c]] = "active"
    <3>1. st = NotFound
      BY <2>1, <2>3
    <3> QED
      BY <2>3, <3>1, StatusFacts DEF Justified, HasId, Own
  <2>4. CASE state[selector[c]] \notin {"aborted", "active"}
    <3>1. Refusals(c) = {}
      BY <2>1, <2>4
    <3> QED
      BY <3>1
  <2> QED
    BY <2>2, <2>3, <2>4
<1> QED
  BY <1>1, <1>2, <1>3

(***************************************************************************)
(* The initial states, and what a failed try does to its caller.           *)
(***************************************************************************)
LEMMA OutcomeInit == Init => ClientInv
<1> SUFFICES ASSUME Init PROVE ClientInv
  OBVIOUS
<1> USE DEF Init
<1>1. TypeOK
  BY ClientAssumption DEF TypeOK, Rpcs, Null
<1>2. StatusTypes
  BY StatusFacts DEF StatusTypes
<1>3. KnownApart /\ ActiveAlive
  BY DEF KnownApart, ActiveAlive
<1>4. ASSUME NEW c \in Callers PROVE CallerInv(c)
  <2>1. /\ pc[c] = "start" /\ selector[c] = "begin" /\ seen[c] = {}
        /\ known[c] = {} /\ thrown[c] = FALSE /\ rb_status[c] = NotCalled
    OBVIOUS
  <2>2. ~HasId(c)
    BY <2>1, ClientAssumption DEF HasId
  <2> QED
    BY <2>1, <2>2
       DEF CallerInv, OwnSession, KnownIds, AtPlace, SeenJustified,
           AbandonedOver, RolledBackPlace, CommittedPlace, AtEnd, Rpcs
<1> QED
  BY <1>1, <1>2, <1>3, <1>4 DEF ClientInv

\* A failed try: what becomes of the statuses and of the caller's place.
LEMMA TryFailsEffect ==
  ASSUME TypeOK, StatusTypes, NEW c \in Callers, pc[c] \in Rpcs,
         NEW st \in StatusType, TryFails(c, st)
  PROVE  LET r == LoopResult(TRUE, st)
         IN  /\ failures' \in [Callers -> 0 .. MaxFailures]
             /\ bad' \subseteq Sessions \cup {session[c]}
             /\ reported' \subseteq Sessions \cup {session[c]}
             /\ UNCHANGED <<session, selector, requests, reruns, thrown, known,
                            idle, others>>
             /\ \/ UNCHANGED <<pc, status, seen, rb_status>>
                \/ /\ pc[c] = "request" /\ Goto(c, "mutator")
                   /\ seen' = [seen EXCEPT ![c] = @ \cup {r}]
                   /\ UNCHANGED <<status, rb_status>>
                \/ /\ pc[c] \in {"begin", "commit"} /\ Goto(c, "judge")
                   /\ SetStatus(c, r)
                   /\ UNCHANGED <<seen, rb_status>>
                \/ /\ pc[c] = "rollback" /\ Goto(c, "return")
                   /\ rb_status' = [rb_status EXCEPT ![c] = r]
                   /\ UNCHANGED <<seen, status>>
<1> DEFINE r == LoopResult(TRUE, st)
<1> HIDE DEF r
<1>1. UNCHANGED <<session, selector, requests, reruns, thrown, known, idle,
                  others>>
  BY DEF TryFails
<1>2. CASE /\ CallsAgain(TRUE, st, failures[c], MaxFailures)
           /\ failures' = [failures EXCEPT ![c] = @ + 1]
           /\ UNCHANGED <<pc, status, seen, rb_status, bad, reported>>
  <2>1. failures[c] < MaxFailures
    BY <1>2 DEF CallsAgain, OnFailure
  <2>2. failures' \in [Callers -> 0 .. MaxFailures]
    BY <1>2, <2>1, ClientAssumption DEF TypeOK
  <2> QED
    BY <1>1, <1>2, <2>2 DEF TypeOK
<1>3. CASE Fails(c, r)
  <2>1. failures' \in [Callers -> 0 .. MaxFailures]
    BY <1>3, ClientAssumption DEF Fails, TypeOK
  <2>2. /\ bad' \subseteq Sessions \cup {session[c]}
        /\ reported' \subseteq Sessions \cup {session[c]}
    BY <1>3 DEF Fails, MarkBad, BadAfter, TypeOK
  <2> QED
    BY <1>1, <1>3, <2>1, <2>2 DEF Fails, r
<1> QED
  BY <1>2, <1>3, Zenon DEF TryFails, r

\* What the other callers and the service do to a caller's transactions: they
\* can abort an active one, and the service can forget one that is over.
LEMMA Bystander ==
  ASSUME NEW d \in Callers, CallerInv(d),
         pc'[d] = pc[d], session'[d] = session[d], selector'[d] = selector[d],
         status'[d] = status[d], seen'[d] = seen[d], thrown'[d] = thrown[d],
         rb_status'[d] = rb_status[d],
         known'[d] \subseteq known[d], HasId(d) => selector[d] \in known'[d],
         lost \subseteq lost',
         \A i \in known'[d] :
           /\ home'[i] = home[i]
           /\ \/ state'[i] = state[i]
              \/ state[i] = "active" /\ state'[i] = "aborted"
  PROVE  CallerInv(d)'
<1>1. /\ HasId(d)' <=> HasId(d)
      /\ HasId(d) => \/ Own(d)' = Own(d)
                     \/ Own(d) = "active" /\ Own(d)' = "aborted"
      /\ HasId(d) => home'[selector[d]] = home[selector[d]]
  BY DEF HasId, Own
<1>2. \A st : Justified(d, st) => Justified(d, st)'
  <2>1. ASSUME NEW st, Justified(d, st) PROVE Justified(d, st)'
    <3>1. IsSessionNotFound(st) => session'[d] \in lost'
      BY <2>1 DEF Justified
    <3>2. st.code = "kAborted" => HasId(d)' /\ Own(d)' = "aborted"
      BY <1>1, <2>1 DEF Justified
    <3> QED
      BY <3>1, <3>2 DEF Justified
  <2> QED
    BY <2>1
<1>3. OwnSession(d)'
  BY <1>1 DEF CallerInv, OwnSession, HasId
<1>4. KnownIds(d)'
  BY <1>1 DEF CallerInv, KnownIds, HasId
<1>5. AtPlace(d)'
  BY <1>1, <1>2 DEF CallerInv, AtPlace
<1>6. SeenJustified(d)'
  BY <1>2 DEF CallerInv, SeenJustified
<1>7. AbandonedOver(d)'
  BY DEF CallerInv, AbandonedOver
<1>8. RolledBackPlace(d)'
  BY <1>1 DEF CallerInv, RolledBackPlace
<1>9. CommittedPlace(d)'
  BY DEF CallerInv, CommittedPlace
<1>10. AtEnd(d)'
  BY <1>1 DEF CallerInv, AtEnd
<1> QED
  BY <1>3, <1>4, <1>5, <1>6, <1>7, <1>8, <1>9, <1>10 DEF CallerInv

(***************************************************************************)
(* What a step of caller c leaves to the others: their variables, their    *)
(* transactions, and the sessions that are lost.                           *)
(***************************************************************************)
OthersSame(c) ==
  \A d \in Callers \ {c} :
    /\ pc'[d] = pc[d] /\ session'[d] = session[d] /\ selector'[d] = selector[d]
    /\ status'[d] = status[d] /\ seen'[d] = seen[d] /\ thrown'[d] = thrown[d]
    /\ rb_status'[d] = rb_status[d] /\ known'[d] = known[d]

ServiceSame(c) ==
  /\ lost' = lost /\ ActiveAlive'
  /\ \A i \in Ids : state[i] # "unused" /\ i # selector[c] =>
       state'[i] = state[i] /\ home'[i] = home[i]

LearnsNew(c) == \A i \in known'[c] : i \in known[c] \/ state[i] = "unused"

StepKeeps(c) ==
  /\ TypeOK' /\ StatusTypes' /\ CallerInv(c)'
  /\ OthersSame(c) /\ ServiceSame(c) /\ LearnsNew(c)

LEMMA CallerStep ==
  ASSUME ClientInv, NEW c \in Callers, StepKeeps(c)
  PROVE  ClientInv'
<1>1. ASSUME NEW d \in Callers, d # c PROVE CallerInv(d)'
  <2>1. CallerInv(d) /\ CallerInv(c) /\ known[d] \subseteq Ids
    BY DEF ClientInv, TypeOK
  <2>2. \A i \in known[d] : state[i] # "unused" /\ i # selector[c]
    <3>1. ASSUME NEW i \in known[d] PROVE state[i] # "unused"
      BY <2>1 DEF CallerInv, KnownIds
    <3>2. ASSUME NEW i \in known[d], i = selector[c] PROVE FALSE
      <4>1. i \in known[c]
        BY <2>1, <3>2 DEF CallerInv, KnownIds, HasId
      <4> QED
        BY <1>1, <4>1 DEF ClientInv, KnownApart
    <3> QED
      BY <3>1, <3>2
  <2>3. d \in Callers \ {c} /\ OthersSame(c)
    BY <1>1 DEF StepKeeps
  <2>4. /\ pc'[d] = pc[d] /\ session'[d] = session[d]
        /\ selector'[d] = selector[d] /\ status'[d] = status[d]
        /\ seen'[d] = seen[d] /\ thrown'[d] = thrown[d]
        /\ rb_status'[d] = rb_status[d] /\ known'[d] = known[d]
    BY <2>3 DEF OthersSame
  <2>5. /\ lost \subseteq lost'
        /\ \A i \in known'[d] : home'[i] = home[i] /\ state'[i] = state[i]
    BY <2>1, <2>2, <2>4 DEF StepKeeps, ServiceSame
  <2>6. HasId(d) => selector[d] \in known'[d]
    BY <2>1, <2>4 DEF CallerInv, KnownIds
  <2> QED
    BY <2>1, <2>4, <2>5, <2>6, Bystander
<1>2. KnownApart'
  <2>1. ASSUME NEW d \in Callers, NEW e \in Callers, d # e,
               NEW i \in known'[d], i \in known'[e]
        PROVE  FALSE
    <3>1. \A x \in Callers \ {c} :
            known'[x] = known[x] /\ \A j \in known[x] : state[j] # "unused"
      BY DEF StepKeeps, OthersSame, ClientInv, CallerInv, KnownIds
    <3>2. \A j \in known'[c] : j \in known[c] \/ state[j] = "unused"
      BY DEF StepKeeps, LearnsNew
    <3>3. known[d] \cap known[e] = {}
      BY <2>1 DEF ClientInv, KnownApart
    <3> QED
      BY <2>1, <3>1, <3>2, <3>3
  <2> QED
    BY <2>1 DEF KnownApart
<1>3. \A d \in Callers : CallerInv(d)'
  BY <1>1 DEF StepKeeps
<1> QED
  BY <1>2, <1>3 DEF StepKeeps, ServiceSame, ClientInv

\* The service does nothing.
LEMMA ServiceIdle ==
  ASSUME ClientInv, NEW c \in Callers, UNCHANGED serviceVars
  PROVE  ServiceSame(c)
BY DEF ClientInv, ServiceSame, serviceVars, ActiveAlive

\* The service begins a transaction that nobody has known before.
LEMMA BeginsFacts ==
  ASSUME ClientInv, NEW c \in Callers, NEW i \in Ids, Begins(c, i)
  PROVE  /\ ServiceSame(c) /\ state[i] = "unused" /\ session[c] \notin lost
         /\ state'[i] = "active" /\ home'[i] = session[c]
         /\ \A d \in Callers : i \notin known[d]
         /\ \A j \in Ids : j # i => state'[j] = state[j] /\ home'[j] = home[j]
         /\ state' \in [Ids -> {"unused", "active", "committed", "aborted",
                                "rolled_back"}]
         /\ home' \in [Ids -> Sessions \cup {Null}]
<1>1. /\ state \in [Ids -> {"unused", "active", "committed", "aborted",
                            "rolled_back"}]
      /\ home \in [Ids -> Sessions \cup {Null}]
      /\ session[c] \in Sessions \cup {Null}
  BY DEF ClientInv, TypeOK
<1>2. /\ state[i] = "unused" /\ session[c] \notin lost /\ lost' = lost
      /\ state' = [state EXCEPT ![i] = "active"]
      /\ home' = [home EXCEPT ![i] = session[c]]
  BY DEF Begins, Accepts, IsNextId
<1>3. /\ state'[i] = "active" /\ home'[i] = session[c]
      /\ \A j \in Ids : j # i => state'[j] = state[j] /\ home'[j] = home[j]
      /\ state' \in [Ids -> {"unused", "active", "committed", "aborted",
                             "rolled_back"}]
      /\ home' \in [Ids -> Sessions \cup {Null}]
  BY <1>1, <1>2
<1>4. \A d \in Callers : i \notin known[d]
  BY <1>2 DEF ClientInv, CallerInv, KnownIds
<1>5. ActiveAlive'
  BY <1>2, <1>3 DEF ClientInv, ActiveAlive
<1>6. ServiceSame(c)
  BY <1>2, <1>3, <1>5 DEF ServiceSame
<1> QED
  BY <1>2, <1>3, <1>4, <1>6

\* The service ends the transaction of an attempt.
LEMMA EndsFacts ==
  ASSUME ClientInv, NEW c \in Callers, HasId(c),
         NEW end \in {"committed", "rolled_back"}, Ends(c, end)
  PROVE  /\ ServiceSame(c) /\ session[c] \notin lost /\ Own(c) # "aborted"
         /\ home' = home /\ lost' = lost
         /\ state'[selector[c]] = IF Own(c) = "active" THEN end ELSE Own(c)
         /\ \A j \in Ids : j # selector[c] => state'[j] = state[j]
         /\ state' \in [Ids -> {"unused", "active", "committed", "aborted",
                                "rolled_back"}]
<1>1. state \in [Ids -> {"unused", "active", "committed", "aborted",
                         "rolled_back"}]
  BY DEF ClientInv, TypeOK
<1>2. /\ session[c] \notin lost /\ Own(c) # "aborted"
      /\ home' = home /\ lost' = lost
      /\ state' = [state EXCEPT ![selector[c]] =
                     IF Own(c) = "active" THEN end ELSE Own(c)]
  BY DEF Ends, Accepts, HasId, Own
<1>3. /\ state'[selector[c]] = IF Own(c) = "active" THEN end ELSE Own(c)
      /\ \A j \in Ids : j # selector[c] => state'[j] = state[j]
      /\ state' \in [Ids -> {"unused", "active", "committed", "aborted",
                             "rolled_back"}]
  BY <1>1, <1>2 DEF HasId, Own
<1>4. ActiveAlive'
  BY <1>2, <1>3 DEF ClientInv, ActiveAlive, Own
<1>5. ServiceSame(c)
  BY <1>2, <1>3, <1>4 DEF ServiceSame
<1> QED
  BY <1>2, <1>3, <1>5

\* The places before the commit or the rollback is executed.
Early == {"start", "mutator", "prepare_request", "request", "prepare_commit",
          "begin", "prepare_rollback"}

\* A local step from such a place, which may get a session for a transaction
\* that has none.
LEMMA EarlyStep ==
  ASSUME ClientInv, NEW c \in Callers, pc[c] \in Early, UNCHANGED serviceVars,
         known'[c] = known[c], selector'[c] = selector[c],
         session'[c] = session[c] \/ session[c] = Null,
         pc'[c] \in Rpcs => session'[c] # Null
  PROVE  /\ OwnSession(c)' /\ KnownIds(c)' /\ AbandonedOver(c)'
         /\ RolledBackPlace(c)' /\ CommittedPlace(c)'
         /\ HasId(c)' <=> HasId(c)
         /\ \A st : Justified(c, st) => Justified(c, st)'
<1>1. CallerInv(c) /\ lost \subseteq Sessions
  BY DEF ClientInv, TypeOK
<1>2. /\ HasId(c)' <=> HasId(c)
      /\ Own(c)' = Own(c) /\ UNCHANGED <<state, home, lost>>
  BY DEF HasId, Own, serviceVars
<1>3. pc[c] # "done" /\ (HasId(c) => session'[c] = session[c])
  BY <1>1 DEF CallerInv, OwnSession, Early
<1>4. OwnSession(c)'
  BY <1>1, <1>2, <1>3 DEF CallerInv, OwnSession
<1>5. KnownIds(c)' /\ AbandonedOver(c)'
  BY <1>1, <1>2 DEF CallerInv, KnownIds, AbandonedOver
<1>6. RolledBackPlace(c)'
  BY <1>1, <1>2 DEF CallerInv, RolledBackPlace, Early
<1>7. CommittedPlace(c)'
  BY <1>1, <1>2 DEF CallerInv, CommittedPlace, Early
<1>8. ASSUME NEW st, Justified(c, st) PROVE Justified(c, st)'
  <2>1. IsSessionNotFound(st) => session'[c] \in lost'
    BY <1>1, <1>2, <1>8, ClientAssumption DEF Justified, Null
  <2> QED
    BY <1>2, <1>8, <2>1 DEF Justified
<1> QED
  BY <1>2, <1>4, <1>5, <1>6, <1>7, <1>8

\* The mutator runs, and ends.
LEMMA MutatorKeeps ==
  ASSUME ClientInv, NEW c \in Callers,
         \/ Start(c) \/ MutatorRequests(c) \/ StreamBreaks(c)
         \/ MutatorSucceeds(c) \/ MutatorFails(c) \/ MutatorThrows(c)
  PROVE  StepKeeps(c)
<1> USE DEF Goto, SetStatus
<1>1. CallerInv(c) /\ TypeOK /\ StatusTypes
  BY DEF ClientInv
<1>2. /\ UNCHANGED <<session, selector, reruns, rb_status, failures, known>>
      /\ UNCHANGED <<poolVars, serviceVars>>
      /\ pc[c] \in {"start", "mutator"} /\ ~thrown[c]
  <2>1. /\ UNCHANGED <<session, selector, reruns, rb_status, failures, known>>
        /\ UNCHANGED <<poolVars, serviceVars>>
        /\ pc[c] \in {"start", "mutator"}
    BY DEF Start, MutatorRequests, StreamBreaks, MutatorSucceeds, MutatorFails,
           MutatorThrows, loopVars
  <2> QED
    BY <1>1, <2>1 DEF CallerInv, AtPlace
<1>3. /\ OwnSession(c)' /\ KnownIds(c)' /\ AbandonedOver(c)'
      /\ RolledBackPlace(c)' /\ CommittedPlace(c)'
      /\ \A st : Justified(c, st) => Justified(c, st)'
  <2>1. pc'[c] \notin Rpcs
    BY <1>1
       DEF Start, MutatorRequests, StreamBreaks, MutatorSucceeds, MutatorFails,
           MutatorThrows, TypeOK, Rpcs
  <2> QED
    BY <1>2, <2>1, EarlyStep DEF Early
<1>4. ServiceSame(c) /\ LearnsNew(c)
  BY <1>2, ServiceIdle DEF LearnsNew
<1>5. /\ rb_status[c] = NotCalled
      /\ \A st \in seen[c] : ~IsOk(st) /\ Justified(c, st)
  BY <1>1, <1>2 DEF CallerInv, AtPlace, SeenJustified
<1>6. CASE Start(c) \/ MutatorRequests(c)
  <2>1. PICK place \in {"mutator", "prepare_request"} :
          pc' = [pc EXCEPT ![c] = place]
    BY <1>6 DEF Start, MutatorRequests
  <2>2. UNCHANGED <<status, seen, thrown>>
    BY <1>6 DEF Start, MutatorRequests, loopVars
  <2>3. requests' \in [Callers -> 0 .. MaxRequests]
    BY <1>1, <1>6, ClientAssumption DEF Start, MutatorRequests, loopVars, TypeOK
  <2>4. TypeOK' /\ StatusTypes'
    BY <1>1, <1>2, <2>1, <2>2, <2>3
       DEF TypeOK, StatusTypes, poolVars, serviceVars
  <2>5. OthersSame(c)
    BY <1>1, <1>2, <2>1, <2>2 DEF OthersSame, TypeOK
  <2>6. AtPlace(c)' /\ SeenJustified(c)' /\ AtEnd(c)'
    BY <1>1, <1>2, <1>3, <1>5, <2>1, <2>2
       DEF TypeOK, AtPlace, SeenJustified, AtEnd
  <2> QED
    BY <1>3, <1>4, <2>4, <2>5, <2>6 DEF StepKeeps, CallerInv
<1>7. CASE StreamBreaks(c)
  <2>1. PICK st \in Refusals(c) : seen' = [seen EXCEPT ![c] = @ \cup {st}]
    BY <1>7 DEF StreamBreaks
  <2>2. UNCHANGED <<pc, status, thrown, requests>>
    BY <1>7 DEF StreamBreaks
  <2>3. st \in StatusType /\ ~IsOk(st) /\ Justified(c, st)
    BY RefusalFacts, StatusFacts
  <2>4. TypeOK' /\ StatusTypes'
    BY <1>1, <1>2, <2>1, <2>2, <2>3
       DEF TypeOK, StatusTypes, poolVars, serviceVars
  <2>5. OthersSame(c)
    BY <1>1, <1>2, <2>1, <2>2 DEF OthersSame, StatusTypes
  <2>6. AtPlace(c)' /\ AtEnd(c)'
    BY <1>1, <1>2, <1>5, <2>2 DEF AtPlace, AtEnd
  <2>7. SeenJustified(c)'
    <3>1. seen'[c] = seen[c] \cup {st}
      BY <1>1, <2>1 DEF StatusTypes
    <3> QED
      BY <1>3, <1>5, <2>3, <3>1 DEF SeenJustified
  <2> QED
    BY <1>3, <1>4, <2>4, <2>5, <2>6, <2>7 DEF StepKeeps, CallerInv
<1>8. CASE MutatorSucceeds(c) \/ MutatorFails(c)
  <2>1. PICK st : /\ st \in seen[c] \cup {InvalidArgument, Unknown, OkStatus}
                  /\ status' = [status EXCEPT ![c] = st]
                  /\ pc' = [pc EXCEPT ![c] =
                       IF st = OkStatus THEN "prepare_commit"
                       ELSE IF IsRerunnable(st) THEN "judge"
                       ELSE "prepare_rollback"]
    <3>1. OkStatus \notin seen[c] \cup {InvalidArgument, Unknown}
      BY <1>5, StatusFacts
    <3>2. CASE MutatorSucceeds(c)
      BY <3>2 DEF MutatorSucceeds
    <3>3. CASE MutatorFails(c)
      BY <3>1, <3>3 DEF MutatorFails
    <3> QED
      BY <1>8, <3>2, <3>3
  <2>2. UNCHANGED <<seen, thrown, requests>>
    BY <1>8 DEF MutatorSucceeds, MutatorFails
  <2>3. /\ st \in StatusType
        /\ st # OkStatus => ~IsOk(st) /\ Justified(c, st)
    <3>1. st \in seen[c] => st \in StatusType /\ ~IsOk(st) /\ Justified(c, st)
      BY <1>1, <1>5 DEF StatusTypes
    <3>2. st \in {InvalidArgument, Unknown} =>
            st \in StatusType /\ ~IsOk(st) /\ Justified(c, st)
      BY StatusFacts DEF Justified
    <3> QED
      BY <2>1, <3>1, <3>2, StatusFacts
  <2>4. TypeOK' /\ StatusTypes'
    BY <1>1, <1>2, <2>1, <2>2, <2>3
       DEF TypeOK, StatusTypes, poolVars, serviceVars
  <2>5. OthersSame(c)
    BY <1>1, <1>2, <2>1, <2>2 DEF OthersSame, TypeOK, StatusTypes
  <2>6. status'[c] = st /\ pc'[c] = IF st = OkStatus THEN "prepare_commit"
                                    ELSE IF IsRerunnable(st) THEN "judge"
                                    ELSE "prepare_rollback"
    BY <1>1, <2>1 DEF TypeOK, StatusTypes
  <2>7. AtPlace(c)'
    BY <1>2, <1>3, <1>5, <2>2, <2>3, <2>6, StatusFacts DEF AtPlace
  <2>8. SeenJustified(c)' /\ AtEnd(c)'
    BY <1>3, <1>5, <2>2, <2>6 DEF SeenJustified, AtEnd
  <2> QED
    BY <1>3, <1>4, <2>4, <2>5, <2>7, <2>8 DEF StepKeeps, CallerInv
<1>9. CASE MutatorThrows(c)
  <2>1. /\ pc' = [pc EXCEPT ![c] = "prepare_rollback"]
        /\ thrown' = [thrown EXCEPT ![c] = TRUE]
        /\ UNCHANGED <<status, seen, requests>>
    BY <1>9 DEF MutatorThrows
  <2>2. TypeOK' /\ StatusTypes'
    BY <1>1, <1>2, <2>1 DEF TypeOK, StatusTypes, poolVars, serviceVars
  <2>3. OthersSame(c)
    BY <1>1, <1>2, <2>1 DEF OthersSame, TypeOK
  <2>4. pc'[c] = "prepare_rollback" /\ thrown'[c] = TRUE
    BY <1>1, <2>1 DEF TypeOK
  <2>5. AtPlace(c)' /\ SeenJustified(c)' /\ AtEnd(c)'
    BY <1>2, <1>3, <1>5, <2>1, <2>4 DEF AtPlace, SeenJustified, AtEnd
  <2> QED
    BY <1>3, <1>4, <2>2, <2>3, <2>5 DEF StepKeeps, CallerInv
<1> QED
  BY <1>6, <1>7, <1>8, <1>9

\* A transaction gets a session, has one, or gets none.
LEMMA GetsSession ==
  ASSUME ClientInv, NEW c \in Callers, HasSession(c) \/ NoSession(c)
  PROVE  /\ session' \in [Callers -> Sessions \cup {Null}]
         /\ idle' \subseteq Sessions
         /\ \A d \in Callers \ {c} : session'[d] = session[d]
         /\ session'[c] = session[c] \/ session[c] = Null
         /\ HasSession(c) => session'[c] # Null
         /\ NoSession(c) => session[c] = Null
<1>1. session \in [Callers -> Sessions \cup {Null}] /\ idle \subseteq Sessions
  BY DEF ClientInv, TypeOK
<1>2. CASE UNCHANGED <<session, idle>>
  <2>1. HasSession(c) => session'[c] # Null
    BY <1>1, <1>2, ClientAssumption DEF HasSession, Null
  <2> QED
    BY <1>1, <1>2, <2>1 DEF NoSession
<1>3. CASE ~UNCHANGED <<session, idle>>
  <2>1. PICK s \in idle : /\ session' = [session EXCEPT ![c] = s]
                          /\ idle' = idle \ {s} /\ session[c] = Null
    BY <1>3 DEF HasSession, NoSession
  <2>2. session'[c] = s /\ s # Null
    BY <1>1, <2>1, ClientAssumption DEF Null
  <2> QED
    BY <1>1, <2>1, <2>2
<1> QED
  BY <1>2, <1>3

LEMMA PrepareStepKeeps ==
  ASSUME ClientInv, NEW c \in Callers,
         PrepareRequest(c) \/ PrepareCommit(c) \/ PrepareRollback(c)
  PROVE  StepKeeps(c)
<1> USE DEF Goto, SetStatus
<1>1. CallerInv(c) /\ TypeOK /\ StatusTypes
  BY DEF ClientInv
<1>2. /\ UNCHANGED <<selector, requests, reruns, thrown, failures, known>>
      /\ UNCHANGED <<others, bad, reported>> /\ UNCHANGED serviceVars
      /\ HasSession(c) \/ NoSession(c)
      /\ pc[c] \in {"prepare_request", "prepare_commit", "prepare_rollback"}
  BY DEF PrepareRequest, PrepareCommit, PrepareRollback
<1>3. /\ session' \in [Callers -> Sessions \cup {Null}]
      /\ idle' \subseteq Sessions
      /\ \A d \in Callers \ {c} : session'[d] = session[d]
      /\ session'[c] = session[c] \/ session[c] = Null
      /\ HasSession(c) => session'[c] # Null
      /\ NoSession(c) => session[c] = Null
  BY <1>2, GetsSession
<1>4. NoSession(c) => ~HasId(c)
  BY <1>1, <1>2, <1>3 DEF CallerInv, OwnSession
<1>5. /\ rb_status[c] = NotCalled
      /\ \A st \in seen[c] : ~IsOk(st) /\ Justified(c, st)
  BY <1>1, <1>2 DEF CallerInv, AtPlace, SeenJustified
<1>6. ServiceSame(c) /\ LearnsNew(c)
  BY <1>2, ServiceIdle DEF LearnsNew
<1>7. ASSUME pc'[c] \in Rpcs => HasSession(c)
      PROVE  /\ OwnSession(c)' /\ KnownIds(c)' /\ AbandonedOver(c)'
             /\ RolledBackPlace(c)' /\ CommittedPlace(c)'
             /\ HasId(c)' <=> HasId(c)
             /\ \A st : Justified(c, st) => Justified(c, st)'
  BY <1>2, <1>3, <1>7, EarlyStep DEF Early
<1>8. CASE PrepareRequest(c)
  <2>1. /\ pc[c] = "prepare_request" /\ UNCHANGED <<status, rb_status>>
        /\ ~thrown[c]
    BY <1>1, <1>8 DEF PrepareRequest, CallerInv, AtPlace
  <2>2. \/ HasSession(c) /\ pc' = [pc EXCEPT ![c] = "request"] /\ seen' = seen
        \/ /\ NoSession(c) /\ pc' = [pc EXCEPT ![c] = "mutator"]
           /\ seen' = [seen EXCEPT ![c] = seen[c] \cup {Exhausted}]
    BY <1>8 DEF PrepareRequest
  <2>3. /\ seen'[c] = seen[c] \/ seen'[c] = seen[c] \cup {Exhausted}
        /\ pc'[c] = "mutator" \/ (pc'[c] = "request" /\ HasSession(c))
    BY <1>1, <2>2 DEF TypeOK, StatusTypes
  <2>4. TypeOK'
    BY <1>1, <1>2, <1>3, <2>2 DEF TypeOK, serviceVars, Rpcs
  <2>5. StatusTypes'
    BY <1>1, <2>1, <2>2, StatusFacts DEF StatusTypes
  <2>6. OthersSame(c)
    BY <1>1, <1>2, <1>3, <2>1, <2>2 DEF OthersSame, TypeOK, StatusTypes
  <2>7. ~IsOk(Exhausted) /\ Justified(c, Exhausted)
    BY StatusFacts DEF Justified
  <2>8. pc'[c] \in Rpcs => HasSession(c)
    BY <2>3 DEF Rpcs
  <2>9. SeenJustified(c)'
    BY <1>5, <1>7, <2>3, <2>7, <2>8 DEF SeenJustified
  <2>10. AtPlace(c)' /\ AtEnd(c)'
    BY <1>2, <1>5, <2>1, <2>3 DEF AtPlace, AtEnd
  <2> QED
    BY <1>6, <1>7, <2>4, <2>5, <2>6, <2>8, <2>9, <2>10 DEF StepKeeps, CallerInv
<1>9. CASE PrepareCommit(c)
  <2>1. /\ pc[c] = "prepare_commit" /\ UNCHANGED <<seen, rb_status>>
        /\ ~thrown[c] /\ IsOk(status[c])
    BY <1>1, <1>9 DEF PrepareCommit, CallerInv, AtPlace
  <2>2. \/ /\ HasSession(c) /\ HasId(c) /\ status' = status
           /\ pc' = [pc EXCEPT ![c] = "commit"]
        \/ /\ HasSession(c) /\ ~HasId(c) /\ status' = status
           /\ pc' = [pc EXCEPT ![c] = "begin"]
        \/ /\ NoSession(c) /\ status' = [status EXCEPT ![c] = Exhausted]
           /\ pc' = [pc EXCEPT ![c] = "judge"]
    BY <1>9 DEF PrepareCommit, HasId
  <2>3. \/ /\ pc'[c] = "commit" /\ HasSession(c) /\ HasId(c)
           /\ status'[c] = status[c]
        \/ /\ pc'[c] = "begin" /\ HasSession(c) /\ ~HasId(c)
           /\ status'[c] = status[c]
        \/ pc'[c] = "judge" /\ status'[c] = Exhausted
    BY <1>1, <2>2 DEF TypeOK, StatusTypes
  <2>4. TypeOK'
    BY <1>1, <1>2, <1>3, <2>2 DEF TypeOK, serviceVars, Rpcs
  <2>5. StatusTypes'
    BY <1>1, <2>1, <2>2, StatusFacts DEF StatusTypes
  <2>6. OthersSame(c)
    BY <1>1, <1>2, <1>3, <2>1, <2>2 DEF OthersSame, TypeOK, StatusTypes
  <2>7. ~IsOk(Exhausted) /\ Justified(c, Exhausted)
    BY StatusFacts DEF Justified
  <2>8. pc'[c] \in Rpcs => HasSession(c)
    BY <2>3 DEF Rpcs
  <2>9. SeenJustified(c)' /\ AtEnd(c)'
    BY <1>5, <1>7, <2>1, <2>3, <2>8 DEF SeenJustified, AtEnd
  <2>10. ~HasId(c) => selector'[c] = "begin"
    BY <1>1, <1>2 DEF HasId, TypeOK
  <2>11. AtPlace(c)'
    BY <1>2, <1>5, <1>7, <2>1, <2>3, <2>7, <2>8, <2>10 DEF AtPlace
  <2> QED
    BY <1>6, <1>7, <2>4, <2>5, <2>6, <2>8, <2>9, <2>11 DEF StepKeeps, CallerInv
<1>10. CASE PrepareRollback(c)
  <2>1. /\ pc[c] = "prepare_rollback" /\ UNCHANGED <<seen, status>>
        /\ thrown[c] \/ ~IsOk(status[c])
    BY <1>1, <1>10 DEF PrepareRollback, CallerInv, AtPlace
  <2>2. \/ /\ HasSession(c) /\ selector[c] # "begin" /\ rb_status' = rb_status
           /\ pc' = [pc EXCEPT ![c] = "rollback"]
        \/ /\ NoSession(c) \/ selector[c] = "begin"
           /\ \E st \in {OkStatus, Exhausted} :
                rb_status' = [rb_status EXCEPT ![c] = st]
           /\ pc' = [pc EXCEPT ![c] = "return"]
    BY <1>10 DEF PrepareRollback, NothingToRollback
  <2>3. selector[c] = "begin" <=> ~HasId(c)
    BY <1>1, ClientAssumption DEF HasId, TypeOK
  <2>4. \/ /\ pc'[c] = "rollback" /\ HasSession(c) /\ HasId(c)
           /\ rb_status'[c] = rb_status[c]
        \/ pc'[c] = "return" /\ ~HasId(c)
    BY <1>1, <1>4, <2>2, <2>3 DEF TypeOK
  <2>5. TypeOK'
    BY <1>1, <1>2, <1>3, <2>2 DEF TypeOK, serviceVars, Rpcs
  <2>6. StatusTypes'
    BY <1>1, <2>1, <2>2, StatusFacts DEF StatusTypes
  <2>7. OthersSame(c)
    BY <1>1, <1>2, <1>3, <2>1, <2>2 DEF OthersSame, TypeOK, StatusTypes
  <2>8. pc'[c] \in Rpcs => HasSession(c)
    BY <2>4 DEF Rpcs
  <2>9. SeenJustified(c)'
    BY <1>5, <1>7, <2>1, <2>8 DEF SeenJustified
  <2>10. AtPlace(c)' /\ AtEnd(c)'
    BY <1>2, <1>5, <1>7, <2>1, <2>4, <2>8 DEF AtPlace, AtEnd
  <2> QED
    BY <1>6, <1>7, <2>5, <2>6, <2>7, <2>8, <2>9, <2>10 DEF StepKeeps, CallerInv
<1> QED
  BY <1>8, <1>9, <1>10

(***************************************************************************)
(* The RPCs.                                                               *)
(***************************************************************************)
States == {"unused", "active", "committed", "aborted", "rolled_back"}

\* What an RPC that gets no answer may have done to the transaction.
Unanswered(c, i) ==
  /\ i = selector[c] /\ state[i] = "active"
  /\ \/ pc[c] = "commit" /\ state'[i] = "committed"
     \/ pc[c] = "rollback" /\ state'[i] = "rolled_back"

\* A try fails: nothing has happened, or it has and the answer was lost.
LEMMA TryFailsKeeps ==
  ASSUME ClientInv, NEW c \in Callers, pc[c] \in Rpcs,
         NEW st \in Refusals(c) \cup {Unavailable}, TryFails(c, st),
         ServiceSame(c), state' \in [Ids -> States],
         home' \in [Ids -> Sessions \cup {Null}],
         \A i \in known[c] :
           /\ home'[i] = home[i]
           /\ state'[i] = state[i] \/ (st = Unavailable /\ Unanswered(c, i))
  PROVE  StepKeeps(c)
<1> USE DEF Goto, SetStatus
<1>1. CallerInv(c) /\ TypeOK /\ StatusTypes /\ lost' = lost
  BY DEF ClientInv, ServiceSame
<1>2. /\ st \in StatusType /\ ~IsOk(st) /\ Justified(c, st)
      /\ st.code \in {"kUnavailable", "kNotFound", "kAborted"}
  <2>1. CASE st \in Refusals(c)
    <3>1. st \in {SessionNotFound, NotFound, Aborted} /\ Justified(c, st)
      BY <2>1, RefusalFacts
    <3>2. /\ SessionNotFound.code = "kNotFound" /\ NotFound.code = "kNotFound"
          /\ Aborted.code = "kAborted"
      BY DEF SessionNotFound, NotFound, Aborted, MakeStatus
    <3> QED
      BY <3>1, <3>2, StatusFacts
  <2>2. CASE st = Unavailable
    BY <2>2, StatusFacts DEF Justified
  <2> QED
    BY <2>1, <2>2
<1>3. PICK r : r = LoopResult(TRUE, st)
  OBVIOUS
<1>4. /\ r \in StatusType /\ r.code = st.code /\ ~IsOk(r)
      /\ Justified(c, r) /\ r \notin {NotCalled, OkStatus}
  <2>1. /\ r \in StatusType /\ r.code = st.code /\ ~IsOk(r)
        /\ IsSessionNotFound(r) <=> IsSessionNotFound(st)
    BY <1>2, <1>3, LoopResultFacts
  <2>2. NotCalled.code = "not_called" /\ OkStatus.code = "kOk"
    BY DEF NotCalled, OkStatus, MakeStatus
  <2> QED
    BY <1>2, <2>1, <2>2 DEF Justified
<1>5. /\ failures' \in [Callers -> 0 .. MaxFailures]
      /\ bad' \subseteq Sessions \cup {session[c]}
      /\ reported' \subseteq Sessions \cup {session[c]}
      /\ UNCHANGED <<session, selector, requests, reruns, thrown, known, idle,
                     others>>
      /\ \/ UNCHANGED <<pc, status, seen, rb_status>>
         \/ /\ pc[c] = "request" /\ pc' = [pc EXCEPT ![c] = "mutator"]
            /\ seen' = [seen EXCEPT ![c] = seen[c] \cup {r}]
            /\ UNCHANGED <<status, rb_status>>
         \/ /\ pc[c] \in {"begin", "commit"}
            /\ pc' = [pc EXCEPT ![c] = "judge"]
            /\ status' = [status EXCEPT ![c] = r]
            /\ UNCHANGED <<seen, rb_status>>
         \/ /\ pc[c] = "rollback" /\ pc' = [pc EXCEPT ![c] = "return"]
            /\ rb_status' = [rb_status EXCEPT ![c] = r]
            /\ UNCHANGED <<seen, status>>
  BY <1>1, <1>2, <1>3, TryFailsEffect
<1>6. session[c] \in Sessions
  BY <1>1 DEF CallerInv, OwnSession, TypeOK
<1>7. TypeOK'
  BY <1>1, <1>5, <1>6 DEF TypeOK, States
<1>8. StatusTypes'
  BY <1>1, <1>4, <1>5 DEF StatusTypes
<1>9. OthersSame(c) /\ LearnsNew(c)
  BY <1>1, <1>5 DEF OthersSame, LearnsNew, TypeOK, StatusTypes
<1>10. /\ HasId(c)' <=> HasId(c)
       /\ HasId(c) => selector[c] \in known[c]
       /\ HasId(c) => /\ home'[selector[c]] = session[c]
                      /\ home[selector[c]] = session[c]
  <2>1. /\ HasId(c)' <=> HasId(c)
        /\ HasId(c) => selector[c] \in known[c]
    BY <1>1, <1>5 DEF HasId, CallerInv, KnownIds
  <2>2. HasId(c) => home[selector[c]] = session[c]
    BY <1>1 DEF CallerInv, OwnSession, Rpcs
  <2> QED
    BY <2>1, <2>2
<1>11. ASSUME NEW x, Justified(c, x) PROVE Justified(c, x)'
  <2>1. x.code = "kAborted" => HasId(c)' /\ Own(c)' = "aborted"
    BY <1>5, <1>10, <1>11 DEF Justified, Own, Unanswered
  <2> QED
    BY <1>1, <1>5, <1>11, <2>1 DEF Justified
<1>12. OwnSession(c)' /\ KnownIds(c)' /\ AbandonedOver(c)'
  <2>1. OwnSession(c)'
    BY <1>1, <1>5, <1>6, <1>10, ClientAssumption DEF OwnSession, Null
  <2>2. KnownIds(c)'
    BY <1>1, <1>5, <1>10 DEF CallerInv, KnownIds, Unanswered
  <2>3. AbandonedOver(c)'
    BY <1>1, <1>5 DEF CallerInv, AbandonedOver, Unanswered
  <2> QED
    BY <2>1, <2>2, <2>3
<1>13. \A i \in known[c] : state'[i] = "committed" /\ home[i] \notin lost =>
         /\ i = selector[c] /\ ~thrown[c] /\ pc[c] = "commit"
         /\ st.code = "kUnavailable"
  <2>1. ASSUME NEW i \in known[c], state'[i] = "committed", home[i] \notin lost
        PROVE  /\ i = selector[c] /\ ~thrown[c] /\ pc[c] = "commit"
               /\ st.code = "kUnavailable"
    <3>1. i = selector[c] /\ pc[c] = "commit"
      BY <1>1, <2>1 DEF CallerInv, CommittedPlace, Unanswered, Rpcs
    <3>2. ~thrown[c] /\ HasId(c)
      BY <1>1, <3>1 DEF CallerInv, AtPlace
    <3>3. st = Unavailable
      <4>1. SUFFICES ASSUME st # Unavailable PROVE FALSE
        OBVIOUS
      <4>2. st \in Refusals(c) /\ Own(c) = "committed"
        BY <2>1, <3>1, <4>1 DEF Own
      <4>3. session[c] \in lost
        BY <3>2, <4>2, RefusalFacts
      <4> QED
        BY <1>10, <2>1, <3>1, <3>2, <4>3
    <3> QED
      BY <3>1, <3>2, <3>3, StatusFacts
  <2> QED
    BY <2>1
<1>14. HasId(c) /\ Own(c)' = "rolled_back" => pc[c] = "rollback"
  <2>1. HasId(c) /\ Own(c) = "rolled_back" => pc[c] = "rollback"
    BY <1>1 DEF CallerInv, RolledBackPlace, Rpcs
  <2>2. HasId(c) => Own(c)' = state'[selector[c]]
    BY <1>5 DEF Own
  <2> QED
    BY <1>10, <2>1, <2>2 DEF Own, Unanswered
<1>15. \/ pc'[c] = pc[c] /\ UNCHANGED <<status, seen, rb_status>>
       \/ /\ pc[c] = "request" /\ pc'[c] = "mutator"
          /\ seen'[c] = seen[c] \cup {r} /\ UNCHANGED <<status, rb_status>>
       \/ /\ pc[c] \in {"begin", "commit"} /\ pc'[c] = "judge"
          /\ status'[c] = r /\ UNCHANGED <<seen, rb_status>>
       \/ /\ pc[c] = "rollback" /\ pc'[c] = "return"
          /\ rb_status'[c] = r /\ UNCHANGED <<seen, status>>
  BY <1>1, <1>5 DEF TypeOK, StatusTypes
<1>16. CommittedPlace(c)'
  <2>1. ASSUME NEW i \in known'[c], state'[i] = "committed",
               home'[i] \notin lost'
        PROVE  /\ i = selector'[c] /\ ~thrown'[c]
               /\ \/ pc'[c] = "commit"
                  \/ pc'[c] = "judge" /\ status'[c].code = "kUnavailable"
    <3>1. i \in known[c] /\ home[i] \notin lost
      BY <1>1, <1>5, <2>1
    <3>2. /\ i = selector[c] /\ ~thrown[c] /\ pc[c] = "commit"
          /\ st.code = "kUnavailable"
      BY <1>13, <2>1, <3>1
    <3> QED
      BY <1>4, <1>5, <1>15, <3>2
  <2> QED
    BY <2>1 DEF CommittedPlace
<1>17. RolledBackPlace(c)'
  BY <1>10, <1>14, <1>15 DEF RolledBackPlace
<1>18. SeenJustified(c)'
  <2>1. \A x \in seen[c] : ~IsOk(x) /\ Justified(c, x)
    BY <1>1 DEF CallerInv, SeenJustified, Rpcs
  <2>2. \A x \in seen'[c] : ~IsOk(x) /\ Justified(c, x)
    BY <1>4, <1>15, <2>1
  <2> QED
    BY <1>11, <2>2 DEF SeenJustified
<1>19. AtPlace(c)'
  <2>1. pc'[c] = "judge" => ~IsOk(status'[c]) /\ Justified(c, status[c])'
    BY <1>4, <1>11, <1>15 DEF Rpcs
  <2> QED
    BY <1>1, <1>5, <1>10, <1>15, <2>1 DEF CallerInv, AtPlace, Rpcs
<1>20. AtEnd(c)'
  BY <1>1, <1>4, <1>5, <1>15 DEF CallerInv, AtPlace, AtEnd, Rpcs
<1> QED
  BY <1>7, <1>8, <1>9, <1>12, <1>16, <1>17, <1>18, <1>19, <1>20
     DEF StepKeeps, CallerInv

\* The service refuses, or does not answer.
LEMMA RefusedKeeps ==
  ASSUME ClientInv, NEW c \in Callers, Refused(c)
  PROVE  StepKeeps(c)
<1>1. PICK st \in Refusals(c) \cup {Unavailable} : TryFails(c, st)
  BY DEF Refused
<1>2. pc[c] \in Rpcs /\ UNCHANGED serviceVars
  BY DEF Refused
<1>3. ServiceSame(c)
  BY <1>2, ServiceIdle
<1>4. /\ state' \in [Ids -> States] /\ home' \in [Ids -> Sessions \cup {Null}]
      /\ \A i \in known[c] : home'[i] = home[i] /\ state'[i] = state[i]
  BY <1>2 DEF serviceVars, ClientInv, TypeOK, States
<1> QED
  BY <1>1, <1>2, <1>3, <1>4, TryFailsKeeps

LEMMA AnswerLostKeeps ==
  ASSUME ClientInv, NEW c \in Callers, AnswerLost(c)
  PROVE  StepKeeps(c)
<1>1. pc[c] \in Rpcs /\ TryFails(c, Unavailable)
  BY DEF AnswerLost
<1>2. CallerInv(c) /\ TypeOK /\ known[c] \subseteq Ids
  BY DEF ClientInv, TypeOK
<1>3. /\ ServiceSame(c) /\ state' \in [Ids -> States]
      /\ home' \in [Ids -> Sessions \cup {Null}]
      /\ \A i \in known[c] :
           home'[i] = home[i] /\ (state'[i] = state[i] \/ Unanswered(c, i))
  <2>1. CASE \E i \in Ids : Begins(c, i)
    <3>1. PICK i \in Ids : Begins(c, i)
      BY <2>1
    <3>2. /\ ServiceSame(c) /\ i \notin known[c]
          /\ \A j \in Ids : j # i => state'[j] = state[j] /\ home'[j] = home[j]
          /\ state' \in [Ids -> States]
          /\ home' \in [Ids -> Sessions \cup {Null}]
      BY <3>1, BeginsFacts DEF States
    <3> QED
      BY <1>2, <3>2
  <2>2. CASE UNCHANGED serviceVars
    <3>1. ServiceSame(c)
      BY <2>2, ServiceIdle
    <3> QED
      BY <1>2, <2>2, <3>1 DEF serviceVars, TypeOK, States
  <2>3. ASSUME NEW end \in {"committed", "rolled_back"}, Ends(c, end),
               pc[c] = IF end = "committed" THEN "commit" ELSE "rollback"
        PROVE  /\ ServiceSame(c) /\ state' \in [Ids -> States]
               /\ home' \in [Ids -> Sessions \cup {Null}]
               /\ \A i \in known[c] :
                    /\ home'[i] = home[i]
                    /\ state'[i] = state[i] \/ Unanswered(c, i)
    <3>1. HasId(c)
      BY <1>2, <2>3 DEF CallerInv, AtPlace
    <3>2. /\ ServiceSame(c) /\ home' = home
          /\ state'[selector[c]] = IF Own(c) = "active" THEN end ELSE Own(c)
          /\ \A j \in Ids : j # selector[c] => state'[j] = state[j]
          /\ state' \in [Ids -> States]
      BY <2>3, <3>1, EndsFacts DEF States
    <3> QED
      BY <1>2, <2>3, <3>2 DEF TypeOK, Own, Unanswered
  <2>4. \/ \E i \in Ids : Begins(c, i)
        \/ UNCHANGED serviceVars
        \/ pc[c] = "commit" /\ Ends(c, "committed")
        \/ pc[c] = "rollback" /\ Ends(c, "rolled_back")
    BY DEF AnswerLost, Executes
  <2> QED
    BY <2>1, <2>2, <2>3, <2>4
<1> QED
  BY <1>1, <1>3, TryFailsKeeps

\* The answer to the first request, or to BeginTransaction(), brings the id.
LEMMA LearnsKeeps ==
  ASSUME ClientInv, NEW c \in Callers, NEW i \in Ids,
         Begins(c, i), Learns(c, i),
         NEW place \in {"mutator", "commit"}, pc' = [pc EXCEPT ![c] = place],
         failures' = [failures EXCEPT ![c] = 0],
         pc[c] = IF place = "mutator" THEN "request" ELSE "begin",
         selector[c] = "begin", UNCHANGED <<session, loopVars>>,
         UNCHANGED poolVars
  PROVE  StepKeeps(c)
<1>1. CallerInv(c) /\ TypeOK /\ StatusTypes
  BY DEF ClientInv
<1>2. /\ ServiceSame(c) /\ state[i] = "unused" /\ session[c] \notin lost
      /\ state'[i] = "active" /\ home'[i] = session[c] /\ i \notin known[c]
      /\ \A j \in Ids : j # i => state'[j] = state[j] /\ home'[j] = home[j]
      /\ state' \in [Ids -> States]
      /\ home' \in [Ids -> Sessions \cup {Null}]
  BY BeginsFacts DEF States
<1>3. /\ selector' = [selector EXCEPT ![c] = i]
      /\ known' = [known EXCEPT ![c] = known[c] \cup {i}]
  BY DEF Learns
<1>4. /\ selector'[c] = i /\ known'[c] = known[c] \cup {i} /\ pc'[c] = place
      /\ lost' = lost /\ known[c] \subseteq Ids /\ session'[c] = session[c]
  BY <1>1, <1>2, <1>3 DEF TypeOK, ServiceSame
<1>5. TypeOK' /\ StatusTypes'
  BY <1>1, <1>2, <1>3, <1>4, ClientAssumption
     DEF TypeOK, StatusTypes, States, Rpcs, loopVars, poolVars
<1>6. OthersSame(c) /\ LearnsNew(c)
  BY <1>1, <1>2, <1>3, <1>4 DEF OthersSame, LearnsNew, TypeOK, loopVars
<1>7. /\ HasId(c)' /\ ~HasId(c) /\ Own(c)' = "active" /\ session[c] # Null
      /\ pc[c] \in {"request", "begin"} /\ ~thrown[c]
      /\ rb_status[c] = NotCalled
  BY <1>1, <1>2, <1>4, ClientAssumption
     DEF HasId, Own, CallerInv, OwnSession, AtPlace, Rpcs
<1>8. \A j \in known[c] : /\ state'[j] = state[j] /\ home'[j] = home[j]
                          /\ state[j] # "unused" /\ state[j] # "active"
                          /\ state[j] = "committed" => home[j] \in lost
  BY <1>1, <1>2, <1>4, <1>7, ClientAssumption
     DEF CallerInv, KnownIds, AbandonedOver, CommittedPlace
<1>9. OwnSession(c)' /\ KnownIds(c)' /\ AbandonedOver(c)'
  BY <1>2, <1>4, <1>7, <1>8 DEF OwnSession, KnownIds, AbandonedOver
<1>10. RolledBackPlace(c)' /\ CommittedPlace(c)'
  BY <1>2, <1>4, <1>7, <1>8 DEF RolledBackPlace, CommittedPlace
<1>11. SeenJustified(c)'
  <2>1. ASSUME NEW st \in seen[c]
        PROVE  ~IsOk(st) /\ ~IsSessionNotFound(st) /\ st.code # "kAborted"
    BY <1>1, <1>2, <1>7 DEF CallerInv, SeenJustified, Justified
  <2>2. seen' = seen
    BY DEF loopVars
  <2> QED
    BY <2>1, <2>2 DEF SeenJustified, Justified
<1>12. AtPlace(c)' /\ AtEnd(c)'
  BY <1>1, <1>4, <1>7 DEF CallerInv, AtPlace, AtEnd, loopVars
<1> QED
  BY <1>2, <1>5, <1>6, <1>9, <1>10, <1>11, <1>12 DEF StepKeeps, CallerInv

LEMMA RequestSucceedsKeeps ==
  ASSUME ClientInv, NEW c \in Callers, RequestSucceeds(c)
  PROVE  StepKeeps(c)
<1> USE DEF Goto
<1>1. /\ pc[c] = "request" /\ pc' = [pc EXCEPT ![c] = "mutator"]
      /\ failures' = [failures EXCEPT ![c] = 0]
      /\ UNCHANGED <<session, loopVars>> /\ UNCHANGED poolVars
  BY DEF RequestSucceeds
<1>2. CASE selector[c] = "begin" /\ \E i \in Ids : Begins(c, i) /\ Learns(c, i)
  BY <1>1, <1>2, LearnsKeeps
<1>3. CASE UNCHANGED <<selector, known, serviceVars>>
  <2>1. CallerInv(c) /\ TypeOK /\ StatusTypes
    BY DEF ClientInv
  <2>2. pc'[c] = "mutator" /\ ~thrown[c] /\ rb_status[c] = NotCalled
    BY <1>1, <2>1 DEF TypeOK, CallerInv, AtPlace
  <2>3. TypeOK' /\ StatusTypes'
    BY <1>1, <1>3, <2>1, ClientAssumption
       DEF TypeOK, StatusTypes, loopVars, poolVars, serviceVars
  <2>4. OthersSame(c) /\ LearnsNew(c)
    BY <1>1, <1>3, <2>1 DEF OthersSame, LearnsNew, TypeOK, loopVars
  <2>5. /\ OwnSession(c)' /\ KnownIds(c)' /\ AbandonedOver(c)'
        /\ RolledBackPlace(c)' /\ CommittedPlace(c)'
        /\ \A st : Justified(c, st) => Justified(c, st)'
    BY <1>1, <1>3, <2>2, EarlyStep DEF Early, Rpcs
  <2>6. SeenJustified(c)'
    BY <1>1, <2>1, <2>5 DEF CallerInv, SeenJustified, loopVars
  <2>7. AtPlace(c)' /\ AtEnd(c)'
    BY <1>1, <2>2 DEF AtPlace, AtEnd, loopVars
  <2>8. ServiceSame(c)
    BY <1>3, ServiceIdle
  <2> QED
    BY <2>3, <2>4, <2>5, <2>6, <2>7, <2>8 DEF StepKeeps, CallerInv
<1> QED
  BY <1>2, <1>3 DEF RequestSucceeds

LEMMA BeginSucceedsKeeps ==
  ASSUME ClientInv, NEW c \in Callers, BeginSucceeds(c)
  PROVE  StepKeeps(c)
<1>1. pc[c] = "begin" /\ selector[c] = "begin"
  BY DEF BeginSucceeds, ClientInv, CallerInv, AtPlace
<1>2. PICK i \in Ids : Begins(c, i) /\ Learns(c, i)
  BY DEF BeginSucceeds
<1>3. /\ pc' = [pc EXCEPT ![c] = "commit"]
      /\ failures' = [failures EXCEPT ![c] = 0]
      /\ UNCHANGED <<session, loopVars>> /\ UNCHANGED poolVars
  BY DEF BeginSucceeds, Goto
<1> QED
  BY <1>1, <1>2, <1>3, LearnsKeeps

\* The answer to Commit() or Rollback() gets through.
LEMMA EndSucceedsKeeps ==
  ASSUME ClientInv, NEW c \in Callers, CommitSucceeds(c) \/ RollbackSucceeds(c)
  PROVE  StepKeeps(c)
<1>1. CallerInv(c) /\ TypeOK /\ StatusTypes
  BY DEF ClientInv
<1>2. PICK end \in {"committed", "rolled_back"} :
        /\ Ends(c, end)
        /\ pc[c] = IF end = "committed" THEN "commit" ELSE "rollback"
        /\ end = "committed" => rb_status' = rb_status
        /\ end = "rolled_back" =>
             rb_status' = [rb_status EXCEPT ![c] = OkStatus]
  BY DEF CommitSucceeds, RollbackSucceeds, loopVars
<1>3. /\ pc' = [pc EXCEPT ![c] = "return"]
      /\ failures' = [failures EXCEPT ![c] = 0]
      /\ UNCHANGED <<session, selector, status, seen, requests, reruns, thrown,
                     known>>
      /\ UNCHANGED poolVars
  BY DEF CommitSucceeds, RollbackSucceeds, Goto, loopVars
<1>4. HasId(c) /\ selector[c] \in known[c]
  BY <1>1, <1>2 DEF CallerInv, AtPlace, KnownIds
<1>5. /\ ServiceSame(c) /\ session[c] \notin lost /\ Own(c) # "aborted"
      /\ home' = home /\ lost' = lost
      /\ state'[selector[c]] = IF Own(c) = "active" THEN end ELSE Own(c)
      /\ \A j \in Ids : j # selector[c] => state'[j] = state[j]
      /\ state' \in [Ids -> States]
  BY <1>2, <1>4, EndsFacts DEF States
<1>6. TypeOK'
  BY <1>1, <1>3, <1>5, ClientAssumption DEF TypeOK, States, poolVars
<1>7. StatusTypes'
  BY <1>1, <1>2, <1>3, StatusFacts DEF StatusTypes
<1>8. OthersSame(c) /\ LearnsNew(c)
  BY <1>1, <1>2, <1>3 DEF OthersSame, LearnsNew, TypeOK, StatusTypes
<1>9. pc'[c] = "return"
  BY <1>1, <1>3 DEF TypeOK
<1>10. /\ HasId(c)' /\ known[c] \subseteq Ids
       /\ Own(c)' = IF Own(c) = "active" THEN end ELSE Own(c)
  BY <1>1, <1>3, <1>4, <1>5 DEF HasId, Own, TypeOK
<1>11. end = "committed" =>
         Own(c)' = "committed" /\ ~thrown[c] /\ IsOk(status[c])
  <2>1. ASSUME end = "committed" PROVE Own(c) \in {"active", "committed"}
    <3>1. Own(c) \in States \ {"unused", "rolled_back", "aborted"}
      BY <1>1, <1>2, <1>4, <1>5, <2>1
         DEF CallerInv, KnownIds, RolledBackPlace, TypeOK, Own, HasId, States
    <3> QED
      BY <3>1 DEF States
  <2> QED
    BY <1>1, <1>2, <1>10, <2>1 DEF CallerInv, AtPlace
<1>12. OwnSession(c)' /\ KnownIds(c)' /\ AbandonedOver(c)'
  <2>1. OwnSession(c)'
    BY <1>1, <1>2, <1>3, <1>5, <1>9, <1>10
       DEF CallerInv, OwnSession, HasId, Rpcs
  <2>2. KnownIds(c)'
    BY <1>1, <1>3, <1>4, <1>5, <1>10 DEF CallerInv, KnownIds, Own
  <2>3. AbandonedOver(c)'
    BY <1>1, <1>3, <1>5, <1>10 DEF CallerInv, AbandonedOver
  <2> QED
    BY <2>1, <2>2, <2>3
<1>13. RolledBackPlace(c)'
  BY <1>9 DEF RolledBackPlace
<1>14. CommittedPlace(c)'
  <2>1. ASSUME NEW i \in known'[c], state'[i] = "committed",
               home'[i] \notin lost'
        PROVE  /\ i = selector'[c] /\ ~thrown'[c]
               /\ status'[c].code = "kOk"
    <3>1. i \in known[c] /\ home[i] \notin lost
      BY <1>3, <1>5, <2>1
    <3>2. i = selector[c]
      BY <1>1, <1>5, <1>10, <2>1, <3>1 DEF CallerInv, CommittedPlace
    <3>3. end = "committed"
      <4>1. SUFFICES ASSUME end = "rolled_back" PROVE FALSE
        OBVIOUS
      <4>2. state[i] = "committed" /\ pc[c] = "rollback"
        BY <1>2, <1>5, <2>1, <3>2, <4>1 DEF Own
      <4> QED
        BY <1>1, <3>1, <4>2 DEF CallerInv, CommittedPlace
    <3> QED
      BY <1>3, <1>11, <3>2, <3>3 DEF IsOk
  <2> QED
    BY <1>9, <2>1 DEF CommittedPlace
<1>15. SeenJustified(c)'
  <2>1. ASSUME NEW st \in seen[c] PROVE ~IsOk(st) /\ Justified(c, st)'
    <3>1. ~IsOk(st) /\ Justified(c, st)
      BY <1>1, <1>2 DEF CallerInv, SeenJustified
    <3>2. ~IsSessionNotFound(st) /\ st.code # "kAborted"
      BY <1>5, <3>1 DEF Justified
    <3> QED
      BY <3>1, <3>2 DEF Justified
  <2> QED
    BY <1>3, <2>1 DEF SeenJustified
<1>16. AtPlace(c)'
  BY <1>9 DEF AtPlace
<1>17. AtEnd(c)'
  <2>1. end = "rolled_back" => thrown[c] \/ ~IsOk(status[c])
    BY <1>1, <1>2 DEF CallerInv, AtPlace
  <2>2. Own(c)' # "active"
    BY <1>10
  <2> QED
    BY <1>3, <1>10, <1>11, <2>1, <2>2 DEF AtEnd
<1> QED
  BY <1>5, <1>6, <1>7, <1>8, <1>12, <1>13, <1>14, <1>15, <1>16, <1>17
     DEF StepKeeps, CallerInv

(***************************************************************************)
(* The end of an attempt.                                                  *)
(***************************************************************************)
\* A status that calls for a rerun is only given by a transaction that is over.
LEMMA RerunnableOver ==
  ASSUME ClientInv, NEW c \in Callers, pc[c] = "judge",
         IsRerunnable(status[c]), HasId(c)
  PROVE  Own(c) # "active"
<1>1. /\ Justified(c, status[c]) /\ home[selector[c]] = session[c]
  BY DEF ClientInv, CallerInv, AtPlace, OwnSession
<1>2. CASE IsSessionNotFound(status[c])
  BY <1>1, <1>2 DEF Justified, ClientInv, ActiveAlive, Own, HasId
<1>3. CASE status[c].code = "kAborted"
  BY <1>1, <1>3 DEF Justified
<1> QED
  BY <1>2, <1>3 DEF IsRerunnable

LEMMA JudgeStepKeeps ==
  ASSUME ClientInv, NEW c \in Callers, Judge(c)
  PROVE  StepKeeps(c)
<1> USE DEF Goto
<1>1. CallerInv(c) /\ TypeOK /\ StatusTypes
  BY DEF ClientInv
<1>2. /\ pc[c] = "judge"
      /\ UNCHANGED <<status, thrown, rb_status, failures, known>>
      /\ UNCHANGED serviceVars /\ UNCHANGED <<lost, state, home>>
  BY DEF Judge, serviceVars
<1>3. /\ ~thrown[c] /\ ~IsOk(status[c]) /\ Justified(c, status[c])
      /\ rb_status[c] = NotCalled
  BY <1>1, <1>2 DEF CallerInv, AtPlace
<1>4. ServiceSame(c) /\ LearnsNew(c)
  BY <1>2, ServiceIdle DEF LearnsNew
<1>5. CASE /\ pc' = [pc EXCEPT ![c] = "return"]
           /\ UNCHANGED <<session, selector, seen, requests, reruns, poolVars>>
  <2>1. pc'[c] = "return"
    BY <1>1, <1>5 DEF TypeOK
  <2>2. TypeOK' /\ StatusTypes'
    BY <1>1, <1>2, <1>5 DEF TypeOK, StatusTypes, poolVars
  <2>3. OthersSame(c)
    BY <1>1, <1>2, <1>5 DEF OthersSame, TypeOK
  <2>4. /\ HasId(c)' <=> HasId(c)
        /\ Own(c)' = Own(c)
        /\ \A st : Justified(c, st) => Justified(c, st)'
    BY <1>2, <1>5 DEF HasId, Own, Justified
  <2>5. OwnSession(c)' /\ KnownIds(c)' /\ AbandonedOver(c)'
    BY <1>1, <1>2, <1>5, <2>1, <2>4
       DEF CallerInv, OwnSession, KnownIds, AbandonedOver, Rpcs
  <2>6. RolledBackPlace(c)' /\ CommittedPlace(c)' /\ AtPlace(c)'
    BY <1>1, <1>2, <1>5, <2>1
       DEF CallerInv, RolledBackPlace, CommittedPlace, AtPlace
  <2>7. SeenJustified(c)'
    BY <1>1, <1>2, <1>5, <2>4 DEF CallerInv, SeenJustified
  <2>8. AtEnd(c)'
    <3>1. HasId(c) /\ Own(c) = "active" => ~IsRerunnable(status[c])
      BY <1>2, RerunnableOver
    <3> QED
      BY <1>2, <1>3, <2>4, <3>1 DEF AtEnd
  <2> QED
    BY <1>4, <2>2, <2>3, <2>5, <2>6, <2>7, <2>8 DEF StepKeeps, CallerInv
<1>6. CASE ~(/\ pc' = [pc EXCEPT ![c] = "return"]
             /\ UNCHANGED <<session, selector, seen, requests, reruns,
                            poolVars>>)
  <2>1. /\ IsRerunnable(status[c]) /\ reruns[c] < MaxReruns
        /\ reruns' = [reruns EXCEPT ![c] = reruns[c] + 1]
        /\ MarkBad(c, status[c])
        /\ session' = [session EXCEPT ![c] = NextSession(c)]
        /\ idle' = IF session'[c] = session[c] THEN idle
                   ELSE idle \cup ({session[c]} \ bad')
        /\ others' = others
        /\ selector' = [selector EXCEPT ![c] = "begin"]
        /\ seen' = [seen EXCEPT ![c] = {}]
        /\ requests' = [requests EXCEPT ![c] = 0]
        /\ pc' = [pc EXCEPT ![c] = "mutator"]
    BY <1>6 DEF Judge, OnFailure, CountRerun
  <2>2. /\ pc'[c] = "mutator" /\ selector'[c] = "begin" /\ seen'[c] = {}
        /\ session'[c] = session[c] \/ session'[c] = Null
        /\ ~HasId(c)'
    BY <1>1, <2>1, ClientAssumption
       DEF TypeOK, StatusTypes, NextSession, HasId
  <2>3. /\ session' \in [Callers -> Sessions \cup {Null}]
        /\ idle' \subseteq Sessions /\ bad' \subseteq Sessions
        /\ reported' \subseteq Sessions
    <3>1. IsSessionNotFound(status[c]) => session[c] \in Sessions
      BY <1>1, <1>3 DEF Justified, TypeOK
    <3>2. session' \in [Callers -> Sessions \cup {Null}]
      BY <1>1, <2>1 DEF TypeOK, NextSession
    <3>3. bad' \subseteq Sessions /\ reported' \subseteq Sessions
      BY <1>1, <2>1, <3>1 DEF TypeOK, MarkBad, BadAfter
    <3>4. idle' \subseteq Sessions
      <4>1. session'[c] # session[c] => session[c] \in Sessions
        BY <1>1, <2>2 DEF TypeOK
      <4> QED
        BY <1>1, <2>1, <4>1 DEF TypeOK
    <3> QED
      BY <3>2, <3>3, <3>4
  <2>4. /\ reruns' \in [Callers -> 0 .. MaxReruns]
        /\ requests' \in [Callers -> 0 .. MaxRequests]
    BY <1>1, <2>1, ClientAssumption DEF TypeOK
  <2>5. TypeOK'
    BY <1>1, <1>2, <2>1, <2>3, <2>4 DEF TypeOK
  <2>6. StatusTypes'
    BY <1>1, <1>2, <2>1 DEF StatusTypes
  <2>7. OthersSame(c)
    BY <1>1, <1>2, <2>1 DEF OthersSame, TypeOK, StatusTypes
  <2>8. OwnSession(c)' /\ KnownIds(c)' /\ RolledBackPlace(c)'
    BY <1>1, <1>2, <2>2
       DEF CallerInv, OwnSession, KnownIds, RolledBackPlace, Rpcs
  <2>9. AbandonedOver(c)'
    <3>1. ASSUME NEW i \in known[c] PROVE state[i] # "active"
      <4>1. CASE i = selector[c]
        <5>1. HasId(c) /\ Own(c) = state[i]
          BY <1>1, <4>1 DEF HasId, Own, TypeOK
        <5> QED
          BY <1>2, <2>1, <5>1, RerunnableOver
      <4>2. CASE i # selector[c]
        BY <1>1, <4>2 DEF CallerInv, AbandonedOver
      <4> QED
        BY <4>1, <4>2
    <3> QED
      BY <1>2, <3>1 DEF AbandonedOver
  <2>10. CommittedPlace(c)'
    <3>1. status[c].code # "kUnavailable"
      BY <2>1 DEF IsRerunnable, IsSessionNotFound
    <3>2. \A i \in known[c] : state[i] = "committed" => home[i] \in lost
      BY <1>1, <1>2, <3>1 DEF CallerInv, CommittedPlace
    <3> QED
      BY <1>2, <3>2 DEF CommittedPlace
  <2>11. SeenJustified(c)' /\ AtPlace(c)' /\ AtEnd(c)'
    BY <1>2, <1>3, <2>2 DEF SeenJustified, AtPlace, AtEnd
  <2> QED
    BY <1>4, <2>5, <2>6, <2>7, <2>8, <2>9, <2>10, <2>11
       DEF StepKeeps, CallerInv
<1> QED
  BY <1>5, <1>6

LEMMA ReturnStepKeeps ==
  ASSUME ClientInv, NEW c \in Callers, Return(c)
  PROVE  StepKeeps(c)
<1>1. CallerInv(c) /\ TypeOK /\ StatusTypes
  BY DEF ClientInv
<1>2. /\ pc[c] = "return" /\ pc' = [pc EXCEPT ![c] = "done"]
      /\ idle' = Release(session[c])
      /\ session' = [session EXCEPT ![c] = Null]
      /\ UNCHANGED <<selector, failures, known, others, bad, reported>>
      /\ UNCHANGED <<status, seen, requests, reruns, thrown, rb_status>>
      /\ UNCHANGED serviceVars /\ UNCHANGED <<lost, state, home>>
  BY DEF Return, Goto, loopVars, serviceVars
<1>3. pc'[c] = "done" /\ idle' \subseteq Sessions
  BY <1>1, <1>2 DEF TypeOK, Release
<1>4. TypeOK' /\ StatusTypes'
  BY <1>1, <1>2, <1>3 DEF TypeOK, StatusTypes
<1>5. OthersSame(c) /\ LearnsNew(c) /\ ServiceSame(c)
  BY <1>1, <1>2, ServiceIdle DEF OthersSame, LearnsNew, TypeOK
<1>6. /\ HasId(c)' <=> HasId(c)
      /\ Own(c)' = Own(c)
  BY <1>2 DEF HasId, Own
<1>7. OwnSession(c)' /\ KnownIds(c)' /\ AbandonedOver(c)'
  BY <1>1, <1>2, <1>3, <1>6
     DEF CallerInv, OwnSession, KnownIds, AbandonedOver, Rpcs
<1>8. RolledBackPlace(c)' /\ CommittedPlace(c)' /\ AtPlace(c)'
  BY <1>1, <1>2, <1>3
     DEF CallerInv, RolledBackPlace, CommittedPlace, AtPlace
<1>9. SeenJustified(c)' /\ AtEnd(c)'
  BY <1>1, <1>2, <1>3, <1>6 DEF CallerInv, SeenJustified, AtEnd
<1> QED
  BY <1>4, <1>5, <1>7, <1>8, <1>9 DEF StepKeeps, CallerInv

(***************************************************************************)
(* The steps of the service and of the other users of the pool.            *)
(***************************************************************************)
\* No more happens to the transactions that the callers know of: one that is
\* active is aborted, one that is over and in no use is forgotten.
TransactionsKept ==
  /\ state' \in [Ids -> States] /\ home' \in [Ids -> Sessions \cup {Null}]
  /\ known' \in [Callers -> SUBSET Ids] /\ lost' \subseteq Sessions
  /\ lost \subseteq lost' /\ ActiveAlive'
  /\ \A c \in Callers :
       /\ known'[c] \subseteq known[c]
       /\ HasId(c) /\ selector[c] \in known[c] => selector[c] \in known'[c]
       /\ \A i \in known'[c] :
            /\ home'[i] = home[i]
            /\ \/ state'[i] = state[i]
               \/ state[i] = "active" /\ state'[i] = "aborted"

LEMMA ServiceStepKeeps ==
  ASSUME ClientInv,
         \/ \E i \in Ids : AbortTransaction(i) \/ ForgetTransaction(i)
         \/ \E s \in Sessions : LoseSession(s)
  PROVE  ClientInv'
<1>1. TypeOK /\ StatusTypes /\ ActiveAlive /\ KnownApart
  BY DEF ClientInv
<1>2. /\ UNCHANGED <<pc, session, selector, failures>>
      /\ UNCHANGED <<status, seen, requests, reruns, thrown, rb_status>>
      /\ UNCHANGED <<idle, others, bad, reported>>
  BY DEF AbortTransaction, ForgetTransaction, LoseSession, loopVars, poolVars
<1>3. TransactionsKept
  <2>1. ASSUME NEW i \in Ids, AbortTransaction(i) PROVE TransactionsKept
    <3>1. /\ state[i] = "active" /\ state' = [state EXCEPT ![i] = "aborted"]
          /\ UNCHANGED <<known, lost, home>>
      BY <2>1 DEF AbortTransaction
    <3>2. ActiveAlive'
      BY <1>1, <3>1 DEF ActiveAlive, TypeOK
    <3> QED
      BY <1>1, <3>1, <3>2 DEF TypeOK, States, TransactionsKept
  <2>2. ASSUME NEW i \in Ids, ForgetTransaction(i) PROVE TransactionsKept
    <3>1. /\ \A c \in Callers : selector[c] # i
          /\ state' = [state EXCEPT ![i] = "unused"]
          /\ home' = [home EXCEPT ![i] = Null]
          /\ known' = [c \in Callers |-> known[c] \ {i}]
          /\ lost' = lost
      BY <2>2 DEF ForgetTransaction
    <3>2. ActiveAlive'
      BY <1>1, <3>1 DEF ActiveAlive, TypeOK
    <3> QED
      BY <1>1, <3>1, <3>2 DEF TypeOK, States, TransactionsKept
  <2>3. ASSUME NEW s \in Sessions, LoseSession(s) PROVE TransactionsKept
    <3>1. /\ lost' = lost \cup {s} /\ UNCHANGED <<known, home>>
          /\ state' = [i \in Ids |-> IF home[i] = s /\ state[i] = "active"
                                     THEN "aborted" ELSE state[i]]
      BY <2>3 DEF LoseSession
    <3>2. ActiveAlive'
      BY <1>1, <3>1 DEF ActiveAlive, TypeOK
    <3> QED
      BY <1>1, <3>1, <3>2 DEF TypeOK, States, TransactionsKept
  <2> QED
    BY <2>1, <2>2, <2>3
<1>4. TypeOK' /\ StatusTypes'
  BY <1>1, <1>2, <1>3 DEF TypeOK, StatusTypes, States, TransactionsKept
<1>5. KnownApart'
  BY <1>1, <1>3 DEF KnownApart, TransactionsKept
<1>6. ASSUME NEW c \in Callers PROVE CallerInv(c)'
  <2>1. CallerInv(c) /\ (HasId(c) => selector[c] \in known[c])
    BY DEF ClientInv, CallerInv, KnownIds
  <2> QED
    BY <1>2, <1>3, <2>1, Bystander DEF TransactionsKept
<1> QED
  BY <1>3, <1>4, <1>5, <1>6 DEF ClientInv, TransactionsKept

LEMMA OthersStepKeeps ==
  ASSUME ClientInv,
         \/ \E s \in Sessions : OthersAllocate(s) \/ OthersRelease(s)
         \/ UNCHANGED vars
  PROVE  ClientInv'
<1>1. TypeOK /\ StatusTypes /\ ActiveAlive /\ KnownApart
  BY DEF ClientInv
<1>2. /\ UNCHANGED <<pc, session, selector, failures, known>>
      /\ UNCHANGED <<status, seen, requests, reruns, thrown, rb_status>>
      /\ UNCHANGED <<bad, reported, lost, state, home>>
  BY DEF OthersAllocate, OthersRelease, vars, loopVars, poolVars, serviceVars
<1>3. idle' \subseteq Sessions /\ others' \subseteq Sessions
  BY <1>1 DEF TypeOK, OthersAllocate, OthersRelease, Release, vars, poolVars
<1>4. TypeOK' /\ StatusTypes' /\ ActiveAlive' /\ KnownApart'
  BY <1>1, <1>2, <1>3 DEF TypeOK, StatusTypes, ActiveAlive, KnownApart
<1>5. ASSUME NEW c \in Callers PROVE CallerInv(c)'
  <2>1. CallerInv(c) /\ (HasId(c) => selector[c] \in known[c])
    BY DEF ClientInv, CallerInv, KnownIds
  <2> QED
    BY <1>2, <2>1, Bystander
<1> QED
  BY <1>4, <1>5 DEF ClientInv

LEMMA OutcomeStep ==
  ASSUME ClientInv, [Next]_vars
  PROVE  ClientInv'
<1>1. ASSUME NEW c \in Callers,
             \/ Start(c) \/ MutatorRequests(c) \/ StreamBreaks(c)
             \/ MutatorEnds(c) \/ RpcStep(c) \/ LocalStep(c)
      PROVE  ClientInv'
  <2>1. StepKeeps(c)
    BY <1>1, MutatorKeeps, PrepareStepKeeps, RefusedKeeps, AnswerLostKeeps,
       RequestSucceedsKeeps, BeginSucceedsKeeps, EndSucceedsKeeps,
       JudgeStepKeeps, ReturnStepKeeps
       DEF MutatorEnds, RpcStep, LocalStep
  <2> QED
    BY <2>1, CallerStep
<1>2. CASE \/ \E i \in Ids : AbortTransaction(i) \/ ForgetTransaction(i)
           \/ \E s \in Sessions : LoseSession(s)
  BY <1>2, ServiceStepKeeps
<1>3. CASE \/ \E s \in Sessions : OthersAllocate(s) \/ OthersRelease(s)
           \/ UNCHANGED vars
  BY <1>3, OthersStepKeeps
<1> QED
  BY <1>1, <1>2, <1>3 DEF Next

\* The place every caller has reached, the statuses it holds and the state of
\* its transactions at the service fit together.
THEOREM ClientInvariance == Spec => []ClientInv
<1>1. Init => ClientInv
  BY OutcomeInit
<1>2. ClientInv /\ [Next]_vars => ClientInv'
  BY OutcomeStep
<1> QED
  BY <1>1, <1>2, PTL DEF Spec

\* The variables of Client have their types; reruns and failures stay within
\* what the policies tolerate.
THEOREM ClientTypeCorrect == Spec => []TypeOK
<1>1. ClientInv => TypeOK
  BY DEF ClientInv
<1> QED
  BY <1>1, ClientInvariance, PTL

\* What Commit() reports is what has happened to its transactions, for any
\* number of callers, however often RPCs are retried and mutators rerun.
THEOREM OutcomeIsHonestCorrect == Spec => []OutcomeIsHonest
<1>1. ClientInv => OutcomeIsHonest
  <2> SUFFICES ASSUME ClientInv PROVE OutcomeIsHonest
    OBVIOUS
  <2>1. ASSUME NEW c \in Callers PROVE CallerInv(c)
    BY DEF ClientInv
  <2>2. ASSUME NEW c \in Callers
        PROVE  pc[c] = "done" /\ ~thrown[c] /\ IsOk(status[c]) =>
                 selector[c] \in Ids /\ state[selector[c]] = "committed"
    BY <2>1 DEF CallerInv, AtEnd, HasId, Own
  <2>3. ASSUME NEW c \in Callers, NEW i \in known[c],
               Over(c, i), state[i] = "committed"
        PROVE  \/ home[i] \in lost
               \/ /\ i = selector[c] /\ ~thrown[c]
                  /\ status[c].code \in {"kOk", "kUnavailable"}
    BY <2>1, <2>3 DEF CallerInv, CommittedPlace, Over
  <2> QED
    BY <2>2, <2>3 DEF OutcomeIsHonest
<1> QED
  BY <1>1, ClientInvariance, PTL

\* No attempt leaves its transaction open at the service, except after a
\* Rollback() that failed or a Commit() that failed for good.
THEOREM NothingLeftOpenCorrect == Spec => []NothingLeftOpen
<1>1. ClientInv => NothingLeftOpen
  <2> SUFFICES ASSUME ClientInv, NEW c \in Callers, NEW i \in known[c],
                      Over(c, i), state[i] = "active"
               PROVE  /\ i = selector[c]
                      /\ \/ rb_status[c] \notin {NotCalled, OkStatus}
                         \/ /\ rb_status[c] = NotCalled
                            /\ ~IsRerunnable(status[c])
    BY DEF NothingLeftOpen
  <2>1. CallerInv(c) /\ i \in Ids
    BY DEF ClientInv, TypeOK
  <2>2. i = selector[c] /\ pc[c] = "done"
    BY <2>1 DEF CallerInv, AbandonedOver, Over
  <2> QED
    BY <2>1, <2>2 DEF CallerInv, AtEnd, HasId, Own
<1> QED
  BY <1>1, ClientInvariance, PTL
=============================================================================
