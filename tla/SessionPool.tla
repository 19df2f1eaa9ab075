---------------------------- MODULE SessionPool ----------------------------
(***************************************************************************)
(* The pool of Spanner sessions of a connection                            *)
(* (google/cloud/spanner/internal/session_pool.{h,cc}): application        *)
(* threads Allocate() sessions and release them through their              *)
(* SessionHolder, a thread that finds the pool empty creates sessions in   *)
(* batches, one BatchCreateSessions() RPC per channel, and a timer runs    *)
(* the background work.                                                    *)
(*                                                                         *)
(* Every critical section of the mutex mu_ is one atomic step, except      *)
(* Grow(): its loop over the channels takes one step per channel with mu_  *)
(* held. A wakeup that the code sends after unlock() is a step of its own, *)
(* and so is the completion of each BatchCreateSessions() RPC.             *)
(* The keep-alive refresh of the idle sessions is in SessionRefresh.       *)
(***************************************************************************)
EXTENDS Integers, Sequences, FiniteSets

CONSTANTS
  Threads,                  \* application threads
  Pool,                     \* Initialize(), then the background timer
  Channels,                 \* one per stub
  Sessions,                 \* session names the service can give out
  min_sessions_opt,         \* SessionPoolOptions as the application set them
  max_sessions_per_channel_opt,
  action_on_exhaustion,     \* "kBlock" or "kFail"
  MaxHeld,                  \* bound: sessions one thread holds at a time
  Faults                    \* which of "bad", "create", "dissociate" happen

ASSUME ConstantsAssumption ==
  /\ IsFiniteSet(Threads) /\ IsFiniteSet(Channels) /\ IsFiniteSet(Sessions)
  /\ Channels # {}
  /\ Pool \notin Threads /\ "free" \notin Threads \cup {Pool}
  /\ min_sessions_opt \in Int
  /\ max_sessions_per_channel_opt \in Int
  /\ action_on_exhaustion \in {"kBlock", "kFail"}
  /\ MaxHeld \in Nat
  /\ Faults \subseteq {"bad", "create", "dissociate"}

(***************************************************************************)
(* SessionPoolOptions::EnforceConstraints() and the constructor.           *)
(***************************************************************************)
NumChannels == Cardinality(Channels)

max_sessions_per_channel ==
  IF max_sessions_per_channel_opt > 1 THEN max_sessions_per_channel_opt ELSE 1

max_pool_size_ == max_sessions_per_channel * NumChannels

min_sessions ==
  LET atLeastZero == IF min_sessions_opt > 0 THEN min_sessions_opt ELSE 0
  IN  IF atLeastZero < max_pool_size_ THEN atLeastZero ELSE max_pool_size_

VARIABLES
  (* Members of the SessionPool. *)
  sessions_,                \* idle sessions; Allocate() takes the last one
  total_sessions_,
  create_calls_in_progress_,
  num_waiting_for_session_,
  session_count,            \* Channel::session_count of every channel
  mu_,                      \* who holds the mutex between two steps, or Free
  cond_,                    \* threads blocked on the condition variable
  (* The sessions and their holders. *)
  channel,                  \* Session::channel_
  is_bad,                   \* sessions with Session::is_bad_ set
  holds,                    \* holders that return their session to the pool
  dissociated,              \* holders that only delete their session
  (* Where each thread is in the code of the pool. *)
  pc,
  dissociate_from_pool,     \* argument of the Allocate() call in progress
  notify,                   \* the wakeup it sends next, mu_ being unlocked
  create_counts,            \* its BatchCreateSessions() calls not yet done
  return_status_ok,         \* none of its calls failed so far
  (* Locals of ComputeCreateCounts(), while mu_ is held. *)
  channels_by_count,        \* channels the loop has not visited
  sessions_remaining

sizeVars == <<sessions_, total_sessions_, session_count>>
waitVars == <<num_waiting_for_session_, cond_>>
holderVars == <<channel, is_bad, holds, dissociated>>
planVars == <<create_counts, channels_by_count, sessions_remaining>>
vars == <<sizeVars, waitVars, holderVars, planVars, create_calls_in_progress_,
          mu_, pc, dissociate_from_pool, notify, return_status_ok>>

Procs == Threads \cup {Pool}
Free == "free"
NoCounts == [c \in Channels |-> 0]

Idle == {sessions_[i] : i \in DOMAIN sessions_}
Held == UNION {holds[t] : t \in Threads}
Dissociated == UNION {dissociated[t] : t \in Threads}

\* Names that no Session object of this client bears.
Unused == Sessions \ (Idle \cup Held \cup Dissociated)

\* The sessions that process p has asked for and that have not been created.
Asked(p) == UNION {{c} \X (1 .. create_counts[p][c]) : c \in Channels}
CallsOf(p) == {c \in Channels : create_counts[p][c] > 0}

Waiting == {"wait_session", "wait_create"}

TypeOK ==
  /\ sessions_ \in Seq(Sessions)
  /\ total_sessions_ \in Int
  /\ create_calls_in_progress_ \in Int
  /\ num_waiting_for_session_ \in Int
  /\ session_count \in [Channels -> Int]
  /\ mu_ \in Procs \cup {Free}
  /\ cond_ \in SUBSET Threads
  /\ channel \in [Sessions -> Channels]
  /\ is_bad \in SUBSET Sessions
  /\ holds \in [Threads -> SUBSET Sessions]
  /\ dissociated \in [Threads -> SUBSET Sessions]
  /\ pc \in [Procs -> {"out", "grow", "creating", "init", "grow_async"}
                        \cup Waiting]
  /\ dissociate_from_pool \in [Threads -> BOOLEAN]
  /\ notify \in [Procs -> {"none", "one", "all"}]
  /\ create_counts \in [Procs -> [Channels -> Nat]]
  /\ return_status_ok \in [Procs -> BOOLEAN]
  /\ channels_by_count \in SUBSET Channels
  /\ sessions_remaining \in Int

Init ==
  /\ sessions_ = <<>>
  /\ total_sessions_ = 0
  /\ create_calls_in_progress_ = 0
  /\ num_waiting_for_session_ = 0
  /\ session_count = [c \in Channels |-> 0]
  /\ mu_ = Free
  /\ cond_ = {}
  /\ \E c \in Channels : channel = [s \in Sessions |-> c]
  /\ is_bad = {}
  /\ holds = [t \in Threads |-> {}]
  /\ dissociated = [t \in Threads |-> {}]
  /\ pc = [p \in Procs |-> IF p = Pool THEN "init" ELSE "out"]
  /\ dissociate_from_pool = [t \in Threads |-> FALSE]
  /\ notify = [p \in Procs |-> "none"]
  /\ create_counts = [p \in Procs |-> NoCounts]
  /\ return_status_ok = [p \in Procs |-> TRUE]
  /\ channels_by_count = {}
  /\ sessions_remaining = 0

(***************************************************************************)
(* Grow() and ComputeCreateCounts().  The caller keeps mu_ from StartGrow  *)
(* to EndGrow.                                                             *)
(***************************************************************************)
\* Mutant: the cap at max_pool_size_ is missing.
TargetTotalSessions_NoCap(n) == total_sessions_ + n

TargetTotalSessions(n) ==
  IF total_sessions_ + n < max_pool_size_ THEN total_sessions_ + n
                                          ELSE max_pool_size_

\* ComputeCreateCounts() up to its loop.  Its early return for a full pool
\* is never taken: each of the three callers has total_sessions_ below
\* max_pool_size_ and has kept mu_ since it looked.
StartGrow(p, mode, sessions_to_create) ==
  /\ mu_' = p
  /\ pc' = [pc EXCEPT ![p] = mode]
  /\ channels_by_count' = Channels
  /\ sessions_remaining' = TargetTotalSessions(sessions_to_create)

\* Division of C++, which truncates toward zero.
CDiv(a, b) == IF a >= 0 THEN a \div b ELSE -((-a) \div b)

\* Mutant: the first channel gets what it can, the others the rest.
TargetCount_FillFirst(k) ==
  IF sessions_remaining < max_sessions_per_channel
  THEN sessions_remaining ELSE max_sessions_per_channel

\* The share of one of the k channels that remain, rounded up.
TargetCount(k) == CDiv(sessions_remaining + k - 1, k)

\* The channels that can come next in descending order of session count;
\* std::sort() may leave channels with equal counts in any order.
NextChannels == {c \in channels_by_count :
                   \A d \in channels_by_count :
                     session_count[d] <= session_count[c]}

IsBelow(c, target) == session_count[c] < target

\* Mutant: a channel above its target is counted at the target.
RemainingAfter_Target(c, target) == sessions_remaining - target

\* What is left for the channels after c, which will have the larger of its
\* count and its target.
RemainingAfter(c, target) ==
  sessions_remaining - (IF IsBelow(c, target) THEN target ELSE session_count[c])

\* One iteration of the loop over the channels.
ComputeCreateCount(c) ==
  /\ mu_ # Free
  /\ c \in NextChannels
  /\ LET target == TargetCount(Cardinality(channels_by_count))
     IN  /\ create_counts' = IF IsBelow(c, target)
                             THEN [create_counts EXCEPT ![mu_][c] =
                                     target - session_count[c]]
                             ELSE create_counts
         /\ sessions_remaining' = RemainingAfter(c, target)
  /\ channels_by_count' = channels_by_count \ {c}
  /\ UNCHANGED <<sizeVars, waitVars, holderVars, create_calls_in_progress_,
                 mu_, pc, dissociate_from_pool, notify, return_status_ok>>

\* The rest of Grow() up to unlock(): with kWait the calls are made one after
\* the other, with kNoWait Grow() returns while they are in progress.
EndGrow ==
  /\ mu_ # Free
  /\ channels_by_count = {}
  /\ create_calls_in_progress_' =
       create_calls_in_progress_ + Cardinality(CallsOf(mu_))
  /\ pc' = [pc EXCEPT ![mu_] = IF @ = "grow" THEN "creating" ELSE "out"]
  /\ mu_' = Free
  /\ sessions_remaining' = 0
  /\ UNCHANGED <<sizeVars, waitVars, holderVars, create_counts,
                 channels_by_count, dissociate_from_pool, notify,
                 return_status_ok>>

\* The orders in which shuffle() can leave the sessions of S.
Orders(S) == {q \in [1 .. Cardinality(S) -> S] :
                {q[i] : i \in DOMAIN q} = S}

\* HandleBatchCreateSessionsDone() with a response.  The service creates at
\* least one session and at most as many as requested.
CreateSucceeds(p, c) ==
  /\ mu_ = Free
  /\ notify[p] = "none"
  /\ c \in CallsOf(p)
  /\ create_calls_in_progress_' = create_calls_in_progress_ - 1
  /\ create_counts' = [create_counts EXCEPT ![p][c] = 0]
  /\ \E new \in SUBSET Unused :
       /\ new # {} /\ Cardinality(new) <= create_counts[p][c]
       /\ channel' = [s \in Sessions |-> IF s \in new THEN c ELSE channel[s]]
       /\ is_bad' = is_bad \ new
       /\ session_count' = [session_count EXCEPT ![c] = @ + Cardinality(new)]
       /\ total_sessions_' = total_sessions_ + Cardinality(new)
       /\ sessions_' \in Orders(Idle \cup new)
  /\ notify' = [notify EXCEPT ![p] = "all"]
  /\ UNCHANGED <<waitVars, holds, dissociated, mu_, pc, dissociate_from_pool,
                 return_status_ok, channels_by_count, sessions_remaining>>

\* HandleBatchCreateSessionsDone() once the retry policy has given up.
CreateFails(p, c) ==
  /\ "create" \in Faults
  /\ mu_ = Free
  /\ notify[p] = "none"
  /\ c \in CallsOf(p)
  /\ create_calls_in_progress_' = create_calls_in_progress_ - 1
  /\ create_counts' = [create_counts EXCEPT ![p][c] = 0]
  /\ return_status_ok' =
       [return_status_ok EXCEPT ![p] = IF pc[p] = "creating" THEN FALSE
                                                             ELSE @]
  /\ UNCHANGED <<sizeVars, waitVars, holderVars, mu_, pc,
                 dissociate_from_pool, notify, channels_by_count,
                 sessions_remaining>>

(***************************************************************************)
(* Allocate().  The operators take the number of waiters on entry to the   *)
(* loop body, as a thread that leaves Wait() has decremented it.           *)
(***************************************************************************)
\* Mutant: the vector loses the other end.
PopBack_Front(q) == Tail(q)

PopBack(q) == SubSeq(q, 1, Len(q) - 1)

\* Mutant: the channel's count is not updated.
ForgetSession_TotalOnly(s) ==
  total_sessions_' = total_sessions_ - 1 /\ UNCHANGED session_count

\* The pool no longer counts session s.
ForgetSession(s) ==
  /\ total_sessions_' = total_sessions_ - 1
  /\ session_count' = [session_count EXCEPT ![channel[s]] = @ - 1]

\* A session is available: return the most recently used one.
TakeSession(t, dissociate, waiters) ==
  LET s == sessions_[Len(sessions_)]
  IN  /\ sessions_ # <<>>
      /\ sessions_' = PopBack(sessions_)
      /\ \/ /\ dissociate
            /\ ForgetSession(s)
            /\ dissociated' = [dissociated EXCEPT ![t] = @ \cup {s}]
            /\ UNCHANGED holds
         \/ /\ ~dissociate
            /\ holds' = [holds EXCEPT ![t] = @ \cup {s}]
            /\ UNCHANGED <<total_sessions_, session_count, dissociated>>
      /\ num_waiting_for_session_' = waiters
      /\ pc' = [pc EXCEPT ![t] = "out"]
      /\ dissociate_from_pool' = [dissociate_from_pool EXCEPT ![t] = FALSE]
      /\ UNCHANGED <<cond_, channel, is_bad, planVars, mu_>>

\* Mutant: calls in progress are not looked at.
Creating_Ignored == FALSE

\* Somebody is creating sessions.
Creating == create_calls_in_progress_ > 0

\* Return kResourceExhausted.
FailExhausted(t, waiters) ==
  /\ sessions_ = <<>>
  /\ total_sessions_ >= max_pool_size_
  /\ action_on_exhaustion = "kFail"
  /\ num_waiting_for_session_' = waiters
  /\ pc' = [pc EXCEPT ![t] = "out"]
  /\ dissociate_from_pool' = [dissociate_from_pool EXCEPT ![t] = FALSE]
  /\ UNCHANGED <<sizeVars, cond_, holderVars, planVars, mu_>>

\* The predicate that thread t passes to Wait().
WaitPredicate(t) ==
  \/ sessions_ # <<>>
  \/ pc[t] = "wait_session" /\ total_sessions_ < max_pool_size_
  \/ pc[t] = "wait_create" /\ create_calls_in_progress_ = 0

\* Wait() up to the point where cond_ has unlocked mu_.
Wait(t, dissociate, waiters) ==
  /\ sessions_ = <<>>
  /\ \/ /\ total_sessions_ >= max_pool_size_
        /\ action_on_exhaustion = "kBlock"
        /\ pc' = [pc EXCEPT ![t] = "wait_session"]
     \/ /\ total_sessions_ < max_pool_size_
        /\ Creating
        /\ pc' = [pc EXCEPT ![t] = "wait_create"]
  /\ num_waiting_for_session_' = waiters + 1
  /\ cond_' = cond_ \cup {t}
  /\ dissociate_from_pool' = [dissociate_from_pool EXCEPT ![t] = dissociate]
  /\ UNCHANGED <<sizeVars, holderVars, planVars, mu_>>

\* Create min_sessions sessions and one for this caller.
GrowForCaller(t, dissociate, waiters) ==
  /\ sessions_ = <<>>
  /\ total_sessions_ < max_pool_size_
  /\ ~Creating
  /\ StartGrow(t, "grow", min_sessions + 1)
  /\ num_waiting_for_session_' = waiters
  /\ dissociate_from_pool' = [dissociate_from_pool EXCEPT ![t] = dissociate]
  /\ UNCHANGED <<sizeVars, cond_, holderVars, create_counts>>

\* The body of the loop in Allocate().
AllocateLoop(t, dissociate, waiters) ==
  /\ \/ TakeSession(t, dissociate, waiters)
     \/ FailExhausted(t, waiters)
     \/ Wait(t, dissociate, waiters)
     \/ GrowForCaller(t, dissociate, waiters)
  /\ UNCHANGED <<create_calls_in_progress_, notify, return_status_ok>>

Allocate(t, dissociate) ==
  /\ mu_ = Free
  /\ pc[Pool] \notin {"init", "creating"}   \* MakeSessionPool() has returned
  /\ pc[t] = "out" /\ notify[t] = "none"
  /\ Cardinality(holds[t] \cup dissociated[t]) < MaxHeld
  /\ dissociate => "dissociate" \in Faults
  /\ AllocateLoop(t, dissociate, num_waiting_for_session_)

\* A thread that is no longer blocked on cond_ gets mu_ back and evaluates
\* its predicate: it blocks again, or goes on with the loop.
Reacquire(t) ==
  /\ mu_ = Free
  /\ pc[t] \in Waiting /\ t \notin cond_
  /\ \/ /\ ~WaitPredicate(t)
        /\ cond_' = cond_ \cup {t}
        /\ UNCHANGED <<sizeVars, num_waiting_for_session_, holderVars,
                       planVars, create_calls_in_progress_, mu_, pc,
                       dissociate_from_pool, notify, return_status_ok>>
     \/ /\ WaitPredicate(t)
        /\ AllocateLoop(t, dissociate_from_pool[t],
                        num_waiting_for_session_ - 1)

\* CreateSessions() has made all its calls and Grow() gets mu_ back: a failed
\* call ends Allocate(), otherwise the loop starts over.
GrowReturns(t) ==
  /\ mu_ = Free
  /\ pc[t] = "creating" /\ notify[t] = "none" /\ CallsOf(t) = {}
  /\ \/ /\ ~return_status_ok[t]
        /\ pc' = [pc EXCEPT ![t] = "out"]
        /\ return_status_ok' = [return_status_ok EXCEPT ![t] = TRUE]
        /\ dissociate_from_pool' = [dissociate_from_pool EXCEPT ![t] = FALSE]
        /\ UNCHANGED <<sizeVars, waitVars, holderVars, planVars,
                       create_calls_in_progress_, mu_, notify>>
     \/ /\ return_status_ok[t]
        /\ AllocateLoop(t, dissociate_from_pool[t], num_waiting_for_session_)

(***************************************************************************)
(* Holders.                                                                *)
(***************************************************************************)
\* A failed RPC tells a holder that the service has lost its session.
SetBad(t, s) ==
  /\ "bad" \in Faults
  /\ s \in holds[t] \cup dissociated[t] /\ s \notin is_bad
  /\ pc[t] = "out" /\ notify[t] = "none"
  /\ is_bad' = is_bad \cup {s}
  /\ UNCHANGED <<sizeVars, waitVars, channel, holds, dissociated, planVars,
                 create_calls_in_progress_, mu_, pc, dissociate_from_pool,
                 notify, return_status_ok>>

\* Mutant: the bad state of a session is not looked at.
IsBad_Ignored(s) == FALSE

IsBad(s) == s \in is_bad

\* Mutant: a single waiter is not woken.
NotifyOneIfWaiting_OffByOne ==
  IF num_waiting_for_session_ > 1 THEN "one" ELSE "none"

\* The wakeup due when a session is back in the pool.
NotifyOneIfWaiting == IF num_waiting_for_session_ > 0 THEN "one" ELSE "none"

\* The deleter of a holder made by MakeSessionHolder().
Release(t, s) ==
  /\ mu_ = Free
  /\ pc[t] = "out" /\ notify[t] = "none"
  /\ s \in holds[t]
  /\ holds' = [holds EXCEPT ![t] = @ \ {s}]
  /\ \/ /\ IsBad(s)
        /\ ForgetSession(s)
        /\ UNCHANGED <<sessions_, notify>>
     \/ /\ ~IsBad(s)
        /\ sessions_' = Append(sessions_, s)
        /\ notify' = [notify EXCEPT ![t] = NotifyOneIfWaiting]
        /\ UNCHANGED <<total_sessions_, session_count>>
  /\ UNCHANGED <<waitVars, channel, is_bad, dissociated, planVars,
                 create_calls_in_progress_, mu_, pc, dissociate_from_pool,
                 return_status_ok>>

\* The default deleter of a dissociated holder: the pool does not hear of it.
DropDissociated(t, s) ==
  /\ pc[t] = "out" /\ notify[t] = "none"
  /\ s \in dissociated[t]
  /\ dissociated' = [dissociated EXCEPT ![t] = @ \ {s}]
  /\ UNCHANGED <<sizeVars, waitVars, channel, is_bad, holds, planVars,
                 create_calls_in_progress_, mu_, pc, dissociate_from_pool,
                 notify, return_status_ok>>

(***************************************************************************)
(* The condition variable.                                                 *)
(***************************************************************************)
\* notify_one() wakes any one of the blocked threads, notify_all() all.
Notify(p) ==
  /\ \/ /\ notify[p] = "one"
        /\ \/ cond_ = {} /\ UNCHANGED cond_
           \/ \E t \in cond_ : cond_' = cond_ \ {t}
     \/ notify[p] = "all" /\ cond_' = {}
  /\ notify' = [notify EXCEPT ![p] = "none"]
  /\ UNCHANGED <<sizeVars, num_waiting_for_session_, holderVars, planVars,
                 create_calls_in_progress_, mu_, pc, dissociate_from_pool,
                 return_status_ok>>

\* std::condition_variable lets a thread go on without a notification.
SpuriousWakeup(t) ==
  /\ t \in cond_
  /\ cond_' = cond_ \ {t}
  /\ UNCHANGED <<sizeVars, num_waiting_for_session_, holderVars, planVars,
                 create_calls_in_progress_, mu_, pc, dissociate_from_pool,
                 notify, return_status_ok>>

(***************************************************************************)
(* Initialize() and the background timer.                                  *)
(***************************************************************************)
Initialize ==
  /\ pc[Pool] = "init" /\ mu_ = Free
  /\ \/ /\ min_sessions > 0
        /\ StartGrow(Pool, "grow", min_sessions)
     \/ /\ min_sessions = 0
        /\ pc' = [pc EXCEPT ![Pool] = "out"]
        /\ UNCHANGED <<mu_, channels_by_count, sessions_remaining>>
  /\ UNCHANGED <<sizeVars, waitVars, holderVars, create_counts,
                 create_calls_in_progress_, dissociate_from_pool, notify,
                 return_status_ok>>

\* Initialize() ignores the status of Grow() and schedules the timer.
InitializeReturns ==
  /\ mu_ = Free
  /\ pc[Pool] = "creating" /\ notify[Pool] = "none" /\ CallsOf(Pool) = {}
  /\ pc' = [pc EXCEPT ![Pool] = "out"]
  /\ return_status_ok' = [return_status_ok EXCEPT ![Pool] = TRUE]
  /\ UNCHANGED <<sizeVars, waitVars, holderVars, planVars,
                 create_calls_in_progress_, mu_, dissociate_from_pool, notify>>

MaintainPoolSize ==
  /\ pc[Pool] = "out" /\ notify[Pool] = "none" /\ mu_ = Free
  /\ ~Creating
  /\ total_sessions_ < min_sessions
  /\ StartGrow(Pool, "grow_async", total_sessions_ - min_sessions)
  /\ UNCHANGED <<sizeVars, waitVars, holderVars, create_counts,
                 create_calls_in_progress_, dissociate_from_pool, notify,
                 return_status_ok>>

Next ==
  \/ \E c \in Channels : ComputeCreateCount(c)
  \/ EndGrow
  \/ \E p \in Procs, c \in Channels : CreateSucceeds(p, c) \/ CreateFails(p, c)
  \/ \E p \in Procs : Notify(p)
  \/ \E t \in Threads :
       \/ \E dissociate \in BOOLEAN : Allocate(t, dissociate)
       \/ Reacquire(t)
       \/ GrowReturns(t)
       \/ SpuriousWakeup(t)
       \/ \E s \in Sessions :
            SetBad(t, s) \/ Release(t, s) \/ DropDissociated(t, s)
  \/ Initialize
  \/ InitializeReturns
  \/ MaintainPoolSize

\* The scheduler runs every thread that can go on inside the pool, the retry
\* policy ends every RPC, and the timer keeps firing.  Nothing makes the
\* application call Allocate() or drop a holder.
Fairness ==
  /\ WF_vars(EndGrow \/ \E c \in Channels : ComputeCreateCount(c))
  /\ \A p \in Procs :
       /\ WF_vars(Notify(p))
       /\ \A c \in Channels :
            WF_vars(CreateSucceeds(p, c) \/ CreateFails(p, c))
  /\ \A t \in Threads : WF_vars(Reacquire(t)) /\ WF_vars(GrowReturns(t))
  /\ WF_vars(Initialize) /\ WF_vars(InitializeReturns)
  /\ WF_vars(MaintainPoolSize)

Spec == Init /\ [][Next]_vars /\ Fairness

(***************************************************************************)
(* Safety.                                                                 *)
(***************************************************************************)
\* The sessions that count against the size of the pool.
Pooled == Idle \cup Held

\* Every session is in one place: idle once, or with one holder.  Only the
\* holder that got it from Allocate() can use it, release it or mark it bad,
\* and a session that was marked bad is not handed out again.
Ownership ==
  /\ \A i, j \in DOMAIN sessions_ : sessions_[i] = sessions_[j] => i = j
  /\ Idle \cap (Held \cup Dissociated) = {}
  /\ Held \cap Dissociated = {}
  /\ \A t, u \in Threads : t # u =>
       /\ holds[t] \cap holds[u] = {}
       /\ dissociated[t] \cap dissociated[u] = {}
  /\ is_bad \cap Idle = {}

\* The calls counted in create_calls_in_progress_: those of a plan that is
\* still being computed under mu_ are not.
CallsInProgress == {call \in Procs \X Channels :
                      call[1] # mu_ /\ create_counts[call[1]][call[2]] > 0}

\* The four counters of the pool agree with what they count, through every
\* interleaving of allocations, releases and completions of RPCs:
\* total_sessions_ and session_count lag behind neither bad releases nor
\* dissociated sessions, create_calls_in_progress_ returns to zero whatever
\* the outcome of the calls, and every thread in Wait() is counted once.
Accounting ==
  /\ total_sessions_ = Cardinality(Pooled)
  /\ \A c \in Channels :
       session_count[c] = Cardinality({s \in Pooled : channel[s] = c})
  /\ create_calls_in_progress_ = Cardinality(CallsInProgress)
  /\ num_waiting_for_session_ =
       Cardinality({t \in Threads : pc[t] \in Waiting})

\* Sessions asked for and not yet created, by whatever process.
AllAsked == UNION {{p} \X Asked(p) : p \in Procs}

\* With the sessions that are being created, the pool never exceeds
\* max_sessions_per_channel times the number of channels, and no channel
\* exceeds max_sessions_per_channel, although mu_ is free during the RPCs.
MaxPoolSize ==
  /\ total_sessions_ + Cardinality(AllAsked) <= max_pool_size_
  /\ \A c \in Channels :
       session_count[c] + Cardinality({a \in AllAsked : a[2][1] = c})
         <= max_sessions_per_channel

\* Sessions are created by one process at a time, as TODO(#307) in Allocate()
\* says, although the creator gives up mu_ for the duration of its RPCs.
OneCreator ==
  \A p, q \in Procs : CallsOf(p) # {} /\ CallsOf(q) # {} => p = q

\* The process holding mu_ has computed its plan.
Planned == mu_ # Free /\ channels_by_count = {}

\* A plan for n sessions creates exactly n, or as many as fit: the division
\* of the sessions over channels with unequal counts loses none, so Allocate()
\* never makes an empty Grow() and loops.
PlanMeetsTarget ==
  Planned /\ pc[mu_] = "grow" =>
    LET n == IF mu_ = Pool THEN min_sessions ELSE min_sessions + 1
    IN  total_sessions_ + Cardinality(Asked(mu_)) =
          (IF total_sessions_ + n < max_pool_size_ THEN total_sessions_ + n
                                                   ELSE max_pool_size_)

\* The plan keeps the channels as equal as it can: a channel that gets new
\* sessions ends at most one above any other channel.
PlanIsBalanced ==
  Planned =>
    LET after(c) == session_count[c] + create_counts[mu_][c]
    IN  \A c \in CallsOf(mu_), d \in Channels : after(c) <= after(d) + 1

\* A plan of new sessions is exact and balanced.
PlanIsSound == PlanMeetsTarget /\ PlanIsBalanced

(***************************************************************************)
(* The pool implements the abstract one.                                   *)
(***************************************************************************)
Abstract == INSTANCE AbstractSessionPool WITH
  Holders <- Threads, MaxSessions <- max_pool_size_,
  idle <- Idle, lent <- holds, given <- dissociated, lost <- is_bad

\* Whatever the threads, the timer and the service do, users of SessionPool
\* see Create, Lend, Give, Lose, Return and Drop steps of a bounded pool.
ImplementsAbstractPool == Abstract!AbsSpec

(***************************************************************************)
(* Liveness.                                                               *)
(***************************************************************************)
\* session_pool_options.h: "If no sessions are available to perform an
\* operation the client library blocks until new sessions are available": a
\* blocked thread does not stay blocked while the predicate it waits for
\* stays true.
NoLostWakeup ==
  \A t \in Threads :
    (t \in cond_ /\ WaitPredicate(t)) ~> (t \notin cond_ \/ ~WaitPredicate(t))
=============================================================================
