---------------------------- MODULE PoolLifetime ----------------------------
(***************************************************************************)
(* The lifetime of a SessionPool: its owner is a ConnectionImpl, whose     *)
(* destructor lets go of the pool and then waits for the threads of the    *)
(* completion queue; timers and the deleters of SessionHolders have weak   *)
(* pointers to it (internal/session_pool.cc, internal/connection_impl.h).  *)
(*                                                                         *)
(* A shared_ptr to the pool belongs to an actor: the connection, a user    *)
(* thread in the deleter of a holder, or the callback of a timer.  The     *)
(* actor that drops the last one runs the destructor.  BatchCreateSessions *)
(* calls are not made in the background: the plan of MaintainPoolSize() is *)
(* always empty.                                                           *)
(***************************************************************************)
EXTENDS FiniteSets

CONSTANTS
  Users,          \* threads that drop SessionHolders
  Sessions,
  Timers,         \* names for the timers in existence
  Calls,          \* AsyncGetSession() calls that can be in progress
  Owner           \* the connection

ASSUME LifetimeAssumption ==
  /\ Owner \notin Users \cup Timers /\ Users \cap Timers = {}
  /\ "none" \notin Timers /\ {"idle", "held", "deleted"} \cap Users = {}

VARIABLES
  connection,     \* where the owner is in the connection's life
  user,           \* where a user thread is
  timer,          \* state of a timer, or where its callback is
  call,           \* state of a call
  session,        \* where a session is
  refs,           \* actors that have a shared_ptr to the pool
  destroyed,      \* the destructor has run
  current_timer_, \* the timer whose future the pool has
  made,           \* the timer an actor has made and not yet assigned
  shutdown        \* whether the completion queue takes new operations

vars == <<connection, user, timer, call, session, refs, destroyed,
          current_timer_, made, shutdown>>

Actors == Users \cup Timers \cup {Owner}

\* Where a callback is in DoBackgroundWork().
InWork == {"maintain", "refresh", "make_timer"}
InCallback == InWork \cup {"assign", "drop"}

TypeOK ==
  /\ connection \in {"make_timer", "assign", "open", "closing", "joining",
                     "closed"}
  /\ user \in [Users -> {"out", "release", "notify", "drop"}]
  /\ timer \in [Timers -> {"free", "armed", "expired", "cancelled"} \cup InCallback]
  /\ call \in [Calls -> {"none", "pending"}]
  /\ session \in [Sessions -> {"idle", "held", "deleted"} \cup Users]
  /\ refs \subseteq Actors
  /\ destroyed \in BOOLEAN
  /\ current_timer_ \in Timers \cup {"none"}
  /\ made \in [Timers \cup {Owner} -> Timers \cup {"none"}]
  /\ shutdown \in BOOLEAN

\* MakeSessionPool() has made the pool and is at the end of Initialize().
Init ==
  /\ connection = "make_timer"
  /\ user = [u \in Users |-> "out"]
  /\ timer = [t \in Timers |-> "free"]
  /\ call = [k \in Calls |-> "none"]
  /\ session \in [Sessions -> {"idle", "deleted"}]
  /\ refs = {Owner} /\ destroyed = FALSE
  /\ current_timer_ = "none"
  /\ made = [a \in Timers \cup {Owner} |-> "none"]
  /\ shutdown = FALSE

(***************************************************************************)
(* Pointers.                                                               *)
(***************************************************************************)
\* Mutant: the pointer is only asked whether it has expired.
Lock_Expired(a) == refs # {} /\ refs' = refs

\* weak_ptr::lock() gives the actor a shared_ptr, or none.
Lock(a) == refs # {} /\ refs' = refs \cup {a}
LockFails == refs = {}

(***************************************************************************)
(* ~SessionPool().                                                         *)
(***************************************************************************)
\* The current timer is cancelled, unless it has expired.
Cancelled(timers) ==
  [t \in Timers |-> IF t = current_timer_ /\ timers[t] = "armed"
                    THEN "cancelled" ELSE timers[t]]

\* An actor drops its shared_ptr, and with the last one the pool and its
\* idle sessions are destroyed.  timers is what the actor has made of timer.
Drop(a, timers) ==
  /\ refs' = refs \ {a}
  /\ IF refs \subseteq {a}
     THEN /\ destroyed' = TRUE
          /\ timer' = Cancelled(timers)
          /\ session' = [s \in Sessions |-> IF session[s] = "idle" THEN "deleted"
                                            ELSE session[s]]
     ELSE timer' = timers /\ UNCHANGED <<destroyed, session>>

(***************************************************************************)
(* ScheduleBackgroundWork(), of Initialize() and of DoBackgroundWork().    *)
(***************************************************************************)
\* A timer that is over, and that nobody has a future of.
IsNew(t) ==
  timer[t] = "free" /\ current_timer_ # t /\ \A a \in DOMAIN made : made[a] # t

\* The timer is made, with its callback.  A queue that was shut down cancels
\* it at once.  timers is what the actor has made of timer.
MakeRelativeTimer(a, timers) ==
  \E t \in Timers :
    /\ IsNew(t)
    /\ timer' = [timers EXCEPT ![t] = IF shutdown THEN "cancelled" ELSE "armed"]
    /\ made' = [made EXCEPT ![a] = t]

\* Then its future is assigned.  A timer that expires in between lets two
\* threads get here at once: the last one's future stays.
AssignTimer(a) ==
  /\ current_timer_' = made[a]
  /\ made' = [made EXCEPT ![a] = "none"]

(***************************************************************************)
(* The connection.                                                         *)
(***************************************************************************)
InitializeMakesTimer ==
  /\ connection = "make_timer" /\ connection' = "assign"
  /\ MakeRelativeTimer(Owner, timer)
  /\ UNCHANGED <<user, call, session, refs, destroyed, current_timer_, shutdown>>

InitializeReturns ==
  /\ connection = "assign" /\ connection' = "open"
  /\ AssignTimer(Owner)
  /\ UNCHANGED <<user, timer, call, session, refs, destroyed, shutdown>>

\* A transaction takes a session that is idle or was just created.
Allocate(s) ==
  /\ connection = "open" /\ session[s] \in {"idle", "deleted"}
  /\ session' = [session EXCEPT ![s] = "held"]
  /\ UNCHANGED <<connection, user, timer, call, refs, destroyed, current_timer_,
                 made, shutdown>>

\* ~ConnectionImpl() destroys session_pool_ first,
CloseConnection ==
  /\ connection = "open" /\ connection' = "closing"
  /\ Drop(Owner, timer)
  /\ UNCHANGED <<user, call, current_timer_, made, shutdown>>

\* and then background_threads_, which shuts the queue down
ShutdownQueue ==
  /\ connection = "closing" /\ connection' = "joining"
  /\ shutdown' = TRUE
  /\ UNCHANGED <<user, timer, call, session, refs, destroyed, current_timer_, made>>

\* and waits for its threads, which run until nothing is left to do.
JoinThreads ==
  /\ connection = "joining" /\ connection' = "closed"
  /\ \A t \in Timers : timer[t] = "free"
  /\ \A k \in Calls : call[k] = "none"
  /\ UNCHANGED <<user, timer, call, session, refs, destroyed, current_timer_,
                 made, shutdown>>

(***************************************************************************)
(* The deleter of a SessionHolder.                                         *)
(***************************************************************************)
DropHolder(u, s) ==
  /\ user[u] = "out" /\ session[s] = "held"
  /\ \/ /\ Lock(u)
        /\ user' = [user EXCEPT ![u] = "release"]
        /\ session' = [session EXCEPT ![s] = u]
     \/ /\ LockFails
        /\ session' = [session EXCEPT ![s] = "deleted"]
        /\ UNCHANGED <<user, refs>>
  /\ UNCHANGED <<connection, timer, call, destroyed, current_timer_, made, shutdown>>

\* Release() puts the session back, or deletes it if it is bad; the waiting
\* thread that there may be is notified when mu_ is free again.
Release(u) ==
  /\ user[u] = "release"
  /\ \E s \in Sessions, where \in {"idle", "deleted"}, next \in {"notify", "drop"} :
       /\ session[s] = u /\ (where = "deleted" => next = "drop")
       /\ session' = [session EXCEPT ![s] = where]
       /\ user' = [user EXCEPT ![u] = next]
  /\ UNCHANGED <<connection, timer, call, refs, destroyed, current_timer_, made,
                 shutdown>>

Notify(u) ==
  /\ user[u] = "notify"
  /\ user' = [user EXCEPT ![u] = "drop"]
  /\ UNCHANGED <<connection, timer, call, session, refs, destroyed,
                 current_timer_, made, shutdown>>

DeleterReturns(u) ==
  /\ user[u] = "drop"
  /\ user' = [user EXCEPT ![u] = "out"]
  /\ Drop(u, timer)
  /\ UNCHANGED <<connection, call, current_timer_, made, shutdown>>

(***************************************************************************)
(* The timer and its callback.                                             *)
(***************************************************************************)
\* Mutant: the next timer is made before the work is done.
After_ScheduleFirst(place) ==
  [expired |-> "make_timer", make_timer |-> "assign", assign |-> "maintain",
   maintain |-> "refresh", refresh |-> "drop"][place]

\* The order of what the callback does.
After(place) ==
  [expired |-> "maintain", maintain |-> "refresh", refresh |-> "make_timer",
   make_timer |-> "assign", assign |-> "drop"][place]

GoOn(t) == [timer EXCEPT ![t] = After(timer[t])]

Expire(t) ==
  /\ timer[t] = "armed"
  /\ timer' = [timer EXCEPT ![t] = "expired"]
  /\ UNCHANGED <<connection, user, call, session, refs, destroyed,
                 current_timer_, made, shutdown>>

\* Mutant: the callback of a cancelled timer does the work too.
HasExpired_OrCancelled(t) == timer[t] \in {"expired", "cancelled"}

HasExpired(t) == timer[t] = "expired"

\* The callback does something if the timer has expired and the pool exists.
CallbackRuns(t) ==
  /\ timer[t] \in {"expired", "cancelled"}
  /\ \/ /\ HasExpired(t) /\ Lock(t)
        /\ timer' = [timer EXCEPT ![t] = After("expired")]
     \/ /\ ~HasExpired(t) \/ LockFails
        /\ timer' = [timer EXCEPT ![t] = "free"]
        /\ UNCHANGED refs
  /\ UNCHANGED <<connection, user, call, session, destroyed, current_timer_,
                 made, shutdown>>

MaintainPoolSize(t) ==
  /\ timer[t] = "maintain" /\ timer' = GoOn(t)
  /\ UNCHANGED <<connection, user, call, session, refs, destroyed,
                 current_timer_, made, shutdown>>

\* Calls for some of the idle sessions are started, if the queue takes them.
RefreshExpiringSessions(t) ==
  /\ timer[t] = "refresh" /\ timer' = GoOn(t)
  /\ \E ks \in SUBSET {k \in Calls : call[k] = "none"} :
       /\ ks # {} => ~shutdown /\ \E s \in Sessions : session[s] = "idle"
       /\ call' = [k \in Calls |-> IF k \in ks THEN "pending" ELSE call[k]]
  /\ UNCHANGED <<connection, user, session, refs, destroyed, current_timer_,
                 made, shutdown>>

ScheduleBackgroundWork(t) ==
  /\ timer[t] = "make_timer"
  /\ MakeRelativeTimer(t, GoOn(t))
  /\ UNCHANGED <<connection, user, call, session, refs, destroyed,
                 current_timer_, shutdown>>

ScheduleReturns(t) ==
  /\ timer[t] = "assign" /\ timer' = GoOn(t)
  /\ AssignTimer(t)
  /\ UNCHANGED <<connection, user, call, session, refs, destroyed, shutdown>>

CallbackReturns(t) ==
  /\ timer[t] = "drop"
  /\ Drop(t, [timer EXCEPT ![t] = "free"])
  /\ UNCHANGED <<connection, user, call, current_timer_, made, shutdown>>

\* The continuation of a call discards the answer.
CallEnds(k) ==
  /\ call[k] = "pending"
  /\ call' = [call EXCEPT ![k] = "none"]
  /\ UNCHANGED <<connection, user, timer, session, refs, destroyed,
                 current_timer_, made, shutdown>>

-----------------------------------------------------------------------------
OwnerStep == InitializeMakesTimer \/ InitializeReturns \/ ShutdownQueue \/ JoinThreads

DeleterStep(u) == Release(u) \/ Notify(u) \/ DeleterReturns(u)

TimerStep(t) ==
  \/ Expire(t) \/ CallbackRuns(t) \/ MaintainPoolSize(t)
  \/ RefreshExpiringSessions(t) \/ ScheduleBackgroundWork(t)
  \/ ScheduleReturns(t) \/ CallbackReturns(t)

Next ==
  \/ OwnerStep \/ CloseConnection
  \/ \E s \in Sessions : Allocate(s) \/ \E u \in Users : DropHolder(u, s)
  \/ \E u \in Users : DeleterStep(u)
  \/ \E t \in Timers : TimerStep(t)
  \/ \E k \in Calls : CallEnds(k)

\* Threads run, timers expire, calls end.  Nothing makes the application close
\* the connection or drop a holder.
Fairness ==
  /\ WF_vars(OwnerStep)
  /\ \A u \in Users : WF_vars(DeleterStep(u))
  /\ \A t \in Timers : WF_vars(TimerStep(t))
  /\ \A k \in Calls : WF_vars(CallEnds(k))

Spec == Init /\ [][Next]_vars /\ Fairness

(***************************************************************************)
(* Properties.                                                             *)
(***************************************************************************)
\* When the destructor has run nobody is in the pool or will be: no deleter
\* on its way from Release() to notify_one(), no callback at work, nobody who
\* is about to assign current_timer_; and it has left no session behind.
UsedOnlyAlive ==
  destroyed =>
    /\ connection \notin {"make_timer", "assign", "open"}
    /\ \A u \in Users : user[u] = "out"
    /\ \A t \in Timers : timer[t] \notin InCallback
    /\ \A s \in Sessions : session[s] \in {"held", "deleted"}

\* The timer t will do the background work, or its callback does it.
Pending(t) == timer[t] \in {"armed", "expired"} \cup InWork

\* The background work of a pool neither stops nor overlaps with itself, even
\* if a timer expires before its future is assigned: there is always one
\* timer to do it, until the pool is destroyed or the queue shut down.
OneBackgroundThread ==
  /\ ~destroyed /\ ~shutdown /\ connection # "make_timer" =>
       \E t \in Timers : Pending(t)
  /\ ~destroyed => \A t, u \in Timers : Pending(t) /\ Pending(u) => t = u

\* The destructor of the connection returns, and the pool is destroyed, even
\* if it is used to the last by deleters and callbacks.
ConnectionCloses == connection = "closing" ~> connection = "closed" /\ destroyed
=============================================================================
