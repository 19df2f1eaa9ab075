------------------------- MODULE PoolLifetimeProofs -------------------------
(***************************************************************************)
(* Theorems about PoolLifetime: the pool is used only while it exists, and *)
(* its background work is done by one timer at a time, for any number of   *)
(* users, sessions, timers and calls.                                      *)
(***************************************************************************)
EXTENDS PoolLifetime, TLAPS

\* An actor has a shared_ptr from the moment it is in the pool to the moment
\* it has left it, and the pool exists as long as there is one.
Owned ==
  /\ destroyed <=> refs = {}
  /\ Owner \in refs <=> connection \in {"make_timer", "assign", "open"}
  /\ \A u \in Users : u \in refs <=> user[u] # "out"
  /\ \A t \in Timers : t \in refs <=> timer[t] \in InCallback

\* A deleter has one session, which it has not released yet, and the idle
\* sessions are in a pool that exists.
Placed ==
  \A s \in Sessions :
    /\ session[s] \in Users =>
         /\ user[session[s]] = "release"
         /\ \A r \in Sessions : session[r] = session[s] => r = s
    /\ destroyed => session[s] # "idle"

\* The first timer is made by Initialize().
Started == connection = "make_timer" => \A t \in Timers : timer[t] = "free"

LifetimeInv == TypeOK /\ Owned /\ Placed /\ Started /\ OneBackgroundThread

LEMMA LifetimeInit == Init => LifetimeInv
<1> SUFFICES ASSUME Init PROVE LifetimeInv
  OBVIOUS
<1>1. TypeOK
  BY LifetimeAssumption DEF Init, TypeOK, Actors
<1>2. Owned /\ Placed /\ Started
  BY LifetimeAssumption DEF Init, Owned, Placed, Started, InCallback, InWork
<1>3. OneBackgroundThread
  BY DEF Init, OneBackgroundThread, Pending, InWork
<1> QED
  BY <1>1, <1>2, <1>3 DEF LifetimeInv

LEMMA InvGivesUse == LifetimeInv => UsedOnlyAlive
<1> SUFFICES ASSUME LifetimeInv, destroyed PROVE UsedOnlyAlive
  BY DEF UsedOnlyAlive
<1>1. refs = {}
  BY DEF LifetimeInv, Owned
<1>2. /\ connection \notin {"make_timer", "assign", "open"}
      /\ \A u \in Users : user[u] = "out"
      /\ \A t \in Timers : timer[t] \notin InCallback
  BY <1>1 DEF LifetimeInv, Owned
<1>3. \A s \in Sessions : session[s] \in {"held", "deleted"}
  BY <1>2 DEF LifetimeInv, Placed, TypeOK
<1> QED
  BY <1>2, <1>3 DEF UsedOnlyAlive

\* Whatever an actor drops, the variables keep their types.
LEMMA DropTypes ==
  ASSUME TypeOK, NEW a \in Actors,
         NEW timers \in [Timers -> {"free", "armed", "expired", "cancelled"} \cup InCallback],
         Drop(a, timers)
  PROVE  /\ refs' \subseteq Actors /\ destroyed' \in BOOLEAN
         /\ timer' \in [Timers -> {"free", "armed", "expired", "cancelled"} \cup InCallback]
         /\ session' \in [Sessions -> {"idle", "held", "deleted"} \cup Users]
<1>1. refs' \subseteq Actors /\ destroyed' \in BOOLEAN
  BY DEF TypeOK, Drop
<1>2. timer' \in [Timers -> {"free", "armed", "expired", "cancelled"} \cup InCallback]
  BY DEF Drop, Cancelled
<1>3. session' \in [Sessions -> {"idle", "held", "deleted"} \cup Users]
  BY DEF TypeOK, Drop
<1> QED
  BY <1>1, <1>2, <1>3

LEMMA InitializeMakesTimerKeeps ==
  ASSUME LifetimeInv, InitializeMakesTimer
  PROVE  LifetimeInv'
<1> USE LifetimeAssumption DEF LifetimeInv
<1>1. TypeOK'
  BY DEF TypeOK, Actors, InCallback, InWork, InitializeMakesTimer, MakeRelativeTimer, IsNew
<1>2. Owned'
  BY DEF TypeOK, Owned, InCallback, InWork, InitializeMakesTimer, MakeRelativeTimer, IsNew
<1>3. Placed'
  BY DEF TypeOK, Owned, Placed, InitializeMakesTimer, MakeRelativeTimer, IsNew
<1>4. Started'
  BY DEF TypeOK, Started, InCallback, InWork, InitializeMakesTimer, MakeRelativeTimer, IsNew
<1>5. OneBackgroundThread'
  BY DEF TypeOK, Owned, Started, OneBackgroundThread, Pending, InCallback, InWork, InitializeMakesTimer, MakeRelativeTimer, IsNew
<1> QED
  BY <1>1, <1>2, <1>3, <1>4, <1>5

LEMMA InitializeReturnsKeeps ==
  ASSUME LifetimeInv, InitializeReturns
  PROVE  LifetimeInv'
<1> USE LifetimeAssumption DEF LifetimeInv
<1>1. TypeOK'
  BY DEF TypeOK, Actors, InCallback, InWork, InitializeReturns, AssignTimer
<1>2. Owned'
  BY DEF TypeOK, Owned, InCallback, InWork, InitializeReturns, AssignTimer
<1>3. Placed'
  BY DEF TypeOK, Owned, Placed, InitializeReturns, AssignTimer
<1>4. Started'
  BY DEF TypeOK, Started, InCallback, InWork, InitializeReturns, AssignTimer
<1>5. OneBackgroundThread'
  BY DEF TypeOK, Owned, Started, OneBackgroundThread, Pending, InCallback, InWork, InitializeReturns, AssignTimer
<1> QED
  BY <1>1, <1>2, <1>3, <1>4, <1>5

LEMMA AllocateKeeps ==
  ASSUME LifetimeInv, NEW s \in Sessions, Allocate(s)
  PROVE  LifetimeInv'
<1> USE LifetimeAssumption DEF LifetimeInv
<1>1. TypeOK'
  BY DEF TypeOK, Actors, InCallback, InWork, Allocate
<1>2. Owned'
  BY DEF TypeOK, Owned, InCallback, InWork, Allocate
<1>3. Placed'
  BY DEF TypeOK, Owned, Placed, Allocate
<1>4. Started'
  BY DEF TypeOK, Started, InCallback, InWork, Allocate
<1>5. OneBackgroundThread'
  BY DEF TypeOK, Owned, Started, OneBackgroundThread, Pending, InCallback, InWork, Allocate
<1> QED
  BY <1>1, <1>2, <1>3, <1>4, <1>5

LEMMA CloseConnectionKeeps ==
  ASSUME LifetimeInv, CloseConnection
  PROVE  LifetimeInv'
<1> USE LifetimeAssumption DEF LifetimeInv
<1>1. TypeOK'
  <2>1. /\ Owner \in Actors
        /\ timer \in [Timers -> {"free", "armed", "expired", "cancelled"} \cup InCallback]
        /\ Drop(Owner, timer)
    BY DEF TypeOK, Actors, CloseConnection
  <2> QED
    BY <2>1, DropTypes DEF TypeOK, CloseConnection
<1>2. Owned'
  BY DEF TypeOK, Owned, InCallback, InWork, CloseConnection, Drop, Cancelled
<1>3. Placed'
  BY DEF TypeOK, Owned, Placed, CloseConnection, Drop, Cancelled
<1>4. Started'
  BY DEF TypeOK, Started, InCallback, InWork, CloseConnection, Drop, Cancelled
<1>5. OneBackgroundThread'
  BY DEF TypeOK, Owned, Started, OneBackgroundThread, Pending, InCallback, InWork, CloseConnection, Drop, Cancelled
<1> QED
  BY <1>1, <1>2, <1>3, <1>4, <1>5

LEMMA ShutdownQueueKeeps ==
  ASSUME LifetimeInv, ShutdownQueue
  PROVE  LifetimeInv'
<1> USE LifetimeAssumption DEF LifetimeInv
<1>1. TypeOK'
  BY DEF TypeOK, Actors, InCallback, InWork, ShutdownQueue
<1>2. Owned'
  BY DEF TypeOK, Owned, InCallback, InWork, ShutdownQueue
<1>3. Placed'
  BY DEF TypeOK, Owned, Placed, ShutdownQueue
<1>4. Started'
  BY DEF TypeOK, Started, InCallback, InWork, ShutdownQueue
<1>5. OneBackgroundThread'
  BY DEF TypeOK, Owned, Started, OneBackgroundThread, Pending, InCallback, InWork, ShutdownQueue
<1> QED
  BY <1>1, <1>2, <1>3, <1>4, <1>5

LEMMA JoinThreadsKeeps ==
  ASSUME LifetimeInv, JoinThreads
  PROVE  LifetimeInv'
<1> USE LifetimeAssumption DEF LifetimeInv
<1>1. TypeOK'
  BY DEF TypeOK, Actors, InCallback, InWork, JoinThreads
<1>2. Owned'
  BY DEF TypeOK, Owned, InCallback, InWork, JoinThreads
<1>3. Placed'
  BY DEF TypeOK, Owned, Placed, JoinThreads
<1>4. Started'
  BY DEF TypeOK, Started, InCallback, InWork, JoinThreads
<1>5. OneBackgroundThread'
  BY DEF TypeOK, Owned, Started, OneBackgroundThread, Pending, InCallback, InWork, JoinThreads
<1> QED
  BY <1>1, <1>2, <1>3, <1>4, <1>5

LEMMA DropHolderKeeps ==
  ASSUME LifetimeInv, NEW u \in Users, NEW s \in Sessions, DropHolder(u, s)
  PROVE  LifetimeInv'
<1> USE LifetimeAssumption DEF LifetimeInv
<1>1. TypeOK'
  BY DEF TypeOK, Actors, InCallback, InWork, DropHolder, Lock, LockFails
<1>2. Owned'
  BY DEF TypeOK, Owned, InCallback, InWork, DropHolder, Lock, LockFails
<1>3. Placed'
  BY DEF TypeOK, Owned, Placed, DropHolder, Lock, LockFails
<1>4. Started'
  BY DEF TypeOK, Started, InCallback, InWork, DropHolder, Lock, LockFails
<1>5. OneBackgroundThread'
  BY DEF TypeOK, Owned, Started, OneBackgroundThread, Pending, InCallback, InWork, DropHolder, Lock, LockFails
<1> QED
  BY <1>1, <1>2, <1>3, <1>4, <1>5

LEMMA ReleaseKeeps ==
  ASSUME LifetimeInv, NEW u \in Users, Release(u)
  PROVE  LifetimeInv'
<1> USE LifetimeAssumption DEF LifetimeInv
<1>1. TypeOK'
  BY DEF TypeOK, Actors, InCallback, InWork, Release
<1>2. Owned'
  BY DEF TypeOK, Owned, InCallback, InWork, Release
<1>3. Placed'
  BY DEF TypeOK, Owned, Placed, Release
<1>4. Started'
  BY DEF TypeOK, Started, InCallback, InWork, Release
<1>5. OneBackgroundThread'
  BY DEF TypeOK, Owned, Started, OneBackgroundThread, Pending, InCallback, InWork, Release
<1> QED
  BY <1>1, <1>2, <1>3, <1>4, <1>5

LEMMA NotifyKeeps ==
  ASSUME LifetimeInv, NEW u \in Users, Notify(u)
  PROVE  LifetimeInv'
<1> USE LifetimeAssumption DEF LifetimeInv
<1>1. TypeOK'
  BY DEF TypeOK, Actors, InCallback, InWork, Notify
<1>2. Owned'
  BY DEF TypeOK, Owned, InCallback, InWork, Notify
<1>3. Placed'
  BY DEF TypeOK, Owned, Placed, Notify
<1>4. Started'
  BY DEF TypeOK, Started, InCallback, InWork, Notify
<1>5. OneBackgroundThread'
  BY DEF TypeOK, Owned, Started, OneBackgroundThread, Pending, InCallback, InWork, Notify
<1> QED
  BY <1>1, <1>2, <1>3, <1>4, <1>5

LEMMA DeleterReturnsKeeps ==
  ASSUME LifetimeInv, NEW u \in Users, DeleterReturns(u)
  PROVE  LifetimeInv'
<1> USE LifetimeAssumption DEF LifetimeInv
<1>1. TypeOK'
  <2>1. /\ u \in Actors
        /\ timer \in [Timers -> {"free", "armed", "expired", "cancelled"} \cup InCallback]
        /\ Drop(u, timer)
    BY DEF TypeOK, Actors, DeleterReturns
  <2> QED
    BY <2>1, DropTypes DEF TypeOK, DeleterReturns
<1>2. Owned'
  BY DEF TypeOK, Owned, InCallback, InWork, DeleterReturns, Drop, Cancelled
<1>3. Placed'
  BY DEF TypeOK, Owned, Placed, DeleterReturns, Drop, Cancelled
<1>4. Started'
  BY DEF TypeOK, Started, InCallback, InWork, DeleterReturns, Drop, Cancelled
<1>5. OneBackgroundThread'
  BY DEF TypeOK, Owned, Started, OneBackgroundThread, Pending, InCallback, InWork, DeleterReturns, Drop, Cancelled
<1> QED
  BY <1>1, <1>2, <1>3, <1>4, <1>5

LEMMA ExpireKeeps ==
  ASSUME LifetimeInv, NEW t \in Timers, Expire(t)
  PROVE  LifetimeInv'
<1> USE LifetimeAssumption DEF LifetimeInv
<1>1. TypeOK'
  BY DEF TypeOK, Actors, InCallback, InWork, Expire
<1>2. Owned'
  BY DEF TypeOK, Owned, InCallback, InWork, Expire
<1>3. Placed'
  BY DEF TypeOK, Owned, Placed, Expire
<1>4. Started'
  BY DEF TypeOK, Started, InCallback, InWork, Expire
<1>5. OneBackgroundThread'
  BY DEF TypeOK, Owned, Started, OneBackgroundThread, Pending, InCallback, InWork, Expire
<1> QED
  BY <1>1, <1>2, <1>3, <1>4, <1>5

LEMMA CallbackRunsKeeps ==
  ASSUME LifetimeInv, NEW t \in Timers, CallbackRuns(t)
  PROVE  LifetimeInv'
<1> USE LifetimeAssumption DEF LifetimeInv
<1>1. TypeOK'
  BY DEF TypeOK, Actors, InCallback, InWork, CallbackRuns, Lock, LockFails, HasExpired, After
<1>2. Owned'
  BY DEF TypeOK, Owned, InCallback, InWork, CallbackRuns, Lock, LockFails, HasExpired, After
<1>3. Placed'
  BY DEF TypeOK, Owned, Placed, CallbackRuns, Lock, LockFails, HasExpired, After
<1>4. Started'
  BY DEF TypeOK, Started, InCallback, InWork, CallbackRuns, Lock, LockFails, HasExpired, After
<1>5. OneBackgroundThread'
  BY DEF TypeOK, Owned, Started, OneBackgroundThread, Pending, InCallback, InWork, CallbackRuns, Lock, LockFails, HasExpired, After
<1> QED
  BY <1>1, <1>2, <1>3, <1>4, <1>5

LEMMA MaintainPoolSizeKeeps ==
  ASSUME LifetimeInv, NEW t \in Timers, MaintainPoolSize(t)
  PROVE  LifetimeInv'
<1> USE LifetimeAssumption DEF LifetimeInv
<1>1. TypeOK'
  BY DEF TypeOK, Actors, InCallback, InWork, MaintainPoolSize, GoOn, After
<1>2. Owned'
  BY DEF TypeOK, Owned, InCallback, InWork, MaintainPoolSize, GoOn, After
<1>3. Placed'
  BY DEF TypeOK, Owned, Placed, MaintainPoolSize, GoOn, After
<1>4. Started'
  BY DEF TypeOK, Started, InCallback, InWork, MaintainPoolSize, GoOn, After
<1>5. OneBackgroundThread'
  BY DEF TypeOK, Owned, Started, OneBackgroundThread, Pending, InCallback, InWork, MaintainPoolSize, GoOn, After
<1> QED
  BY <1>1, <1>2, <1>3, <1>4, <1>5

LEMMA RefreshExpiringSessionsKeeps ==
  ASSUME LifetimeInv, NEW t \in Timers, RefreshExpiringSessions(t)
  PROVE  LifetimeInv'
<1> USE LifetimeAssumption DEF LifetimeInv
<1>1. TypeOK'
  BY DEF TypeOK, Actors, InCallback, InWork, RefreshExpiringSessions, GoOn, After
<1>2. Owned'
  BY DEF TypeOK, Owned, InCallback, InWork, RefreshExpiringSessions, GoOn, After
<1>3. Placed'
  BY DEF TypeOK, Owned, Placed, RefreshExpiringSessions, GoOn, After
<1>4. Started'
  BY DEF TypeOK, Started, InCallback, InWork, RefreshExpiringSessions, GoOn, After
<1>5. OneBackgroundThread'
  BY DEF TypeOK, Owned, Started, OneBackgroundThread, Pending, InCallback, InWork, RefreshExpiringSessions, GoOn, After
<1> QED
  BY <1>1, <1>2, <1>3, <1>4, <1>5

LEMMA ScheduleBackgroundWorkKeeps ==
  ASSUME LifetimeInv, NEW t \in Timers, ScheduleBackgroundWork(t)
  PROVE  LifetimeInv'
<1> USE LifetimeAssumption DEF LifetimeInv
<1>1. TypeOK'
  BY DEF TypeOK, Actors, InCallback, InWork, ScheduleBackgroundWork, MakeRelativeTimer, IsNew, GoOn, After
<1>2. Owned'
  BY DEF TypeOK, Owned, InCallback, InWork, ScheduleBackgroundWork, MakeRelativeTimer, IsNew, GoOn, After
<1>3. Placed'
  BY DEF TypeOK, Owned, Placed, ScheduleBackgroundWork, MakeRelativeTimer, IsNew, GoOn, After
<1>4. Started'
  BY DEF TypeOK, Started, InCallback, InWork, ScheduleBackgroundWork, MakeRelativeTimer, IsNew, GoOn, After
<1>5. OneBackgroundThread'
  BY DEF TypeOK, Owned, Started, OneBackgroundThread, Pending, InCallback, InWork, ScheduleBackgroundWork, MakeRelativeTimer, IsNew, GoOn, After
<1> QED
  BY <1>1, <1>2, <1>3, <1>4, <1>5

LEMMA ScheduleReturnsKeeps ==
  ASSUME LifetimeInv, NEW t \in Timers, ScheduleReturns(t)
  PROVE  LifetimeInv'
<1> USE LifetimeAssumption DEF LifetimeInv
<1>1. TypeOK'
  BY DEF TypeOK, Actors, InCallback, InWork, ScheduleReturns, AssignTimer, GoOn, After
<1>2. Owned'
  BY DEF TypeOK, Owned, InCallback, InWork, ScheduleReturns, AssignTimer, GoOn, After
<1>3. Placed'
  BY DEF TypeOK, Owned, Placed, ScheduleReturns, AssignTimer, GoOn, After
<1>4. Started'
  BY DEF TypeOK, Started, InCallback, InWork, ScheduleReturns, AssignTimer, GoOn, After
<1>5. OneBackgroundThread'
  BY DEF TypeOK, Owned, Started, OneBackgroundThread, Pending, InCallback, InWork, ScheduleReturns, AssignTimer, GoOn, After
<1> QED
  BY <1>1, <1>2, <1>3, <1>4, <1>5

LEMMA CallbackReturnsKeeps ==
  ASSUME LifetimeInv, NEW t \in Timers, CallbackReturns(t)
  PROVE  LifetimeInv'
<1> USE LifetimeAssumption DEF LifetimeInv
<1>1. TypeOK'
  <2>1. /\ t \in Actors
        /\ [timer EXCEPT ![t] = "free"] \in [Timers -> {"free", "armed", "expired", "cancelled"} \cup InCallback]
        /\ Drop(t, [timer EXCEPT ![t] = "free"])
    BY DEF TypeOK, Actors, CallbackReturns
  <2> QED
    BY <2>1, DropTypes DEF TypeOK, CallbackReturns
<1>2. Owned'
  BY DEF TypeOK, Owned, InCallback, InWork, CallbackReturns, Drop, Cancelled
<1>3. Placed'
  BY DEF TypeOK, Owned, Placed, CallbackReturns, Drop, Cancelled
<1>4. Started'
  BY DEF TypeOK, Started, InCallback, InWork, CallbackReturns, Drop, Cancelled
<1>5. OneBackgroundThread'
  BY DEF TypeOK, Owned, Started, OneBackgroundThread, Pending, InCallback, InWork, CallbackReturns, Drop, Cancelled
<1> QED
  BY <1>1, <1>2, <1>3, <1>4, <1>5

LEMMA CallEndsKeeps ==
  ASSUME LifetimeInv, NEW k \in Calls, CallEnds(k)
  PROVE  LifetimeInv'
<1> USE LifetimeAssumption DEF LifetimeInv
<1>1. TypeOK'
  BY DEF TypeOK, Actors, InCallback, InWork, CallEnds
<1>2. Owned'
  BY DEF TypeOK, Owned, InCallback, InWork, CallEnds
<1>3. Placed'
  BY DEF TypeOK, Owned, Placed, CallEnds
<1>4. Started'
  BY DEF TypeOK, Started, InCallback, InWork, CallEnds
<1>5. OneBackgroundThread'
  BY DEF TypeOK, Owned, Started, OneBackgroundThread, Pending, InCallback, InWork, CallEnds
<1> QED
  BY <1>1, <1>2, <1>3, <1>4, <1>5
LEMMA LifetimeNext ==
  ASSUME LifetimeInv, [Next]_vars
  PROVE  LifetimeInv'
<1>1. CASE OwnerStep \/ CloseConnection
  BY <1>1, InitializeMakesTimerKeeps, InitializeReturnsKeeps, ShutdownQueueKeeps,
     JoinThreadsKeeps, CloseConnectionKeeps DEF OwnerStep
<1>2. ASSUME NEW s \in Sessions, Allocate(s) \/ \E u \in Users : DropHolder(u, s)
      PROVE  LifetimeInv'
  BY <1>2, AllocateKeeps, DropHolderKeeps
<1>3. ASSUME NEW u \in Users, DeleterStep(u) PROVE LifetimeInv'
  BY <1>3, ReleaseKeeps, NotifyKeeps, DeleterReturnsKeeps DEF DeleterStep
<1>4. ASSUME NEW t \in Timers, TimerStep(t) PROVE LifetimeInv'
  BY <1>4, ExpireKeeps, CallbackRunsKeeps, MaintainPoolSizeKeeps,
     RefreshExpiringSessionsKeeps, ScheduleBackgroundWorkKeeps,
     ScheduleReturnsKeeps, CallbackReturnsKeeps DEF TimerStep
<1>5. ASSUME NEW k \in Calls, CallEnds(k) PROVE LifetimeInv'
  BY <1>5, CallEndsKeeps
<1>6. CASE UNCHANGED vars
  BY <1>6 DEF vars, LifetimeInv, TypeOK, Owned, Placed, Started,
              OneBackgroundThread, Pending
<1> QED
  BY <1>1, <1>2, <1>3, <1>4, <1>5, <1>6 DEF Next

\* The invariant: who is in the pool has a shared_ptr to it, and there is one
\* timer for the background work.
THEOREM LifetimeInvariance == Spec => []LifetimeInv
  BY LifetimeInit, LifetimeNext, PTL DEF Spec

\* Every variable of the model keeps its type: the states of the connection,
\* the deleters, the timers and the sessions are the ones the code has.
THEOREM LifetimeTypeCorrect == Spec => []TypeOK
<1>1. LifetimeInv => TypeOK
  BY DEF LifetimeInv
<1> QED
  BY <1>1, LifetimeInvariance, PTL

\* No deleter of a SessionHolder and no callback of a timer is in the pool, or
\* will be, when ~SessionPool() has run (the weak_ptrs of session_pool.cc).
THEOREM UsedOnlyAliveCorrect == Spec => []UsedOnlyAlive
  BY LifetimeInvariance, InvGivesUse, PTL

\* DoBackgroundWork() is never done by two timers at once, and there is always
\* one to do it while the pool exists and the queue takes timers.
THEOREM OneBackgroundThreadCorrect == Spec => []OneBackgroundThread
<1>1. LifetimeInv => OneBackgroundThread
  BY DEF LifetimeInv
<1> QED
  BY <1>1, LifetimeInvariance, PTL
=============================================================================
