--------------------------- MODULE SessionRefresh ---------------------------
(***************************************************************************)
(* The keep-alive of idle sessions: SessionPool::DoBackgroundWork() and    *)
(* RefreshExpiringSessions() (google/cloud/spanner/internal/               *)
(* session_pool.cc) among threads that take and release sessions.          *)
(*                                                                         *)
(* Time is that of the pool's clock.  The background thread reads it,      *)
(* waits for mu_, scans the idle sessions, makes its calls and arms the    *)
(* timer again; it is late by at most Slack at its start and at its end.   *)
(* What the pool does besides (sizes, waiting) is in SessionPool.          *)
(***************************************************************************)
EXTENDS Integers, FiniteSets

CONSTANTS
  Sessions,
  keep_alive_interval,
  Period,         \* the delay given to ScheduleBackgroundWork()
  Slack,          \* how late the background thread can be
  MaxTime         \* bound of the clock

ASSUME RefreshAssumption ==
  /\ keep_alive_interval \in Nat \ {0}
  /\ Period \in Nat /\ Slack \in Nat /\ MaxTime \in Nat

VARIABLES
  now,                          \* clock_->Now()
  sessions_,                    \* idle sessions
  held,                         \* sessions with a holder
  last_use_time_,
  last_use_time_lower_bound_,
  due,                          \* when the timer fires
  pc,                           \* "timer", "scan" or "calls"
  scan_now,                     \* the clock as read before the scan
  sessions_to_refresh

vars == <<now, sessions_, held, last_use_time_, last_use_time_lower_bound_,
          due, pc, scan_now, sessions_to_refresh>>
workVars == <<last_use_time_lower_bound_, due, pc, scan_now,
              sessions_to_refresh>>

TypeOK ==
  /\ now \in Nat
  /\ sessions_ \in SUBSET Sessions
  /\ held \in SUBSET Sessions
  /\ last_use_time_ \in [Sessions -> Int]
  /\ last_use_time_lower_bound_ \in Int
  /\ due \in Int
  /\ pc \in {"timer", "scan", "calls"}
  /\ scan_now \in Int
  /\ sessions_to_refresh \in SUBSET Sessions

\* The pool is constructed at time 0; its first sessions come with Create.
Init ==
  /\ now = 0
  /\ sessions_ = {} /\ held = {}
  /\ last_use_time_ = [s \in Sessions |-> 0]
  /\ last_use_time_lower_bound_ = 0
  /\ due = Period
  /\ pc = "timer"
  /\ scan_now = 0
  /\ sessions_to_refresh = {}

\* The clock advances, but not past the time by which the background thread
\* has to have done its next step.
Tick ==
  /\ now < MaxTime
  /\ now < Slack + (IF pc = "timer" THEN due ELSE scan_now)
  /\ now' = now + 1
  /\ UNCHANGED <<sessions_, held, last_use_time_, workVars>>

(***************************************************************************)
(* The other threads.                                                      *)
(***************************************************************************)
\* A Session is constructed and added to the pool.
Create(s) ==
  /\ s \notin sessions_ \cup held
  /\ sessions_' = sessions_ \cup {s}
  /\ last_use_time_' = [last_use_time_ EXCEPT ![s] = now]
  /\ UNCHANGED <<now, held, workVars>>

Allocate(s) ==
  /\ s \in sessions_
  /\ sessions_' = sessions_ \ {s}
  /\ held' = held \cup {s}
  /\ UNCHANGED <<now, last_use_time_, workVars>>

\* Mutant: a session that comes back keeps its last-use time.
UseTimeOnRelease_Kept(s) == last_use_time_[s]

UseTimeOnRelease(s) == now

Release(s) ==
  /\ s \in held
  /\ held' = held \ {s}
  /\ sessions_' = sessions_ \cup {s}
  /\ last_use_time_' = [last_use_time_ EXCEPT ![s] = UseTimeOnRelease(s)]
  /\ UNCHANGED <<now, workVars>>

\* A bad or a dissociated session does not come back.
Discard(s) ==
  /\ s \in held
  /\ held' = held \ {s}
  /\ UNCHANGED <<now, sessions_, last_use_time_, workVars>>

(***************************************************************************)
(* The background thread.                                                  *)
(***************************************************************************)
\* The timer fires, and RefreshExpiringSessions() reads the clock.
TimerFires ==
  /\ pc = "timer" /\ now >= due
  /\ scan_now' = now
  /\ pc' = "scan"
  /\ UNCHANGED <<now, sessions_, held, last_use_time_,
                 last_use_time_lower_bound_, due, sessions_to_refresh>>

\* Mutant: a session that is exactly keep_alive_interval old is left alone.
Expiring_Strictly(refresh_limit) ==
  {s \in sessions_ : last_use_time_[s] < refresh_limit}

Expiring(refresh_limit) ==
  {s \in sessions_ : last_use_time_[s] <= refresh_limit}

\* Mutant: the sessions that are not refreshed do not lower the bound.
LeastUseTime_Now(refreshed) == {scan_now}

\* The least (the only member of this set) of scan_now and the last-use times
\* that the scan leaves alone.
LeastUseTime(refreshed) ==
  LET times == {scan_now} \cup {last_use_time_[s] : s \in sessions_ \ refreshed}
  IN  {t \in times : \A u \in times : t <= u}

\* The critical section of RefreshExpiringSessions().
RefreshExpiringSessions ==
  LET refresh_limit == scan_now - keep_alive_interval
  IN  /\ pc = "scan"
      /\ pc' = "calls"
      /\ \/ /\ last_use_time_lower_bound_ <= refresh_limit
            /\ sessions_to_refresh' = Expiring(refresh_limit)
            /\ last_use_time_' =
                 [s \in Sessions |-> IF s \in Expiring(refresh_limit)
                                     THEN now ELSE last_use_time_[s]]
            /\ last_use_time_lower_bound_' \in
                 LeastUseTime(Expiring(refresh_limit))
         \/ /\ last_use_time_lower_bound_ > refresh_limit
            /\ UNCHANGED <<sessions_to_refresh, last_use_time_,
                           last_use_time_lower_bound_>>
      /\ UNCHANGED <<now, sessions_, held, due, scan_now>>

\* One AsyncGetSession() per session, whose outcome is discarded, and then
\* ScheduleBackgroundWork().
ScheduleBackgroundWork ==
  /\ pc = "calls"
  /\ sessions_to_refresh' = {}
  /\ due' = now + Period
  /\ pc' = "timer"
  /\ UNCHANGED <<now, sessions_, held, last_use_time_,
                 last_use_time_lower_bound_, scan_now>>

Next ==
  \/ Tick
  \/ \E s \in Sessions : Create(s) \/ Allocate(s) \/ Release(s) \/ Discard(s)
  \/ TimerFires \/ RefreshExpiringSessions \/ ScheduleBackgroundWork

Spec == Init /\ [][Next]_vars

(***************************************************************************)
(* Properties.                                                             *)
(***************************************************************************)
\* session_pool.h: "Lower bound on all `sessions_[i]->last_use_time()`
\* values": a scan that is skipped because of the bound misses no session,
\* although the scan uses a clock value read before it got mu_.
LowerBoundHolds ==
  \A s \in sessions_ : last_use_time_lower_bound_ <= last_use_time_[s]

\* No session stays idle much longer than keep_alive_interval before
\* RefreshExpiringSessions() picks it: what is added is the period of the
\* timer, and the three delays of the background thread from the clock value
\* of a scan that just spares the session to the end of the next scan.
KeptAlive ==
  \A s \in sessions_ :
    now - last_use_time_[s] < keep_alive_interval + Period + 3 * Slack
=============================================================================
