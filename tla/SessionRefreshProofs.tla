------------------------ MODULE SessionRefreshProofs ------------------------
(***************************************************************************)
(* Proofs about SessionRefresh for any sessions, intervals and delays, and *)
(* an unbounded clock.                                                     *)
(***************************************************************************)
EXTENDS SessionRefresh, TLAPS

\* How old the last-use time of an idle session can be, seen from the clock
\* value of the last scan: from the scan on, the session is younger than the
\* keep-alive interval was then; once the timer fires again, that scan is one
\* period and two delays back.
Horizon == IF pc = "scan" THEN scan_now - (2 * Slack + Period) ELSE scan_now

\* The inductive strengthening of KeptAlive: the deadlines the background
\* thread keeps, and the horizon that its scans guarantee.
Punctual ==
  /\ scan_now <= now
  /\ pc = "timer" => now <= due + Slack /\ due <= scan_now + Slack + Period
  /\ pc # "timer" => now <= scan_now + Slack
  /\ \A s \in sessions_ : last_use_time_[s] > Horizon - keep_alive_interval

RInv ==
  /\ TypeOK
  /\ LowerBoundHolds /\ last_use_time_lower_bound_ <= now
  /\ Punctual

LEMMA InitRInv == Init => RInv
  BY RefreshAssumption
     DEF Init, RInv, TypeOK, LowerBoundHolds, Punctual, Horizon

LEMMA TypeStep == ASSUME TypeOK, Next PROVE TypeOK'
<1>1. CASE RefreshExpiringSessions
  <2>1. \A t \in LeastUseTime(Expiring(scan_now - keep_alive_interval)) :
           t \in Int
    BY DEF TypeOK, LeastUseTime
  <2> QED
    BY <1>1, <2>1 DEF TypeOK, RefreshExpiringSessions, Expiring
<1>2. CASE ~RefreshExpiringSessions
  BY <1>2, RefreshAssumption
     DEF Next, TypeOK, Tick, Create, Allocate, Release, Discard, TimerFires,
         ScheduleBackgroundWork, workVars, UseTimeOnRelease
<1> QED
  BY <1>1, <1>2

\* A step of another thread adds only sessions that were used just now.
LEMMA ThreadStep ==
  ASSUME RInv, NEW s \in Sessions,
         Create(s) \/ Allocate(s) \/ Release(s) \/ Discard(s), TypeOK'
  PROVE  RInv'
<1>1. UNCHANGED <<now, workVars>>
  BY DEF Create, Allocate, Release, Discard
<1>2. \A u \in sessions_' :
        /\ u \in Sessions
        /\ \/ last_use_time_'[u] = now
           \/ u \in sessions_ /\ last_use_time_'[u] = last_use_time_[u]
  <2> USE DEF RInv, TypeOK
  <2>1. CASE Create(s)
    BY <2>1 DEF Create
  <2>2. CASE Release(s)
    BY <2>2 DEF Release, UseTimeOnRelease
  <2>3. CASE Allocate(s)
    BY <2>3 DEF Allocate
  <2>4. CASE Discard(s)
    BY <2>4 DEF Discard
  <2> QED
    BY <2>1, <2>2, <2>3, <2>4
<1>3. LowerBoundHolds' /\ last_use_time_lower_bound_' <= now'
  BY <1>1, <1>2 DEF RInv, TypeOK, LowerBoundHolds, workVars
<1>4. Horizon \in Int /\ now > Horizon - keep_alive_interval
  BY RefreshAssumption DEF RInv, TypeOK, Punctual, Horizon
<1>5. Horizon' = Horizon
  BY <1>1 DEF Horizon, workVars
<1>6. Punctual'
  BY <1>1, <1>2, <1>4, <1>5, RefreshAssumption
     DEF RInv, TypeOK, Punctual, workVars
<1> QED
  BY <1>3, <1>6 DEF RInv

\* The scan leaves no idle session with a last-use time below its limit.
LEMMA ScanStep == ASSUME RInv, RefreshExpiringSessions, TypeOK' PROVE RInv'
<1> DEFINE limit == scan_now - keep_alive_interval
<1> USE RefreshAssumption DEF RInv, TypeOK
<1>1. CASE last_use_time_lower_bound_ <= limit
  <2>1. PICK t \in LeastUseTime(Expiring(limit)) :
           last_use_time_lower_bound_' = t
    BY <1>1 DEF RefreshExpiringSessions
  <2>2. /\ t \in Int /\ t <= scan_now
        /\ \A s \in sessions_ \ Expiring(limit) : t <= last_use_time_[s]
    BY <2>1 DEF LeastUseTime
  <2>3. \A s \in sessions_ :
          /\ s \in Expiring(limit) => last_use_time_'[s] = now
          /\ s \notin Expiring(limit) =>
               last_use_time_'[s] = last_use_time_[s] /\ last_use_time_[s] > limit
    BY <1>1 DEF RefreshExpiringSessions, Expiring
  <2>4. UNCHANGED <<now, sessions_, due, scan_now>> /\ pc = "scan" /\ pc' = "calls"
    BY DEF RefreshExpiringSessions
  <2>5. LowerBoundHolds' /\ last_use_time_lower_bound_' <= now'
    BY <2>1, <2>2, <2>3, <2>4 DEF LowerBoundHolds, Punctual
  <2>6. Punctual'
    BY <2>3, <2>4 DEF Punctual, Horizon
  <2> QED
    BY <2>5, <2>6
<1>2. CASE ~(last_use_time_lower_bound_ <= limit)
  <2>1. UNCHANGED <<now, sessions_, last_use_time_, due, scan_now,
                    last_use_time_lower_bound_>> /\ pc = "scan" /\ pc' = "calls"
    BY <1>2 DEF RefreshExpiringSessions
  <2>2. \A s \in sessions_ : last_use_time_[s] > limit
    BY <1>2 DEF LowerBoundHolds
  <2> QED
    BY <2>1, <2>2 DEF LowerBoundHolds, Punctual, Horizon
<1> QED
  BY <1>1, <1>2

LEMMA NextRInv == RInv /\ [Next]_vars => RInv'
<1> SUFFICES ASSUME RInv, [Next]_vars PROVE RInv'
  OBVIOUS
<1>1. CASE UNCHANGED vars
  BY <1>1 DEF RInv, TypeOK, LowerBoundHolds, Punctual, Horizon, vars
<1>2. CASE Next
  <2>1. TypeOK'
    BY <1>2, TypeStep DEF RInv
  <2>2. CASE Tick
    BY <2>1, <2>2, RefreshAssumption
       DEF RInv, TypeOK, LowerBoundHolds, Punctual, Horizon, Tick, workVars
  <2>3. CASE \E s \in Sessions :
               Create(s) \/ Allocate(s) \/ Release(s) \/ Discard(s)
    BY <2>1, <2>3, ThreadStep
  <2>4. CASE TimerFires
    BY <2>1, <2>4, RefreshAssumption
       DEF RInv, TypeOK, LowerBoundHolds, Punctual, Horizon, TimerFires
  <2>5. CASE RefreshExpiringSessions
    BY <2>1, <2>5, ScanStep
  <2>6. CASE ScheduleBackgroundWork
    BY <2>1, <2>6, RefreshAssumption
       DEF RInv, TypeOK, LowerBoundHolds, Punctual, Horizon,
           ScheduleBackgroundWork
  <2> QED
    BY <1>2, <2>2, <2>3, <2>4, <2>5, <2>6 DEF Next
<1> QED
  BY <1>1, <1>2

\* RInv holds in every behaviour.
THEOREM RefreshInvariance == Spec => []RInv
  BY InitRInv, NextRInv, PTL DEF Spec

\* The bound that lets a scan be skipped is a lower bound at all times.
THEOREM LowerBoundCorrect == Spec => []LowerBoundHolds
<1>1. RInv => LowerBoundHolds
  BY DEF RInv
<1> QED
  BY <1>1, RefreshInvariance, PTL

\* Every idle session is picked for a refresh in time, for all intervals and
\* delays, and however threads take and release sessions meanwhile.
THEOREM KeptAliveCorrect == Spec => []KeptAlive
<1>1. RInv => KeptAlive
  BY RefreshAssumption DEF RInv, TypeOK, Punctual, Horizon, KeptAlive
<1> QED
  BY <1>1, RefreshInvariance, PTL
=============================================================================
