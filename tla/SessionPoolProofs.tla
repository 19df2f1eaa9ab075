------------------------- MODULE SessionPoolProofs -------------------------
(***************************************************************************)
(* Proofs about SessionPool, for any threads, channels, sessions, options  *)
(* and faults.                                                             *)
(***************************************************************************)
EXTENDS SessionPool, FiniteSetTheorems, FunctionTheorems, TLAPS

(***************************************************************************)
(* The vector of idle sessions: its elements and its distinctness.         *)
(***************************************************************************)
Elements(q) == {q[i] : i \in DOMAIN q}
Distinct(q) == \A i, j \in DOMAIN q : q[i] = q[j] => i = j

\* pop_back() removes one session, the last, from a vector of distinct ones.
LEMMA PopBackRemoves ==
  ASSUME NEW S, NEW q \in Seq(S), q # <<>>, Distinct(q)
  PROVE  LET s == q[Len(q)]
         IN  /\ s \in S /\ s \in Elements(q)
             /\ PopBack(q) \in Seq(S)
             /\ Distinct(PopBack(q))
             /\ Elements(PopBack(q)) = Elements(q) \ {s}
<1>1. /\ Len(q) \in Nat \ {0} /\ DOMAIN q = 1 .. Len(q)
      /\ \A i \in 1 .. Len(q) : q[i] \in S
  OBVIOUS
<1>2. /\ PopBack(q) \in Seq(S)
      /\ DOMAIN PopBack(q) = 1 .. (Len(q) - 1)
      /\ \A i \in 1 .. (Len(q) - 1) : PopBack(q)[i] = q[i]
  BY <1>1 DEF PopBack
<1>3. Distinct(PopBack(q))
  BY <1>1, <1>2 DEF Distinct
<1>4. Elements(PopBack(q)) = Elements(q) \ {q[Len(q)]}
  <2>1. ASSUME NEW x \in Elements(PopBack(q))
        PROVE  x \in Elements(q) \ {q[Len(q)]}
    BY <1>1, <1>2 DEF Elements, Distinct
  <2>2. ASSUME NEW x \in Elements(q) \ {q[Len(q)]}
        PROVE  x \in Elements(PopBack(q))
    <3>1. PICK i \in 1 .. Len(q) : x = q[i]
      BY <1>1 DEF Elements
    <3>2. i \in 1 .. (Len(q) - 1)
      BY <1>1, <3>1
    <3> QED
      BY <1>2, <3>1, <3>2 DEF Elements
  <2> QED
    BY <2>1, <2>2
<1>5. q[Len(q)] \in S /\ q[Len(q)] \in Elements(q)
  BY <1>1 DEF Elements
<1> QED
  BY <1>2, <1>3, <1>4, <1>5

\* push_back() adds one session.
LEMMA AppendAdds ==
  ASSUME NEW S, NEW q \in Seq(S), Distinct(q), NEW s \in S, s \notin Elements(q)
  PROVE  /\ Append(q, s) \in Seq(S)
         /\ Distinct(Append(q, s))
         /\ Elements(Append(q, s)) = Elements(q) \cup {s}
<1>1. /\ Len(q) \in Nat /\ DOMAIN q = 1 .. Len(q)
      /\ Append(q, s) \in Seq(S)
      /\ DOMAIN Append(q, s) = 1 .. (Len(q) + 1)
      /\ \A i \in 1 .. Len(q) : Append(q, s)[i] = q[i]
      /\ Append(q, s)[Len(q) + 1] = s
  OBVIOUS
<1>2. \A i \in 1 .. (Len(q) + 1) : i \in 1 .. Len(q) \/ i = Len(q) + 1
  BY <1>1
<1>3. Distinct(Append(q, s))
  BY <1>1, <1>2 DEF Distinct, Elements
<1>4. Elements(Append(q, s)) = Elements(q) \cup {s}
  <2>1. ASSUME NEW x \in Elements(Append(q, s))
        PROVE  x \in Elements(q) \cup {s}
    BY <1>1, <1>2 DEF Elements
  <2>2. \A i \in 1 .. Len(q) : i \in 1 .. (Len(q) + 1)
    BY <1>1
  <2>3. ASSUME NEW x \in Elements(q) \cup {s}
        PROVE  x \in Elements(Append(q, s))
    <3>1. Len(q) + 1 \in 1 .. (Len(q) + 1)
      BY <1>1
    <3>2. CASE x = s
      BY <1>1, <3>1, <3>2 DEF Elements
    <3>3. CASE x \in Elements(q)
      <4>1. PICK i \in 1 .. Len(q) : x = q[i]
        BY <1>1, <3>3 DEF Elements
      <4> QED
        BY <1>1, <2>2, <4>1 DEF Elements
    <3> QED
      BY <3>2, <3>3
  <2> QED
    BY <2>1, <2>3
<1> QED
  BY <1>1, <1>3, <1>4

\* shuffle() leaves a vector with the same sessions, all different.
LEMMA OrdersAreDistinct ==
  ASSUME NEW S, IsFiniteSet(S), NEW q \in Orders(S)
  PROVE  q \in Seq(S) /\ Distinct(q) /\ Elements(q) = S
<1> DEFINE n == Cardinality(S)
<1>1. n \in Nat
  BY FS_CardinalityType
<1>2. q \in [1 .. n -> S] /\ Elements(q) = S
  BY DEF Orders, Elements
<1>3. q \in Surjection(1 .. n, S)
  BY <1>2 DEF Surjection, Elements
<1>4. IsFiniteSet(1 .. n) /\ Cardinality(1 .. n) = n
  BY <1>1, FS_Interval
<1>5. q \in Injection(1 .. n, S)
  BY <1>3, <1>4, FS_SurjSameCardinalityImpliesInj
<1>6. Distinct(q)
  BY <1>2, <1>5 DEF Injection, IsInjective, Distinct
<1> QED
  BY <1>1, <1>2, <1>6

(***************************************************************************)
(* The holders of the threads.                                             *)
(***************************************************************************)
AllOf(f) == UNION {f[t] : t \in Threads}
Disjoint(f) == \A t, u \in Threads : t # u => f[t] \cap f[u] = {}

LEMMA HolderAdded ==
  ASSUME NEW f \in [Threads -> SUBSET Sessions], Disjoint(f),
         NEW t \in Threads, NEW s \in Sessions, s \notin AllOf(f),
         NEW g, g = [f EXCEPT ![t] = @ \cup {s}]
  PROVE  /\ g \in [Threads -> SUBSET Sessions]
         /\ Disjoint(g)
         /\ AllOf(g) = AllOf(f) \cup {s}
<1>1. /\ g \in [Threads -> SUBSET Sessions]
      /\ \A u \in Threads : g[u] = IF u = t THEN f[u] \cup {s} ELSE f[u]
  OBVIOUS
<1> QED
  BY <1>1 DEF Disjoint, AllOf

LEMMA HolderRemoved ==
  ASSUME NEW f \in [Threads -> SUBSET Sessions], Disjoint(f),
         NEW t \in Threads, NEW s \in Sessions, s \in f[t]
  PROVE  LET g == [f EXCEPT ![t] = @ \ {s}]
         IN  /\ g \in [Threads -> SUBSET Sessions]
             /\ Disjoint(g)
             /\ s \in AllOf(f)
             /\ AllOf(g) = AllOf(f) \ {s}
<1> DEFINE g == [f EXCEPT ![t] = @ \ {s}]
<1>1. /\ g \in [Threads -> SUBSET Sessions]
      /\ \A u \in Threads : g[u] = IF u = t THEN f[u] \ {s} ELSE f[u]
  OBVIOUS
<1> HIDE DEF g
<1>2. /\ Disjoint(g) /\ s \in AllOf(f) /\ AllOf(g) = AllOf(f) \ {s}
  BY <1>1 DEF Disjoint, AllOf
<1> QED
  BY <1>1, <1>2 DEF g

(***************************************************************************)
(* Where the sessions are, and how many.                                   *)
(***************************************************************************)
\* The part of Accounting about sessions.
SessionsCounted ==
  /\ total_sessions_ = Cardinality(Pooled)
  /\ \A c \in Channels :
       session_count[c] = Cardinality({s \in Pooled : channel[s] = c})

Placed == TypeOK /\ Ownership /\ SessionsCounted

\* Ownership in terms of the operators above, before and after a step.
LEMMA OwnershipParts ==
  /\ Idle = Elements(sessions_) /\ Held = AllOf(holds)
  /\ Dissociated = AllOf(dissociated)
  /\ Idle' = Elements(sessions_') /\ Held' = AllOf(holds')
  /\ Dissociated' = AllOf(dissociated')
  /\ Ownership <=>
       /\ Distinct(sessions_) /\ Disjoint(holds) /\ Disjoint(dissociated)
       /\ Idle \cap (Held \cup Dissociated) = {} /\ Held \cap Dissociated = {}
       /\ is_bad \cap Idle = {}
  /\ Ownership' <=>
       /\ Distinct(sessions_') /\ Disjoint(holds') /\ Disjoint(dissociated')
       /\ Idle' \cap (Held' \cup Dissociated') = {}
       /\ Held' \cap Dissociated' = {}
       /\ is_bad' \cap Idle' = {}
<1>1. /\ Idle = Elements(sessions_) /\ Held = AllOf(holds)
      /\ Dissociated = AllOf(dissociated)
      /\ Idle' = Elements(sessions_') /\ Held' = AllOf(holds')
      /\ Dissociated' = AllOf(dissociated')
  BY DEF Idle, Held, Dissociated, Elements, AllOf
<1>2. Ownership <=>
       /\ Distinct(sessions_) /\ Disjoint(holds) /\ Disjoint(dissociated)
       /\ Idle \cap (Held \cup Dissociated) = {} /\ Held \cap Dissociated = {}
       /\ is_bad \cap Idle = {}
  BY DEF Ownership, Distinct, Disjoint
<1>3. Ownership' <=>
       /\ Distinct(sessions_') /\ Disjoint(holds') /\ Disjoint(dissociated')
       /\ Idle' \cap (Held' \cup Dissociated') = {}
       /\ Held' \cap Dissociated' = {}
       /\ is_bad' \cap Idle' = {}
  BY DEF Ownership, Distinct, Disjoint
<1> QED
  BY <1>1, <1>2, <1>3

LEMMA PooledIsFinite ==
  ASSUME TypeOK
  PROVE  /\ Pooled \subseteq Sessions
         /\ IsFiniteSet(Pooled)
         /\ \A c : IsFiniteSet({s \in Pooled : channel[s] = c})
<1>1. Pooled \subseteq Sessions
  BY DEF TypeOK, Pooled, Idle, Held
<1> QED
  BY <1>1, FS_Subset, ConstantsAssumption

\* Sessions that only move between the vector and the holders are still
\* counted.
LEMMA KeepSessions ==
  ASSUME SessionsCounted, Pooled' = Pooled,
         UNCHANGED <<total_sessions_, session_count, channel>>
  PROVE  SessionsCounted'
  BY DEF SessionsCounted

LEMMA ForgetCounted ==
  ASSUME TypeOK, SessionsCounted, NEW s \in Pooled, ForgetSession(s),
         Pooled' = Pooled \ {s}, UNCHANGED channel
  PROVE  /\ total_sessions_' \in Int /\ session_count' \in [Channels -> Int]
         /\ SessionsCounted'
<1> DEFINE On(c) == {x \in Pooled : channel[x] = c}
<1>1. s \in Sessions /\ channel[s] \in Channels
  BY PooledIsFinite DEF TypeOK
<1>2. total_sessions_' = Cardinality(Pooled \ {s})
  BY PooledIsFinite, FS_RemoveElement DEF SessionsCounted, ForgetSession
<1>3. /\ session_count' \in [Channels -> Int]
      /\ \A c \in Channels :
           session_count'[c] = IF c = channel[s] THEN session_count[c] - 1
                                                 ELSE session_count[c]
  BY <1>1 DEF TypeOK, ForgetSession
<1>4. ASSUME NEW c \in Channels
      PROVE  session_count'[c] = Cardinality({x \in Pooled' : channel'[x] = c})
  <2>1. {x \in Pooled' : channel'[x] = c} = On(c) \ {s}
    OBVIOUS
  <2>2. IsFiniteSet(On(c)) /\ (s \in On(c) <=> c = channel[s])
    BY PooledIsFinite
  <2>3. Cardinality(On(c) \ {s}) =
          IF c = channel[s] THEN Cardinality(On(c)) - 1 ELSE Cardinality(On(c))
    BY <2>2, FS_RemoveElement
  <2> QED
    BY <1>3, <2>1, <2>3 DEF SessionsCounted
<1> QED
  BY <1>2, <1>3, <1>4 DEF SessionsCounted, ForgetSession, TypeOK

LEMMA TakeStep ==
  ASSUME Placed, NEW t \in Threads, NEW dissociate \in BOOLEAN,
         NEW waiters \in Int, TakeSession(t, dissociate, waiters),
         UNCHANGED <<create_calls_in_progress_, notify, return_status_ok>>
  PROVE  Placed'
<1> DEFINE s == sessions_[Len(sessions_)]
<1>1. /\ sessions_ \in Seq(Sessions) /\ sessions_ # <<>> /\ Distinct(sessions_)
      /\ sessions_' = PopBack(sessions_)
  BY OwnershipParts DEF Placed, TypeOK, TakeSession
<1>2. /\ s \in Sessions /\ s \in Idle
      /\ sessions_' \in Seq(Sessions)
      /\ Distinct(sessions_')
      /\ Idle' = Idle \ {s}
  BY <1>1, PopBackRemoves, OwnershipParts
<1>3. /\ holds \in [Threads -> SUBSET Sessions] /\ Disjoint(holds)
      /\ dissociated \in [Threads -> SUBSET Sessions] /\ Disjoint(dissociated)
      /\ Held \cap Dissociated = {} /\ Idle \cap (Held \cup Dissociated) = {}
      /\ s \notin Held /\ s \notin Dissociated /\ is_bad \cap Idle = {}
      /\ s \notin AllOf(holds) /\ s \notin AllOf(dissociated)
  BY <1>2, OwnershipParts DEF Placed, TypeOK
<1>4. UNCHANGED <<channel, is_bad>>
  BY DEF TakeSession
<1> HIDE DEF s
<1>5. CASE dissociate
  <2>1. /\ dissociated' = [dissociated EXCEPT ![t] = @ \cup {s}]
        /\ holds' = holds /\ ForgetSession(s)
    BY <1>5 DEF TakeSession, s
  <2>2. /\ dissociated' \in [Threads -> SUBSET Sessions]
        /\ Disjoint(dissociated') /\ Dissociated' = Dissociated \cup {s}
        /\ Held' = Held
    <3>1. /\ dissociated' \in [Threads -> SUBSET Sessions]
          /\ Disjoint(dissociated')
          /\ AllOf(dissociated') = AllOf(dissociated) \cup {s}
      BY <1>2, <1>3, <2>1, HolderAdded
    <3> QED
      BY <2>1, <3>1, OwnershipParts
  <2>3. Ownership'
    BY <1>2, <1>3, <1>4, <2>1, <2>2, OwnershipParts
  <2>4. s \in Pooled /\ Pooled' = Pooled \ {s}
    BY <1>2, <1>3, <2>2 DEF Pooled
  <2>5. SessionsCounted' /\ total_sessions_' \in Int
          /\ session_count' \in [Channels -> Int]
    BY <1>4, <2>1, <2>4, ForgetCounted DEF Placed
  <2>6. TypeOK'
    BY <1>2, <2>1, <2>2, <2>5 DEF Placed, TypeOK, TakeSession, planVars
  <2> QED
    BY <2>3, <2>5, <2>6 DEF Placed
<1>6. CASE ~dissociate
  <2>1. /\ holds' = [holds EXCEPT ![t] = @ \cup {s}]
        /\ UNCHANGED <<total_sessions_, session_count, dissociated>>
    BY <1>6 DEF TakeSession, s
  <2>2. /\ holds' \in [Threads -> SUBSET Sessions]
        /\ Disjoint(holds') /\ Held' = Held \cup {s}
        /\ Dissociated' = Dissociated
    <3>1. /\ holds' \in [Threads -> SUBSET Sessions]
          /\ Disjoint(holds')
          /\ AllOf(holds') = AllOf(holds) \cup {s}
      BY <1>2, <1>3, <2>1, HolderAdded
    <3> QED
      BY <2>1, <3>1, OwnershipParts
  <2>3. Ownership'
    BY <1>2, <1>3, <1>4, <2>1, <2>2, OwnershipParts
  <2>4. Pooled' = Pooled
    BY <1>2, <1>3, <2>2 DEF Pooled
  <2>5. SessionsCounted'
    BY <1>4, <2>1, <2>4, KeepSessions DEF Placed
  <2>6. TypeOK'
    BY <1>2, <2>1, <2>2 DEF Placed, TypeOK, TakeSession, planVars
  <2> QED
    BY <2>3, <2>5, <2>6 DEF Placed
<1> QED
  BY <1>5, <1>6

\* New sessions are counted on their channel and in the pool.
LEMMA CreateCounted ==
  ASSUME Placed, NEW c \in Channels, NEW new \in SUBSET Unused,
         channel' = [s \in Sessions |-> IF s \in new THEN c ELSE channel[s]],
         session_count' = [session_count EXCEPT ![c] = @ + Cardinality(new)],
         total_sessions_' = total_sessions_ + Cardinality(new),
         Pooled' = Pooled \cup new
  PROVE  /\ total_sessions_' \in Int /\ session_count' \in [Channels -> Int]
         /\ SessionsCounted'
<1> DEFINE On(d) == {s \in Pooled : channel[s] = d}
           OnNow(d) == {s \in Pooled' : channel'[s] = d}
<1>1. /\ new \subseteq Sessions /\ IsFiniteSet(new) /\ Cardinality(new) \in Nat
      /\ new \cap Pooled = {}
  BY FS_Subset, FS_CardinalityType, ConstantsAssumption
     DEF Unused, Pooled
<1>2. Pooled \subseteq Sessions /\ IsFiniteSet(Pooled)
        /\ \A d : IsFiniteSet(On(d))
  BY PooledIsFinite DEF Placed
<1>3. \A s \in Sessions : channel'[s] = IF s \in new THEN c ELSE channel[s]
  OBVIOUS
<1>4. /\ session_count' \in [Channels -> Int]
      /\ \A d \in Channels :
           session_count'[d] = IF d = c THEN session_count[d] + Cardinality(new)
                                        ELSE session_count[d]
  BY <1>1 DEF Placed, TypeOK
<1>5. total_sessions_' = Cardinality(Pooled \cup new)
  <2>1. Cardinality(Pooled \cup new) =
          Cardinality(Pooled) + Cardinality(new) - Cardinality(Pooled \cap new)
    BY <1>1, <1>2, FS_Union
  <2>2. Cardinality(Pooled \cap new) = 0
    BY <1>1, FS_EmptySet
  <2> QED
    BY <1>1, <1>2, <2>1, <2>2, FS_CardinalityType DEF Placed, SessionsCounted
<1>6. ASSUME NEW d \in Channels
      PROVE  session_count'[d] = Cardinality(OnNow(d))
  <2>1. CASE d # c
    <3>1. OnNow(d) = On(d)
      BY <1>1, <1>2, <1>3, <2>1
    <3> QED
      BY <1>4, <2>1, <3>1 DEF Placed, SessionsCounted
  <2>2. CASE d = c
    <3>1. OnNow(d) = On(d) \cup new
      BY <1>1, <1>2, <1>3, <2>2
    <3>2. Cardinality(On(d) \cup new) =
            Cardinality(On(d)) + Cardinality(new) - Cardinality(On(d) \cap new)
      BY <1>1, <1>2, FS_Union
    <3>3. Cardinality(On(d) \cap new) = 0
      <4>1. On(d) \cap new = {}
        BY <1>1
      <4> QED
        BY <4>1, FS_EmptySet
    <3>4. Cardinality(On(d)) \in Nat /\ session_count[d] = Cardinality(On(d))
      BY <1>2, FS_CardinalityType DEF Placed, SessionsCounted
    <3> HIDE DEF On, OnNow
    <3> QED
      BY <1>1, <1>4, <2>2, <3>1, <3>2, <3>3, <3>4
  <2> QED
    BY <2>1, <2>2
<1>7. SessionsCounted'
  BY <1>5, <1>6 DEF SessionsCounted
<1>8. total_sessions_' \in Int
  BY <1>1 DEF Placed, TypeOK
<1> QED
  BY <1>4, <1>7, <1>8

LEMMA CreateSucceedsStep ==
  ASSUME Placed, NEW p \in Procs, NEW c \in Channels, CreateSucceeds(p, c)
  PROVE  Placed'
<1>1. PICK new \in SUBSET Unused :
        /\ channel' = [s \in Sessions |-> IF s \in new THEN c ELSE channel[s]]
        /\ is_bad' = is_bad \ new
        /\ session_count' = [session_count EXCEPT ![c] = @ + Cardinality(new)]
        /\ total_sessions_' = total_sessions_ + Cardinality(new)
        /\ sessions_' \in Orders(Idle \cup new)
  BY DEF CreateSucceeds
<1>2. UNCHANGED <<holds, dissociated>>
  BY DEF CreateSucceeds
<1>3. Idle \cup new \subseteq Sessions
  BY DEF Placed, TypeOK, Idle, Unused
<1>4. /\ sessions_' \in Seq(Idle \cup new) /\ Distinct(sessions_')
      /\ Idle' = Idle \cup new
  <2>1. IsFiniteSet(Idle \cup new)
    BY <1>3, FS_Subset, ConstantsAssumption
  <2> QED
    BY <1>1, <2>1, OrdersAreDistinct, OwnershipParts
<1>5. Held' = Held /\ Dissociated' = Dissociated
  BY <1>2, OwnershipParts
<1>6. new \cap (Idle \cup Held \cup Dissociated) = {}
  BY DEF Unused
<1>7. Ownership'
  BY <1>1, <1>2, <1>4, <1>5, <1>6, OwnershipParts DEF Placed
<1>8. /\ total_sessions_' \in Int /\ session_count' \in [Channels -> Int]
      /\ SessionsCounted'
  <2>1. Pooled' = Pooled \cup new
    BY <1>4, <1>5 DEF Pooled
  <2> QED
    BY <1>1, <2>1, CreateCounted
<1>9. TypeOK'
  <2>1. sessions_' \in Seq(Sessions)
    BY <1>3, <1>4
  <2>2. /\ channel' \in [Sessions -> Channels] /\ is_bad' \in SUBSET Sessions
    BY <1>1 DEF Placed, TypeOK
  <2>3. /\ create_counts' \in [Procs -> [Channels -> Nat]]
        /\ notify' \in [Procs -> {"none", "one", "all"}]
        /\ create_calls_in_progress_' \in Int
    BY DEF Placed, TypeOK, CreateSucceeds
  <2> QED
    BY <1>8, <2>1, <2>2, <2>3 DEF Placed, TypeOK, CreateSucceeds, waitVars
<1> QED
  BY <1>7, <1>8, <1>9 DEF Placed

LEMMA ReleaseStep ==
  ASSUME Placed, NEW t \in Threads, NEW s \in Sessions, Release(t, s)
  PROVE  Placed'
<1>1. /\ sessions_ \in Seq(Sessions) /\ Distinct(sessions_)
      /\ holds \in [Threads -> SUBSET Sessions] /\ Disjoint(holds)
      /\ Disjoint(dissociated)
      /\ Held \cap Dissociated = {} /\ Idle \cap (Held \cup Dissociated) = {}
      /\ is_bad \cap Idle = {}
  BY OwnershipParts DEF Placed, TypeOK
<1>2. /\ holds' \in [Threads -> SUBSET Sessions] /\ Disjoint(holds')
      /\ s \in Held /\ Held' = Held \ {s}
  <2>1. s \in holds[t] /\ holds' = [holds EXCEPT ![t] = @ \ {s}]
    BY DEF Release
  <2>2. /\ holds' \in [Threads -> SUBSET Sessions] /\ Disjoint(holds')
        /\ s \in AllOf(holds) /\ AllOf(holds') = AllOf(holds) \ {s}
    BY <1>1, <2>1, HolderRemoved
  <2> QED
    BY <2>2, OwnershipParts
<1>3. UNCHANGED <<channel, is_bad, dissociated>> /\ Dissociated' = Dissociated
  BY DEF Release, Dissociated
<1>4. s \notin Idle /\ s \notin Elements(sessions_)
  BY <1>1, <1>2, OwnershipParts
<1>5. CASE IsBad(s)
  <2>1. UNCHANGED <<sessions_, notify>> /\ ForgetSession(s) /\ Idle' = Idle
    BY <1>5 DEF Release, Idle
  <2>2. Ownership'
    BY <1>1, <1>2, <1>3, <2>1, OwnershipParts
  <2>3. s \in Pooled /\ Pooled' = Pooled \ {s}
    BY <1>2, <1>4, <2>1 DEF Pooled
  <2>4. /\ SessionsCounted' /\ total_sessions_' \in Int
        /\ session_count' \in [Channels -> Int]
    BY <1>3, <2>1, <2>3, ForgetCounted DEF Placed
  <2>5. TypeOK'
    BY <1>2, <2>1, <2>4 DEF Placed, TypeOK, Release, waitVars, planVars
  <2> QED
    BY <2>2, <2>4, <2>5 DEF Placed
<1>6. CASE ~IsBad(s)
  <2>1. /\ sessions_' = Append(sessions_, s)
        /\ notify' = [notify EXCEPT ![t] = NotifyOneIfWaiting]
        /\ UNCHANGED <<total_sessions_, session_count>>
    BY <1>6 DEF Release
  <2>2. /\ sessions_' \in Seq(Sessions) /\ Distinct(sessions_')
        /\ Idle' = Idle \cup {s}
    BY <1>1, <1>4, <2>1, AppendAdds, OwnershipParts
  <2>3. s \notin is_bad
    BY <1>6 DEF IsBad
  <2>4. Ownership'
    BY <1>1, <1>2, <1>3, <2>2, <2>3, OwnershipParts
  <2>5. Pooled' = Pooled
    BY <1>2, <2>2 DEF Pooled
  <2>6. SessionsCounted'
    BY <1>3, <2>1, <2>5, KeepSessions DEF Placed
  <2>7. TypeOK'
    <3>1. notify' \in [Procs -> {"none", "one", "all"}]
      BY <2>1 DEF Placed, TypeOK, NotifyOneIfWaiting, Procs
    <3> QED
      BY <1>2, <2>1, <2>2, <3>1 DEF Placed, TypeOK, Release, waitVars, planVars
  <2> QED
    BY <2>4, <2>6, <2>7 DEF Placed
<1> QED
  BY <1>5, <1>6

LEMMA DropStep ==
  ASSUME Placed, NEW t \in Threads, NEW s \in Sessions, DropDissociated(t, s)
  PROVE  Placed'
<1>1. /\ s \in dissociated[t]
      /\ dissociated' = [dissociated EXCEPT ![t] = @ \ {s}]
      /\ dissociated \in [Threads -> SUBSET Sessions] /\ Disjoint(dissociated)
  BY OwnershipParts DEF DropDissociated, Placed, TypeOK
<1>2. /\ dissociated' \in [Threads -> SUBSET Sessions]
      /\ Disjoint(dissociated')
      /\ AllOf(dissociated') = AllOf(dissociated) \ {s}
  BY <1>1, HolderRemoved
<1>3. UNCHANGED <<sizeVars, channel, is_bad, holds>>
  BY DEF DropDissociated
<1>4. Idle' = Idle /\ Held' = Held /\ Pooled' = Pooled
  BY <1>3 DEF Idle, Held, Pooled, sizeVars
<1>5. Ownership'
  BY <1>2, <1>3, <1>4, OwnershipParts DEF Placed, sizeVars
<1>6. SessionsCounted'
  BY <1>3, <1>4, KeepSessions DEF Placed, sizeVars
<1>7. TypeOK'
  BY <1>2 DEF Placed, TypeOK, DropDissociated, sizeVars, waitVars, planVars
<1> QED
  BY <1>5, <1>6, <1>7 DEF Placed

LEMMA SetBadStep ==
  ASSUME Placed, NEW t \in Threads, NEW s \in Sessions, SetBad(t, s)
  PROVE  Placed'
<1>1. /\ is_bad' = is_bad \cup {s}
      /\ UNCHANGED <<sizeVars, channel, holds, dissociated>>
  BY DEF SetBad
<1>2. /\ Idle' = Idle /\ Held' = Held /\ Dissociated' = Dissociated
      /\ Pooled' = Pooled
  BY <1>1 DEF Idle, Held, Dissociated, Pooled, sizeVars
<1>3. s \in Held \cup Dissociated
  BY DEF SetBad, Held, Dissociated
<1>4. Ownership'
  BY <1>1, <1>2, <1>3, OwnershipParts DEF Placed, sizeVars
<1>5. SessionsCounted'
  BY <1>1, <1>2, KeepSessions DEF Placed, sizeVars
<1>6. TypeOK'
  BY DEF Placed, TypeOK, SetBad, sizeVars, waitVars, planVars
<1> QED
  BY <1>4, <1>5, <1>6 DEF Placed

\* A step that moves no session only has to keep the types.
LEMMA NoMove ==
  ASSUME Placed, UNCHANGED <<sizeVars, holderVars>>, TypeOK'
  PROVE  Placed'
<1>1. UNCHANGED <<sessions_, total_sessions_, session_count, channel, is_bad,
                  holds, dissociated>>
  BY DEF sizeVars, holderVars
<1>2. /\ Idle' = Idle /\ Held' = Held /\ Dissociated' = Dissociated
      /\ Pooled' = Pooled
  BY <1>1 DEF Idle, Held, Dissociated, Pooled
<1>3. Ownership'
  BY <1>1, <1>2, OwnershipParts DEF Placed
<1>4. SessionsCounted'
  BY <1>1, <1>2, KeepSessions DEF Placed
<1> QED
  BY <1>3, <1>4 DEF Placed

(***************************************************************************)
(* Who holds mu_, who creates sessions, and who waits.                     *)
(***************************************************************************)
Quiet(p) == \A c \in Channels : ~(create_counts[p][c] > 0)

\* A process is planning exactly while it holds mu_; a thread has calls in
\* progress only in Grow(), while the pool can have left its behind; during
\* Initialize() there is nobody else; and a plan is made only when nobody has
\* calls in progress.
Control ==
  /\ \A p \in Procs : pc[p] \in {"grow", "grow_async"} <=> p = mu_
  /\ \A t \in Threads : pc[t] \notin {"init", "grow_async"}
  /\ \A t \in Threads : pc[t] \in {"out"} \cup Waiting => Quiet(t)
  /\ pc[Pool] = "init" => Quiet(Pool)
  /\ pc[Pool] \in {"init", "grow", "creating"} =>
       \A t \in Threads : pc[t] = "out"
  /\ mu_ # Free => \A p \in Procs : p # mu_ => Quiet(p)
  /\ \A p, q \in Procs : p = q \/ Quiet(p) \/ Quiet(q)

CallsCounted == create_calls_in_progress_ = Cardinality(CallsInProgress)

WaitersCounted ==
  num_waiting_for_session_ = Cardinality({t \in Threads : pc[t] \in Waiting})

PoolInv == Placed /\ Control /\ CallsCounted /\ WaitersCounted

LEMMA ProcsFacts ==
  /\ IsFiniteSet(Procs) /\ Threads \subseteq Procs /\ Pool \in Procs
  /\ \A p \in Procs : p # Free /\ (p # Pool => p \in Threads)
  /\ Pool \notin Threads
<1>1. IsFiniteSet(Procs)
  BY FS_AddElement, ConstantsAssumption DEF Procs
<1> QED
  BY <1>1, ConstantsAssumption DEF Procs, Free

LEMMA CallsAreFinite ==
  IsFiniteSet(CallsInProgress) /\ Cardinality(CallsInProgress) \in Nat
<1>1. IsFiniteSet(Procs \X Channels)
  BY ProcsFacts, ConstantsAssumption, FS_Product
<1>2. CallsInProgress \in SUBSET (Procs \X Channels)
  BY DEF CallsInProgress
<1> QED
  BY <1>1, <1>2, FS_Subset, FS_CardinalityType

\* create_calls_in_progress_ is zero only when no process has calls.
LEMMA NotCreating ==
  ASSUME TypeOK, CallsCounted, mu_ = Free, ~Creating
  PROVE  \A p \in Procs : Quiet(p)
<1>1. Cardinality(CallsInProgress) = 0
  BY CallsAreFinite DEF CallsCounted, Creating
<1>2. CallsInProgress = {}
  BY <1>1, CallsAreFinite, FS_EmptySet
<1>3. ASSUME NEW p \in Procs, NEW c \in Channels, create_counts[p][c] > 0
      PROVE  FALSE
  <2>1. <<p, c>> \in CallsInProgress
    BY <1>3, ProcsFacts DEF CallsInProgress
  <2> QED
    BY <1>2, <2>1
<1> QED
  BY <1>3 DEF Quiet

\* The threads in Wait(), with and without thread t.
LEMMA WaitersWithout ==
  ASSUME NEW f, NEW t \in Threads
  PROVE  LET others == Cardinality({u \in Threads \ {t} : f[u] \in Waiting})
         IN  /\ others \in Nat
             /\ Cardinality({u \in Threads : f[u] \in Waiting}) =
                  (IF f[t] \in Waiting THEN others + 1 ELSE others)
<1> DEFINE S == {u \in Threads \ {t} : f[u] \in Waiting}
           All == {u \in Threads : f[u] \in Waiting}
<1>1. IsFiniteSet(S) /\ Cardinality(S) \in Nat
  <2>1. S \in SUBSET Threads
    OBVIOUS
  <2> QED
    BY <2>1, FS_Subset, FS_CardinalityType, ConstantsAssumption
<1>2. CASE f[t] \in Waiting
  <2>1. All = S \cup {t} /\ t \notin S
    BY <1>2
  <2>2. Cardinality(S \cup {t}) = Cardinality(S) + 1
    BY <1>1, <2>1, FS_AddElement
  <2> QED
    BY <1>1, <1>2, <2>1, <2>2
<1>3. CASE f[t] \notin Waiting
  <2>1. All = S
    BY <1>3
  <2> QED
    BY <1>1, <1>3, <2>1
<1> QED
  BY <1>2, <1>3

LEMMA OptionsType == max_pool_size_ \in Int /\ min_sessions \in Int
<1>1. NumChannels \in Nat
  BY FS_CardinalityType, ConstantsAssumption DEF NumChannels
<1>2. max_sessions_per_channel \in Int
  BY ConstantsAssumption DEF max_sessions_per_channel
<1>3. max_pool_size_ \in Int
  BY <1>1, <1>2 DEF max_pool_size_
<1> QED
  BY <1>3, ConstantsAssumption DEF min_sessions

(***************************************************************************)
(* Steps of the loop in Allocate().                                        *)
(***************************************************************************)
\* What the body of the loop does with the process state: the thread leaves,
\* waits, or starts to grow the pool.
LEMMA LoopEffect ==
  ASSUME NEW t \in Threads, NEW dissociate \in BOOLEAN, NEW waiters,
         AllocateLoop(t, dissociate, waiters), mu_ = Free
  PROVE  \E to \in {"out", "wait_session", "wait_create", "grow"} :
           /\ pc' = [pc EXCEPT ![t] = to]
           /\ mu_' = IF to = "grow" THEN t ELSE Free
           /\ num_waiting_for_session_' =
                IF to \in Waiting THEN waiters + 1 ELSE waiters
           /\ to = "grow" => ~Creating
           /\ UNCHANGED <<create_counts, create_calls_in_progress_>>
<1> USE DEF AllocateLoop, Waiting
<1>1. CASE TakeSession(t, dissociate, waiters)
  BY <1>1 DEF TakeSession, planVars
<1>2. CASE FailExhausted(t, waiters)
  BY <1>2 DEF FailExhausted, planVars
<1>3. CASE Wait(t, dissociate, waiters)
  BY <1>3 DEF Wait, planVars
<1>4. CASE GrowForCaller(t, dissociate, waiters)
  BY <1>4 DEF GrowForCaller, StartGrow
<1> QED
  BY <1>1, <1>2, <1>3, <1>4

LEMMA LoopPlaced ==
  ASSUME Placed, NEW t \in Threads, NEW dissociate \in BOOLEAN,
         NEW waiters \in Int, AllocateLoop(t, dissociate, waiters)
  PROVE  Placed'
<1>1. UNCHANGED <<create_calls_in_progress_, notify, return_status_ok>>
  BY DEF AllocateLoop
<1>2. CASE TakeSession(t, dissociate, waiters)
  BY <1>1, <1>2, TakeStep
<1>3. CASE FailExhausted(t, waiters)
  <2>1. UNCHANGED <<sizeVars, holderVars>>
    BY <1>3 DEF FailExhausted
  <2>2. TypeOK'
    BY <1>1, <1>3
       DEF Placed, TypeOK, FailExhausted, sizeVars, holderVars, planVars
  <2> QED
    BY <2>1, <2>2, NoMove
<1>4. CASE Wait(t, dissociate, waiters)
  <2>1. UNCHANGED <<sizeVars, holderVars>>
    BY <1>4 DEF Wait
  <2>2. TypeOK'
    <3>1. pc' \in [Procs -> {"out", "grow", "creating", "init", "grow_async"}
                              \cup Waiting]
      BY <1>4 DEF Placed, TypeOK, Wait, Waiting
    <3>2. /\ cond_' \in SUBSET Threads /\ num_waiting_for_session_' \in Int
          /\ dissociate_from_pool' \in [Threads -> BOOLEAN]
      BY <1>4 DEF Placed, TypeOK, Wait
    <3>3. UNCHANGED <<planVars, mu_>>
      BY <1>4 DEF Wait
    <3> QED
      BY <1>1, <2>1, <3>1, <3>2, <3>3
         DEF Placed, TypeOK, sizeVars, holderVars, planVars
  <2> QED
    BY <2>1, <2>2, NoMove
<1>5. CASE GrowForCaller(t, dissociate, waiters)
  <2>1. UNCHANGED <<sizeVars, holderVars>>
    BY <1>5 DEF GrowForCaller
  <2>2. TargetTotalSessions(min_sessions + 1) \in Int
    BY OptionsType DEF Placed, TypeOK, TargetTotalSessions
  <2>3. TypeOK'
    BY <1>1, <1>5, <2>2, ProcsFacts
       DEF Placed, TypeOK, GrowForCaller, StartGrow, sizeVars, holderVars
  <2> QED
    BY <2>1, <2>3, NoMove
<1> QED
  BY <1>2, <1>3, <1>4, <1>5 DEF AllocateLoop

\* A process that starts to plan, having no calls, changes no call that is
\* counted.
LEMMA KeepCalls ==
  ASSUME CallsCounted, UNCHANGED <<create_counts, create_calls_in_progress_>>,
         mu_ = Free, mu_' \in Procs \cup {Free}, mu_' # Free => Quiet(mu_')
  PROVE  CallsCounted'
<1>1. CallsInProgress' = CallsInProgress
  BY ProcsFacts DEF CallsInProgress, Quiet
<1> QED
  BY <1>1 DEF CallsCounted

LEMMA LoopStep ==
  ASSUME PoolInv, NEW t \in Threads, NEW dissociate \in BOOLEAN, NEW waiters,
         waiters = Cardinality({u \in Threads \ {t} : pc[u] \in Waiting}),
         AllocateLoop(t, dissociate, waiters), mu_ = Free, Quiet(t),
         pc[Pool] \notin {"init", "grow", "creating"}
  PROVE  PoolInv'
<1>1. waiters \in Nat
  BY WaitersWithout
<1>2. Placed'
  BY <1>1, LoopPlaced DEF PoolInv
<1>3. PICK to \in {"out", "wait_session", "wait_create", "grow"} :
        /\ pc' = [pc EXCEPT ![t] = to]
        /\ mu_' = IF to = "grow" THEN t ELSE Free
        /\ num_waiting_for_session_' =
             IF to \in Waiting THEN waiters + 1 ELSE waiters
        /\ to = "grow" => ~Creating
        /\ UNCHANGED <<create_counts, create_calls_in_progress_>>
  BY LoopEffect
<1>4. /\ pc \in [Procs -> {"out", "grow", "creating", "init", "grow_async"}
                            \cup Waiting]
      /\ \A p \in Procs : pc'[p] = IF p = t THEN to ELSE pc[p]
  BY <1>3, ProcsFacts DEF PoolInv, Placed, TypeOK
<1>5. CallsCounted'
  BY <1>3, KeepCalls, ProcsFacts DEF PoolInv
<1>6. WaitersCounted'
  <2>1. {u \in Threads \ {t} : pc'[u] \in Waiting}
          = {u \in Threads \ {t} : pc[u] \in Waiting}
    BY <1>4, ProcsFacts
  <2>2. Cardinality({u \in Threads : pc'[u] \in Waiting}) =
          IF pc'[t] \in Waiting THEN waiters + 1 ELSE waiters
    BY <2>1, WaitersWithout
  <2> QED
    BY <1>3, <1>4, <2>2, ProcsFacts DEF WaitersCounted
<1>7. \A p \in Procs : Quiet(p)' <=> Quiet(p)
  BY <1>3 DEF Quiet
<1>8. mu_' # Free => \A p \in Procs : Quiet(p)
  BY <1>3, NotCreating DEF PoolInv, Placed
<1>9. Control'
  <2>1. (\A p \in Procs : pc[p] \in {"grow", "grow_async"} <=> p = mu_)'
    BY <1>3, <1>4, ProcsFacts DEF PoolInv, Control, Waiting
  <2>2. (\A u \in Threads : pc[u] \notin {"init", "grow_async"})'
    BY <1>3, <1>4, ProcsFacts DEF PoolInv, Control
  <2>3. (\A u \in Threads : pc[u] \in {"out"} \cup Waiting => Quiet(u))'
    BY <1>4, <1>7, ProcsFacts DEF PoolInv, Control
  <2>4. pc'[Pool] = pc[Pool]
    BY <1>4, ProcsFacts
  <2>5. (\A p, q \in Procs : p = q \/ Quiet(p) \/ Quiet(q))'
    BY <1>7 DEF PoolInv, Control
  <2>6. (mu_ # Free => \A p \in Procs : p # mu_ => Quiet(p))'
    BY <1>7, <1>8
  <2> QED
    BY <2>1, <2>2, <2>3, <2>4, <2>5, <2>6 DEF Control
<1> QED
  BY <1>2, <1>5, <1>6, <1>9 DEF PoolInv

LEMMA AllocateStep ==
  ASSUME PoolInv, NEW t \in Threads, NEW dissociate \in BOOLEAN,
         Allocate(t, dissociate)
  PROVE  PoolInv'
<1>1. /\ mu_ = Free /\ pc[t] = "out" /\ pc[Pool] \notin {"init", "creating"}
      /\ AllocateLoop(t, dissociate, num_waiting_for_session_)
  BY DEF Allocate
<1>2. Quiet(t) /\ pc[Pool] # "grow"
  BY <1>1, ProcsFacts DEF PoolInv, Control
<1>3. num_waiting_for_session_ =
        Cardinality({u \in Threads \ {t} : pc[u] \in Waiting})
  BY <1>1, WaitersWithout DEF PoolInv, WaitersCounted, Waiting
<1> QED
  BY <1>1, <1>2, <1>3, LoopStep

\* The part of PoolInv that a step keeps when it leaves the processes alone.
LEMMA KeepControl ==
  ASSUME PoolInv, UNCHANGED <<mu_, pc, create_counts, create_calls_in_progress_,
                              num_waiting_for_session_>>
  PROVE  (Control /\ CallsCounted /\ WaitersCounted)'
<1>1. \A p \in Procs : Quiet(p)' <=> Quiet(p)
  BY DEF Quiet
<1>2. Control'
  BY <1>1, ProcsFacts DEF PoolInv, Control
<1>3. CallsCounted' /\ WaitersCounted'
  BY DEF PoolInv, CallsCounted, CallsInProgress, WaitersCounted
<1> QED
  BY <1>2, <1>3

LEMMA ReacquireStep ==
  ASSUME PoolInv, NEW t \in Threads, Reacquire(t)
  PROVE  PoolInv'
<1>1. CASE /\ ~WaitPredicate(t)
           /\ cond_' = cond_ \cup {t}
           /\ UNCHANGED <<sizeVars, num_waiting_for_session_, holderVars,
                          planVars, create_calls_in_progress_, mu_, pc,
                          dissociate_from_pool, notify, return_status_ok>>
  <2>1. TypeOK'
    BY <1>1 DEF PoolInv, Placed, TypeOK, sizeVars, holderVars, planVars
  <2>2. Placed'
    BY <1>1, <2>1, NoMove DEF PoolInv
  <2>3. UNCHANGED <<mu_, pc, create_counts, create_calls_in_progress_,
                    num_waiting_for_session_>>
    BY <1>1 DEF planVars
  <2> QED
    BY <2>2, <2>3, KeepControl DEF PoolInv
<1>2. CASE AllocateLoop(t, dissociate_from_pool[t],
                        num_waiting_for_session_ - 1)
  <2>1. mu_ = Free /\ pc[t] \in Waiting
    BY DEF Reacquire
  <2>2. Quiet(t) /\ pc[t] # "out"
    BY <2>1, ProcsFacts DEF PoolInv, Control, Waiting
  <2>3. pc[Pool] \notin {"init", "grow", "creating"}
    BY <2>2 DEF PoolInv, Control
  <2>4. num_waiting_for_session_ - 1 =
          Cardinality({u \in Threads \ {t} : pc[u] \in Waiting})
    BY <2>1, WaitersWithout DEF PoolInv, WaitersCounted
  <2>5. dissociate_from_pool[t] \in BOOLEAN
    BY DEF PoolInv, Placed, TypeOK
  <2> QED
    BY <1>2, <2>1, <2>2, <2>3, <2>4, <2>5, LoopStep
<1> QED
  BY <1>1, <1>2 DEF Reacquire

LEMMA GrowReturnsStep ==
  ASSUME PoolInv, NEW t \in Threads, GrowReturns(t)
  PROVE  PoolInv'
<1>1. /\ mu_ = Free /\ pc[t] = "creating" /\ CallsOf(t) = {}
  BY DEF GrowReturns
<1>2. Quiet(t)
  BY <1>1 DEF Quiet, CallsOf
<1>3. num_waiting_for_session_ =
        Cardinality({u \in Threads \ {t} : pc[u] \in Waiting})
  BY <1>1, WaitersWithout DEF PoolInv, WaitersCounted, Waiting
<1>4. pc[Pool] \notin {"init", "grow", "creating"}
  BY <1>1 DEF PoolInv, Control
<1>5. CASE /\ pc' = [pc EXCEPT ![t] = "out"]
           /\ return_status_ok' = [return_status_ok EXCEPT ![t] = TRUE]
           /\ dissociate_from_pool' =
                [dissociate_from_pool EXCEPT ![t] = FALSE]
           /\ UNCHANGED <<sizeVars, waitVars, holderVars, planVars,
                          create_calls_in_progress_, mu_, notify>>
  <2>1. TypeOK'
    BY <1>5
       DEF PoolInv, Placed, TypeOK, sizeVars, waitVars, holderVars, planVars
  <2>2. Placed'
    BY <1>5, <2>1, NoMove DEF PoolInv
  <2>3. \A p \in Procs : pc'[p] = IF p = t THEN "out" ELSE pc[p]
    BY <1>5, ProcsFacts DEF PoolInv, Placed, TypeOK
  <2>4. WaitersCounted'
    <3>1. {u \in Threads : pc'[u] \in Waiting}
            = {u \in Threads : pc[u] \in Waiting}
      BY <1>1, <2>3, ProcsFacts DEF Waiting
    <3> QED
      BY <1>5, <3>1 DEF PoolInv, WaitersCounted, waitVars
  <2>5. CallsCounted'
    BY <1>5 DEF PoolInv, CallsCounted, CallsInProgress, planVars
  <2>6. \A p \in Procs : Quiet(p)' <=> Quiet(p)
    BY <1>5 DEF Quiet, planVars
  <2>7. Control'
    BY <1>1, <1>2, <1>4, <1>5, <2>3, <2>6, ProcsFacts DEF PoolInv, Control
  <2> QED
    BY <2>2, <2>4, <2>5, <2>7 DEF PoolInv
<1>6. CASE AllocateLoop(t, dissociate_from_pool[t], num_waiting_for_session_)
  <2>1. dissociate_from_pool[t] \in BOOLEAN
    BY DEF PoolInv, Placed, TypeOK
  <2> QED
    BY <1>1, <1>2, <1>3, <1>4, <1>6, <2>1, LoopStep
<1> QED
  BY <1>5, <1>6 DEF GrowReturns

(***************************************************************************)
(* Steps of Grow() and of its calls.                                       *)
(***************************************************************************)
LEMMA CDivType == ASSUME NEW a \in Int, NEW k \in Nat \ {0} PROVE CDiv(a, k) \in Int
  BY DEF CDiv

LEMMA ComputeStep ==
  ASSUME PoolInv, NEW c \in Channels, ComputeCreateCount(c)
  PROVE  PoolInv'
<1> DEFINE k == Cardinality(channels_by_count)
           target == TargetCount(k)
<1>1. mu_ \in Procs /\ mu_ # Free /\ c \in channels_by_count
  BY DEF ComputeCreateCount, NextChannels, PoolInv, Placed, TypeOK
<1>2. k \in Nat \ {0}
  <2>1. IsFiniteSet(channels_by_count)
    BY FS_Subset, ConstantsAssumption DEF PoolInv, Placed, TypeOK
  <2> QED
    BY <1>1, <2>1, FS_CardinalityType, FS_EmptySet
<1>3. target \in Int
  BY <1>2, CDivType DEF PoolInv, Placed, TypeOK, TargetCount
<1> HIDE DEF target
<1>4. /\ create_counts' = IF IsBelow(c, target)
                          THEN [create_counts EXCEPT ![mu_][c] =
                                  target - session_count[c]]
                          ELSE create_counts
      /\ sessions_remaining' = RemainingAfter(c, target)
      /\ channels_by_count' = channels_by_count \ {c}
      /\ UNCHANGED <<sizeVars, waitVars, holderVars, create_calls_in_progress_,
                     mu_, pc, dissociate_from_pool, notify, return_status_ok>>
  BY DEF ComputeCreateCount, target
<1>5. /\ create_counts' \in [Procs -> [Channels -> Nat]]
      /\ \A p \in Procs : p # mu_ => create_counts'[p] = create_counts[p]
  BY <1>1, <1>3, <1>4 DEF PoolInv, Placed, TypeOK, IsBelow
<1>6. sessions_remaining' \in Int
  BY <1>3, <1>4 DEF PoolInv, Placed, TypeOK, RemainingAfter
<1>7. Placed'
  <2>1. TypeOK'
    BY <1>4, <1>5, <1>6
       DEF PoolInv, Placed, TypeOK, sizeVars, waitVars, holderVars
  <2> QED
    BY <1>4, <2>1, NoMove DEF PoolInv
<1>8. \A p \in Procs : p # mu_ => (Quiet(p)' <=> Quiet(p))
  BY <1>5 DEF Quiet
<1>9. Control'
  <2>1. \A p \in Procs : p # mu_ => Quiet(p) /\ Quiet(p)'
    BY <1>1, <1>8 DEF PoolInv, Control
  <2>2. \A t \in Threads : pc[t] \in {"out"} \cup Waiting => t # mu_
    BY ProcsFacts DEF PoolInv, Control, Waiting
  <2>3. pc[Pool] = "init" => Pool # mu_
    BY ProcsFacts DEF PoolInv, Control
  <2> QED
    BY <1>1, <1>4, <2>1, <2>2, <2>3, ProcsFacts DEF PoolInv, Control
<1>10. CallsCounted'
  <2>1. CallsInProgress' = CallsInProgress
    BY <1>4, <1>5 DEF CallsInProgress
  <2> QED
    BY <1>4, <2>1 DEF PoolInv, CallsCounted
<1>11. WaitersCounted'
  BY <1>4 DEF PoolInv, WaitersCounted, waitVars
<1> QED
  BY <1>7, <1>9, <1>10, <1>11 DEF PoolInv

LEMMA EndGrowStep == ASSUME PoolInv, EndGrow PROVE PoolInv'
<1>1. mu_ \in Procs /\ mu_ # Free
  BY DEF EndGrow, PoolInv, Placed, TypeOK
<1>2. /\ create_calls_in_progress_' =
           create_calls_in_progress_ + Cardinality(CallsOf(mu_))
      /\ pc' = [pc EXCEPT ![mu_] = IF @ = "grow" THEN "creating" ELSE "out"]
      /\ mu_' = Free /\ sessions_remaining' = 0
      /\ UNCHANGED <<sizeVars, waitVars, holderVars, create_counts,
                     channels_by_count, dissociate_from_pool, notify,
                     return_status_ok>>
  BY DEF EndGrow
<1>3. /\ pc \in [Procs -> {"out", "grow", "creating", "init", "grow_async"}
                            \cup Waiting]
      /\ \A p \in Procs : p # mu_ => pc'[p] = pc[p]
      /\ pc'[mu_] = IF pc[mu_] = "grow" THEN "creating" ELSE "out"
      /\ pc[mu_] \in {"grow", "grow_async"}
      /\ pc[mu_] = "grow_async" => mu_ = Pool
  BY <1>1, <1>2, ProcsFacts DEF PoolInv, Control, Placed, TypeOK
<1>4. IsFiniteSet(CallsOf(mu_)) /\ Cardinality(CallsOf(mu_)) \in Nat
  <2>1. CallsOf(mu_) \in SUBSET Channels
    BY DEF CallsOf
  <2> QED
    BY <2>1, FS_Subset, FS_CardinalityType, ConstantsAssumption
<1>5. Placed'
  <2>1. TypeOK'
    <3>1. pc' \in [Procs -> {"out", "grow", "creating", "init", "grow_async"}
                              \cup Waiting]
      BY <1>1, <1>2, <1>3
    <3> QED
      BY <1>2, <1>4, <3>1
         DEF PoolInv, Placed, TypeOK, sizeVars, waitVars, holderVars
  <2> QED
    BY <1>2, <2>1, NoMove DEF PoolInv
<1>6. \A p \in Procs : /\ Quiet(p)' <=> Quiet(p)
                       /\ p # mu_ => Quiet(p)
  BY <1>1, <1>2 DEF PoolInv, Control, Quiet
<1>7. CallsCounted'
  <2>1. CallsInProgress = {}
    BY <1>6 DEF CallsInProgress, Quiet
  <2>2. CallsInProgress' = {mu_} \X CallsOf(mu_)
    BY <1>1, <1>2, <1>6, ProcsFacts DEF CallsInProgress, CallsOf, Quiet
  <2>3. Cardinality({mu_} \X CallsOf(mu_)) = 1 * Cardinality(CallsOf(mu_))
    <3>1. IsFiniteSet({mu_}) /\ Cardinality({mu_}) = 1
      BY FS_Singleton
    <3> QED
      BY <1>4, <3>1, FS_Product
  <2> QED
    BY <1>2, <1>4, <2>1, <2>2, <2>3, FS_EmptySet DEF PoolInv, CallsCounted
<1>8. WaitersCounted'
  <2>1. {t \in Threads : pc'[t] \in Waiting} = {t \in Threads : pc[t] \in Waiting}
    BY <1>3, ProcsFacts DEF Waiting
  <2> QED
    BY <1>2, <2>1 DEF PoolInv, WaitersCounted, waitVars
<1>9. Control'
  <2>1. (\A p \in Procs : pc[p] \in {"grow", "grow_async"} <=> p = mu_)'
    BY <1>1, <1>2, <1>3, ProcsFacts DEF PoolInv, Control
  <2>2. (\A t \in Threads : pc[t] \notin {"init", "grow_async"})'
    BY <1>3, ProcsFacts DEF PoolInv, Control
  <2>3. (\A t \in Threads : pc[t] \in {"out"} \cup Waiting => Quiet(t))'
    BY <1>3, <1>6, ProcsFacts DEF PoolInv, Control, Waiting
  <2>4. (pc[Pool] = "init" => Quiet(Pool))'
    BY <1>3, <1>6, ProcsFacts DEF PoolInv, Control
  <2>5. (pc[Pool] \in {"init", "grow", "creating"} =>
           \A t \in Threads : pc[t] = "out")'
    BY <1>3, ProcsFacts DEF PoolInv, Control
  <2>6. (mu_ # Free => \A p \in Procs : p # mu_ => Quiet(p))'
    BY <1>2
  <2>7. (\A p, q \in Procs : p = q \/ Quiet(p) \/ Quiet(q))'
    BY <1>6
  <2> QED
    BY <2>1, <2>2, <2>3, <2>4, <2>5, <2>6, <2>7 DEF Control
<1> QED
  BY <1>5, <1>7, <1>8, <1>9 DEF PoolInv

\* The completion of a call, with whatever outcome.
LEMMA CallDone ==
  ASSUME PoolInv, NEW p \in Procs, NEW c \in Channels, mu_ = Free,
         c \in CallsOf(p),
         create_calls_in_progress_' = create_calls_in_progress_ - 1,
         create_counts' = [create_counts EXCEPT ![p][c] = 0],
         UNCHANGED <<mu_, pc, num_waiting_for_session_>>
  PROVE  (Control /\ CallsCounted /\ WaitersCounted)'
<1>1. \A q \in Procs, d \in Channels :
        create_counts'[q][d] = IF q = p /\ d = c THEN 0 ELSE create_counts[q][d]
  BY DEF PoolInv, Placed, TypeOK
<1>2. \A q \in Procs : Quiet(q) => Quiet(q)'
  BY <1>1 DEF Quiet
<1>3. Control'
  BY <1>2, ProcsFacts DEF PoolInv, Control
<1>4. CallsCounted'
  <2>1. /\ CallsInProgress' = CallsInProgress \ {<<p, c>>}
        /\ <<p, c>> \in CallsInProgress
    <3>1. <<p, c>> \in CallsInProgress
      BY ProcsFacts DEF CallsInProgress, CallsOf
    <3>2. \A call \in Procs \X Channels :
            call \in CallsInProgress' <=>
              call \in CallsInProgress /\ call # <<p, c>>
      BY <1>1, ProcsFacts DEF CallsInProgress
    <3>3. /\ CallsInProgress \subseteq Procs \X Channels
          /\ CallsInProgress' \subseteq Procs \X Channels
      BY DEF CallsInProgress
    <3> QED
      BY <3>1, <3>2, <3>3
  <2>2. Cardinality(CallsInProgress \ {<<p, c>>}) =
          Cardinality(CallsInProgress) - 1
    BY <2>1, CallsAreFinite, FS_RemoveElement
  <2> QED
    BY <2>1, <2>2 DEF PoolInv, CallsCounted
<1>5. WaitersCounted'
  BY DEF PoolInv, WaitersCounted
<1> QED
  BY <1>3, <1>4, <1>5

LEMMA CreateStep ==
  ASSUME PoolInv, NEW p \in Procs, NEW c \in Channels,
         CreateSucceeds(p, c) \/ CreateFails(p, c)
  PROVE  PoolInv'
<1>1. /\ mu_ = Free /\ c \in CallsOf(p)
      /\ create_calls_in_progress_' = create_calls_in_progress_ - 1
      /\ create_counts' = [create_counts EXCEPT ![p][c] = 0]
      /\ UNCHANGED <<mu_, pc, num_waiting_for_session_>>
  BY DEF CreateSucceeds, CreateFails, waitVars
<1>2. (Control /\ CallsCounted /\ WaitersCounted)'
  BY <1>1, CallDone
<1>3. CASE CreateSucceeds(p, c)
  BY <1>2, <1>3, CreateSucceedsStep DEF PoolInv
<1>4. CASE CreateFails(p, c)
  <2>1. UNCHANGED <<sizeVars, holderVars>>
    BY <1>4 DEF CreateFails
  <2>2. create_counts' \in [Procs -> [Channels -> Nat]]
    BY <1>1 DEF PoolInv, Placed, TypeOK
  <2>3. return_status_ok' \in [Procs -> BOOLEAN]
    BY <1>4 DEF CreateFails, PoolInv, Placed, TypeOK
  <2>4. TypeOK'
    <3>1. UNCHANGED <<waitVars, mu_, pc, dissociate_from_pool, notify,
                      channels_by_count, sessions_remaining>>
      BY <1>4 DEF CreateFails
    <3>2. create_calls_in_progress_' \in Int
      BY <1>1 DEF PoolInv, Placed, TypeOK
    <3> QED
      BY <2>1, <2>2, <2>3, <3>1, <3>2
         DEF PoolInv, Placed, TypeOK, sizeVars, waitVars, holderVars
  <2> QED
    BY <1>2, <2>1, <2>4, NoMove DEF PoolInv
<1> QED
  BY <1>3, <1>4

(***************************************************************************)
(* Steps of the pool itself, and of the condition variable.                *)
(***************************************************************************)
\* The pool changes its control state, or starts to plan.
LEMMA PoolControl ==
  ASSUME PoolInv, mu_ = Free, \A t \in Threads : pc'[t] = pc[t],
         UNCHANGED <<create_counts, create_calls_in_progress_,
                     num_waiting_for_session_>>,
         \/ pc'[Pool] = "out" /\ mu_' = Free
         \/ pc'[Pool] = "grow" /\ mu_' = Pool /\ pc[Pool] = "init"
         \/ pc'[Pool] = "grow_async" /\ mu_' = Pool /\ ~Creating
  PROVE  (Control /\ CallsCounted /\ WaitersCounted)'
<1>1. \A p \in Procs : Quiet(p)' <=> Quiet(p)
  BY DEF Quiet
<1>2. mu_' # Free => \A p \in Procs : Quiet(p)
  <2>1. CASE pc[Pool] = "init"
    BY <2>1, ProcsFacts DEF PoolInv, Control
  <2>2. CASE ~Creating
    BY <2>2, NotCreating DEF PoolInv, Placed
  <2> QED
    BY <2>1, <2>2
<1>3. Control'
  <2>1. (\A p \in Procs : pc[p] \in {"grow", "grow_async"} <=> p = mu_)'
    BY ProcsFacts DEF PoolInv, Control
  <2>2. (\A t \in Threads : pc[t] \notin {"init", "grow_async"})'
    BY DEF PoolInv, Control
  <2>3. (\A t \in Threads : pc[t] \in {"out"} \cup Waiting => Quiet(t))'
    BY <1>1, ProcsFacts DEF PoolInv, Control
  <2>4. (pc[Pool] \in {"init", "grow", "creating"} =>
           \A t \in Threads : pc[t] = "out")'
    BY DEF PoolInv, Control
  <2>5. (mu_ # Free => \A p \in Procs : p # mu_ => Quiet(p))'
    BY <1>1, <1>2
  <2>6. (\A p, q \in Procs : p = q \/ Quiet(p) \/ Quiet(q))'
    BY <1>1 DEF PoolInv, Control
  <2>7. pc'[Pool] # "init"
    OBVIOUS
  <2> QED
    BY <2>1, <2>2, <2>3, <2>4, <2>5, <2>6, <2>7 DEF Control
<1>4. CallsCounted'
  BY <1>2, KeepCalls, ProcsFacts DEF PoolInv
<1>5. WaitersCounted'
  <2>1. {t \in Threads : pc'[t] \in Waiting} = {t \in Threads : pc[t] \in Waiting}
    OBVIOUS
  <2> QED
    BY <2>1 DEF PoolInv, WaitersCounted
<1> QED
  BY <1>3, <1>4, <1>5

\* The types after StartGrow by the pool.
LEMMA PoolGrowType ==
  ASSUME TypeOK, NEW mode \in {"grow", "grow_async"}, NEW n \in Int,
         StartGrow(Pool, mode, n),
         UNCHANGED <<sizeVars, waitVars, holderVars, create_counts,
                     create_calls_in_progress_, dissociate_from_pool, notify,
                     return_status_ok>>
  PROVE  TypeOK'
<1>1. TargetTotalSessions(n) \in Int
  BY OptionsType DEF TypeOK, TargetTotalSessions
<1> QED
  BY <1>1, ProcsFacts DEF TypeOK, StartGrow, sizeVars, waitVars, holderVars

LEMMA InitializeStep == ASSUME PoolInv, Initialize PROVE PoolInv'
<1>1. /\ mu_ = Free /\ pc[Pool] = "init"
      /\ UNCHANGED <<sizeVars, waitVars, holderVars, create_counts,
                     create_calls_in_progress_, dissociate_from_pool, notify,
                     return_status_ok>>
  BY DEF Initialize
<1>2. CASE StartGrow(Pool, "grow", min_sessions)
  <2>1. Placed'
    BY <1>1, <1>2, OptionsType, PoolGrowType, NoMove DEF PoolInv, Placed
  <2>2. /\ \A t \in Threads : pc'[t] = pc[t]
        /\ pc'[Pool] = "grow" /\ mu_' = Pool
    BY <1>2, ProcsFacts DEF StartGrow, PoolInv, Placed, TypeOK
  <2> QED
    BY <1>1, <2>1, <2>2, PoolControl DEF PoolInv, waitVars
<1>3. CASE /\ pc' = [pc EXCEPT ![Pool] = "out"]
           /\ UNCHANGED <<mu_, channels_by_count, sessions_remaining>>
  <2>1. TypeOK'
    BY <1>1, <1>3
       DEF PoolInv, Placed, TypeOK, sizeVars, waitVars, holderVars
  <2>2. \A t \in Threads : pc'[t] = pc[t]
    BY <1>3, ProcsFacts DEF PoolInv, Placed, TypeOK
  <2>3. pc'[Pool] = "out" /\ mu_' = Free
    BY <1>1, <1>3, ProcsFacts DEF PoolInv, Placed, TypeOK
  <2> QED
    BY <1>1, <2>1, <2>2, <2>3, NoMove, PoolControl DEF PoolInv, waitVars
<1> QED
  BY <1>2, <1>3 DEF Initialize

LEMMA InitializeReturnsStep ==
  ASSUME PoolInv, InitializeReturns PROVE PoolInv'
<1>1. /\ mu_ = Free
      /\ pc' = [pc EXCEPT ![Pool] = "out"]
      /\ return_status_ok' = [return_status_ok EXCEPT ![Pool] = TRUE]
      /\ UNCHANGED <<sizeVars, waitVars, holderVars, planVars,
                     create_calls_in_progress_, mu_, dissociate_from_pool,
                     notify>>
  BY DEF InitializeReturns
<1>2. TypeOK'
  BY <1>1 DEF PoolInv, Placed, TypeOK, sizeVars, waitVars, holderVars, planVars
<1>3. \A t \in Threads : pc'[t] = pc[t]
  BY <1>1, ProcsFacts DEF PoolInv, Placed, TypeOK
<1>4. pc'[Pool] = "out" /\ mu_' = Free
  BY <1>1, ProcsFacts DEF PoolInv, Placed, TypeOK
<1> QED
  BY <1>1, <1>2, <1>3, <1>4, NoMove, PoolControl DEF PoolInv, waitVars, planVars

LEMMA MaintainStep == ASSUME PoolInv, MaintainPoolSize PROVE PoolInv'
<1>1. /\ mu_ = Free /\ ~Creating
      /\ StartGrow(Pool, "grow_async", total_sessions_ - min_sessions)
      /\ UNCHANGED <<sizeVars, waitVars, holderVars, create_counts,
                     create_calls_in_progress_, dissociate_from_pool, notify,
                     return_status_ok>>
  BY DEF MaintainPoolSize
<1>2. total_sessions_ - min_sessions \in Int
  BY OptionsType DEF PoolInv, Placed, TypeOK
<1>3. Placed'
  BY <1>1, <1>2, PoolGrowType, NoMove DEF PoolInv, Placed
<1>4. /\ \A t \in Threads : pc'[t] = pc[t]
      /\ pc'[Pool] = "grow_async" /\ mu_' = Pool
  BY <1>1, ProcsFacts DEF StartGrow, PoolInv, Placed, TypeOK
<1> QED
  BY <1>1, <1>3, <1>4, PoolControl DEF PoolInv, waitVars

LEMMA CondStep ==
  ASSUME PoolInv, (\E p \in Procs : Notify(p)) \/ \E t \in Threads : SpuriousWakeup(t)
  PROVE  PoolInv'
<1>1. /\ UNCHANGED <<sizeVars, num_waiting_for_session_, holderVars, planVars,
                     create_calls_in_progress_, mu_, pc, dissociate_from_pool,
                     return_status_ok>>
      /\ cond_' \subseteq cond_
      /\ notify' = notify \/ \E p \in Procs : notify' = [notify EXCEPT ![p] = "none"]
  BY DEF Notify, SpuriousWakeup
<1>2. notify' \in [Procs -> {"none", "one", "all"}]
  BY <1>1 DEF PoolInv, Placed, TypeOK
<1>3. TypeOK'
  BY <1>1, <1>2 DEF PoolInv, Placed, TypeOK, sizeVars, holderVars, planVars
<1> QED
  BY <1>1, <1>3, NoMove, KeepControl DEF PoolInv, planVars

LEMMA HolderStep ==
  ASSUME PoolInv, NEW t \in Threads, NEW s \in Sessions,
         SetBad(t, s) \/ Release(t, s) \/ DropDissociated(t, s)
  PROVE  PoolInv'
<1>1. UNCHANGED <<mu_, pc, create_counts, create_calls_in_progress_,
                  num_waiting_for_session_>>
  BY DEF SetBad, Release, DropDissociated, waitVars, planVars
<1>2. Placed'
  BY SetBadStep, ReleaseStep, DropStep DEF PoolInv
<1> QED
  BY <1>1, <1>2, KeepControl DEF PoolInv

(***************************************************************************)
(* The invariant and its consequences.                                     *)
(***************************************************************************)
LEMMA InitPoolInv == Init => PoolInv
<1> SUFFICES ASSUME Init PROVE PoolInv
  OBVIOUS
<1>1. TypeOK
  BY ProcsFacts DEF Init, TypeOK, NoCounts
<1>2. Idle = {} /\ Held = {} /\ Dissociated = {} /\ Pooled = {}
  BY DEF Init, Idle, Held, Dissociated, Pooled
<1>3. Ownership
  BY <1>2 DEF Init, Ownership
<1>4. SessionsCounted
  <2>1. \A c : {s \in Pooled : channel[s] = c} = {}
    BY <1>2
  <2> QED
    BY <1>2, <2>1, FS_EmptySet DEF Init, SessionsCounted
<1>5. \A p \in Procs : Quiet(p)
  BY DEF Init, Quiet, NoCounts
<1>6. Control
  BY <1>5, ProcsFacts DEF Init, Control
<1>7. CallsCounted
  <2>1. CallsInProgress = {}
    BY <1>5 DEF CallsInProgress, Quiet
  <2> QED
    BY <2>1, FS_EmptySet DEF Init, CallsCounted
<1>8. WaitersCounted
  <2>1. {t \in Threads : pc[t] \in Waiting} = {}
    BY ProcsFacts DEF Init, Waiting
  <2> QED
    BY <2>1, FS_EmptySet DEF Init, WaitersCounted
<1> QED
  BY <1>1, <1>3, <1>4, <1>6, <1>7, <1>8 DEF PoolInv, Placed

LEMMA NextPoolInv == PoolInv /\ [Next]_vars => PoolInv'
<1> SUFFICES ASSUME PoolInv, [Next]_vars PROVE PoolInv'
  OBVIOUS
<1>1. CASE UNCHANGED vars
  <2>1. UNCHANGED <<sizeVars, holderVars>> /\ TypeOK'
    BY <1>1 DEF vars, PoolInv, Placed, TypeOK, sizeVars, waitVars, holderVars,
                planVars
  <2>2. UNCHANGED <<mu_, pc, create_counts, create_calls_in_progress_,
                    num_waiting_for_session_>>
    BY <1>1 DEF vars, waitVars, planVars
  <2> QED
    BY <2>1, <2>2, NoMove, KeepControl DEF PoolInv
<1>2. CASE \E c \in Channels : ComputeCreateCount(c)
  BY <1>2, ComputeStep
<1>3. CASE EndGrow
  BY <1>3, EndGrowStep
<1>4. CASE \E p \in Procs, c \in Channels :
             CreateSucceeds(p, c) \/ CreateFails(p, c)
  BY <1>4, CreateStep
<1>5. CASE \E p \in Procs : Notify(p)
  BY <1>5, CondStep
<1>6. ASSUME NEW t \in Threads,
             \/ \E dissociate \in BOOLEAN : Allocate(t, dissociate)
             \/ Reacquire(t)
             \/ GrowReturns(t)
             \/ SpuriousWakeup(t)
             \/ \E s \in Sessions :
                  SetBad(t, s) \/ Release(t, s) \/ DropDissociated(t, s)
      PROVE  PoolInv'
  BY <1>6, AllocateStep, ReacquireStep, GrowReturnsStep, CondStep, HolderStep
<1>7. CASE Initialize
  BY <1>7, InitializeStep
<1>8. CASE InitializeReturns
  BY <1>8, InitializeReturnsStep
<1>9. CASE MaintainPoolSize
  BY <1>9, MaintainStep
<1> QED
  BY <1>1, <1>2, <1>3, <1>4, <1>5, <1>6, <1>7, <1>8, <1>9 DEF Next

\* PoolInv holds in every behaviour of the pool.
THEOREM PoolInvariance == Spec => []PoolInv
  BY InitPoolInv, NextPoolInv, PTL DEF Spec

\* Every variable of the pool keeps its type; in particular no plan asks a
\* channel for a negative number of sessions.
THEOREM PoolTypeCorrect == Spec => []TypeOK
<1>1. PoolInv => TypeOK
  BY DEF PoolInv, Placed
<1> QED
  BY <1>1, PoolInvariance, PTL

\* Every session is idle or has one holder, and bad sessions are not reused.
THEOREM OwnershipCorrect == Spec => []Ownership
<1>1. PoolInv => Ownership
  BY DEF PoolInv, Placed
<1> QED
  BY <1>1, PoolInvariance, PTL

\* The counters of the pool are exact, in every interleaving and after every
\* failure.
THEOREM AccountingCorrect == Spec => []Accounting
<1>1. PoolInv => Accounting
  BY DEF PoolInv, Placed, SessionsCounted, CallsCounted, WaitersCounted,
         Accounting
<1> QED
  BY <1>1, PoolInvariance, PTL

\* At most one process creates sessions.
THEOREM OneCreatorCorrect == Spec => []OneCreator
<1>1. PoolInv => OneCreator
  BY DEF PoolInv, Control, Quiet, OneCreator, CallsOf
<1> QED
  BY <1>1, PoolInvariance, PTL

(***************************************************************************)
(* Arithmetic of the loop in ComputeCreateCounts().                        *)
(***************************************************************************)
LEMMA TimesMonotonic ==
  ASSUME NEW a \in Int, NEW b \in Int, a <= b, NEW k \in Nat
  PROVE  a * k <= b * k
  OBVIOUS

LEMMA TimesPred ==
  ASSUME NEW a \in Int, NEW k \in Int
  PROVE  a * (k - 1) = a * k - a /\ (a - 1) * k = a * k - k
  OBVIOUS

\* The share of a channel is the quotient rounded up, when there is something
\* to share, and never more than a count that would cover everything.
LEMMA ShareBounds ==
  ASSUME NEW r \in Int, NEW k \in Nat \ {0}
  PROVE  LET t == CDiv(r + k - 1, k)
         IN  /\ t \in Int
             /\ r <= t * k
             /\ r >= 0 => (t - 1) * k < r
             /\ \A m \in Nat : r <= m * k => t <= m
<1> DEFINE t == CDiv(r + k - 1, k)
<1>1. t \in Int
  BY CDivType
<1>2. CASE r + k - 1 >= 0
  <2>1. t = (r + k - 1) \div k
    BY <1>2 DEF CDiv
  <2>2. k * t <= r + k - 1 /\ r + k - 1 < k * t + k
    BY <1>2, <2>1
  <2>3. r <= t * k /\ (t - 1) * k < r
    BY <1>1, <2>2, TimesPred
  <2>4. ASSUME NEW m \in Nat, r <= m * k PROVE t <= m
    <3>1. (t - 1) * k < m * k
      BY <1>1, <2>3, <2>4
    <3>2. ~(m <= t - 1)
      BY <1>1, <3>1, TimesMonotonic
    <3> QED
      BY <1>1, <3>2
  <2> QED
    BY <1>1, <2>3, <2>4
<1>3. CASE r + k - 1 < 0
  <2>1. t = -((-(r + k - 1)) \div k)
    BY <1>3 DEF CDiv
  <2>2. PICK q \in Int : q = (-(r + k - 1)) \div k
    BY <1>3
  <2>3. q >= 0 /\ k * q <= -(r + k - 1)
    BY <1>3, <2>2
  <2>4. t <= 0 /\ r <= t * k
    BY <1>3, <2>1, <2>2, <2>3
  <2> QED
    BY <1>1, <1>3, <2>4
<1> QED
  BY <1>2, <1>3

\* What the share t of one of k channels leaves of r sessions, against any
\* count a that covers r, and against any a that t can differ from by one.
LEMMA ShareStep ==
  ASSUME NEW r \in Int, NEW k \in Nat \ {0}, NEW t \in Int,
         r <= t * k, (t - 1) * k < r
  PROVE  /\ (t - 1) * (k - 1) <= r - t
         /\ \A a \in Int : r <= a * k => t <= a /\ r - t <= a * (k - 1)
         /\ \A a \in Int : (a - 1) * k <= r /\ r <= a * k =>
              t \in {a - 1, a} /\ (a - 1) * (k - 1) <= r - t
<1>1. (t - 1) * (k - 1) <= r - t
  <2>1. (t - 1) * (k - 1) = (t - 1) * k - (t - 1)
    BY TimesPred
  <2> QED
    BY <2>1
<1>2. ASSUME NEW a \in Int, r <= a * k
      PROVE  t <= a /\ r - t <= a * (k - 1)
  <2>1. ~(a <= t - 1)
    BY <1>2, TimesMonotonic
  <2>2. t <= a
    BY <2>1
  <2>3. r - t <= t * (k - 1)
    <3>1. t * (k - 1) = t * k - t
      BY TimesPred
    <3> QED
      BY <3>1
  <2>4. t * (k - 1) <= a * (k - 1)
    <3>1. k - 1 \in Nat
      OBVIOUS
    <3> QED
      BY <2>2, <3>1, TimesMonotonic
  <2>5. t * (k - 1) \in Int /\ a * (k - 1) \in Int
    OBVIOUS
  <2> QED
    BY <2>2, <2>3, <2>4, <2>5
<1>3. ASSUME NEW a \in Int, (a - 1) * k <= r, r <= a * k
      PROVE  t \in {a - 1, a} /\ (a - 1) * (k - 1) <= r - t
  <2>1. t <= a
    BY <1>2, <1>3
  <2>2. t >= a - 1
    <3>1. (a - 1) * k <= t * k
      BY <1>3
    <3>2. ~(t <= a - 2)
      <4>1. SUFFICES ASSUME t <= a - 2 PROVE FALSE
        OBVIOUS
      <4>2. t * k <= (a - 2) * k
        BY <4>1, TimesMonotonic
      <4>3. (a - 2) * k = (a - 1) * k - k
        BY TimesPred
      <4> QED
        BY <3>1, <4>2, <4>3
    <3> QED
      BY <3>2
  <2>3. CASE t = a
    BY <1>1, <2>3
  <2>4. CASE t = a - 1
    <3>1. (a - 1) * (k - 1) = (a - 1) * k - (a - 1)
      BY TimesPred
    <3> QED
      BY <1>3, <2>4, <3>1
  <2> QED
    BY <2>1, <2>2, <2>3, <2>4
<1> QED
  BY <1>1, <1>2, <1>3

(***************************************************************************)
(* Counting the sessions of several channels, and those asked for.         *)
(***************************************************************************)
\* A set of at most m elements can be numbered from 1 to m.
LEMMA Numbering ==
  ASSUME NEW S, IsFiniteSet(S), NEW m \in Nat, Cardinality(S) <= m
  PROVE  \E g \in [S -> 1 .. m] : \A a, b \in S : g[a] = g[b] => a = b
<1>1. PICK n \in Nat : n = Cardinality(S) /\ ExistsBijection(1 .. n, S)
  BY FS_CardinalityType
<1>2. ExistsBijection(S, 1 .. n)
  BY <1>1, Fun_ExistsBijSymmetric
<1>3. PICK g : g \in Bijection(S, 1 .. n)
  BY <1>2, Fun_ExistsBij
<1>4. g \in [S -> 1 .. n] /\ \A a, b \in S : g[a] = g[b] => a = b
  BY <1>3, Fun_BijectionProperties
<1>5. 1 .. n \subseteq 1 .. m
  BY <1>1
<1>6. g \in [S -> 1 .. m]
  BY <1>4, <1>5
<1> QED
  BY <1>4, <1>6

\* If each of the fibres of a function has at most m elements, its domain
\* has at most m times as many as there are fibres.
LEMMA FibreBound ==
  ASSUME NEW S, NEW C, IsFiniteSet(C), NEW f, \A s \in S : f[s] \in C,
         IsFiniteSet(S), NEW m \in Nat,
         \A c \in C : Cardinality({s \in S : f[s] = c}) <= m
  PROVE  Cardinality(S) <= m * Cardinality(C)
<1> DEFINE On(c) == {s \in S : f[s] = c}
           Numbers(c, g) == \A a, b \in On(c) : g[a] = g[b] => a = b
           G == [c \in C |-> CHOOSE g \in [On(c) -> 1 .. m] : Numbers(c, g)]
           F == [s \in S |-> <<f[s], G[f[s]][s]>>]
<1>1. ASSUME NEW c \in C
      PROVE  \E g \in [On(c) -> 1 .. m] : Numbers(c, g)
  <2>1. IsFiniteSet(On(c))
    BY FS_Subset
  <2> QED
    BY <2>1, Numbering
<1>2. \A c \in C : G[c] \in [On(c) -> 1 .. m] /\ Numbers(c, G[c])
  BY <1>1
<1> HIDE DEF G
<1>3. F \in [S -> C \X (1 .. m)]
  BY <1>2
<1>4. \A a, b \in S : F[a] = F[b] => a = b
  BY <1>2
<1>5. F \in Injection(S, C \X (1 .. m))
  BY <1>3, <1>4, Fun_IsInj
<1>6. /\ IsFiniteSet(C \X (1 .. m))
      /\ Cardinality(C \X (1 .. m)) = Cardinality(C) * m
  <2>1. IsFiniteSet(1 .. m) /\ Cardinality(1 .. m) = m
    BY FS_Interval
  <2> QED
    BY <2>1, FS_Product
<1>7. Cardinality(S) <= Cardinality(C) * m
  BY <1>5, <1>6, FS_Injection
<1>8. Cardinality(C) \in Nat
  BY FS_CardinalityType
<1> QED
  BY <1>7, <1>8

\* The requests for n sessions on one channel.
LEMMA PartCount ==
  ASSUME NEW c, NEW n \in Nat
  PROVE  IsFiniteSet({c} \X (1 .. n)) /\ Cardinality({c} \X (1 .. n)) = n
<1>1. IsFiniteSet({c}) /\ Cardinality({c}) = 1
  BY FS_Singleton
<1>2. IsFiniteSet(1 .. n) /\ Cardinality(1 .. n) = n
  BY FS_Interval
<1>3. /\ IsFiniteSet({c} \X (1 .. n))
      /\ Cardinality({c} \X (1 .. n)) = Cardinality({c}) * Cardinality(1 .. n)
  BY <1>1, <1>2, FS_Product
<1> QED
  BY <1>1, <1>2, <1>3

\* Asked(p), for any plan.
Asks(counts) == UNION {{c} \X (1 .. counts[c]) : c \in Channels}

LEMMA AsksFinite ==
  ASSUME NEW counts \in [Channels -> Nat]
  PROVE  IsFiniteSet(Asks(counts)) /\ Cardinality(Asks(counts)) \in Nat
<1> DEFINE Of(c) == {c} \X (1 .. counts[c])
           F == [c \in Channels |-> Of(c)]
<1>1. ASSUME NEW c \in Channels PROVE IsFiniteSet(Of(c))
  <2>1. counts[c] \in Nat
    OBVIOUS
  <2> QED
    BY <2>1, PartCount
<1>2. F \in Surjection(Channels, {Of(c) : c \in Channels})
  <2>1. F \in [Channels -> {Of(c) : c \in Channels}]
    OBVIOUS
  <2>2. \A x \in {Of(c) : c \in Channels} : \E c \in Channels : F[c] = x
    OBVIOUS
  <2> QED
    BY <2>1, <2>2, Fun_IsSurj
<1>3. IsFiniteSet({Of(c) : c \in Channels})
  BY <1>2, FS_Surjection, ConstantsAssumption
<1>4. IsFiniteSet(Asks(counts))
  BY <1>1, <1>3, FS_UNION DEF Asks
<1> QED
  BY <1>4, FS_CardinalityType

\* The part of a plan that one channel makes up.
LEMMA AsksSplit ==
  ASSUME NEW counts \in [Channels -> Nat], NEW c \in Channels
  PROVE  Cardinality(Asks(counts)) =
           Cardinality(Asks([counts EXCEPT ![c] = 0])) + counts[c]
<1> DEFINE without == [counts EXCEPT ![c] = 0]
           part == {c} \X (1 .. counts[c])
<1>1. without \in [Channels -> Nat]
  OBVIOUS
<1>2. \A d \in Channels : without[d] = IF d = c THEN 0 ELSE counts[d]
  OBVIOUS
<1> HIDE DEF without
<1>3. IsFiniteSet(part) /\ Cardinality(part) = counts[c]
  <2>1. counts[c] \in Nat
    OBVIOUS
  <2> QED
    BY <2>1, PartCount
<1>4. Asks(counts) = Asks(without) \cup part
  <2>1. \A x : x \in Asks(counts) <=>
                 \E d \in Channels : x \in {d} \X (1 .. counts[d])
    BY DEF Asks
  <2>2. \A x : x \in Asks(without) <=>
                 \E d \in Channels : x \in {d} \X (1 .. without[d])
    BY DEF Asks
  <2>3. \A d \in Channels : d # c => without[d] = counts[d]
    BY <1>2
  <2>4. {c} \X (1 .. without[c]) = {}
    BY <1>2
  <2> HIDE DEF part
  <2>5. \A x : x \in Asks(counts) <=> x \in Asks(without) \/ x \in part
    BY <2>1, <2>2, <2>3, <2>4 DEF part
  <2> QED
    BY <2>5
<1>5. Asks(without) \cap part = {}
  BY <1>2 DEF Asks
<1>6. Cardinality(Asks(without) \cap part) = 0
  BY <1>5, FS_EmptySet
<1>7. IsFiniteSet(Asks(without)) /\ Cardinality(Asks(without)) \in Nat
  BY <1>1, AsksFinite
<1> HIDE DEF part
<1>8. Cardinality(Asks(without) \cup part) =
        Cardinality(Asks(without)) + Cardinality(part)
          - Cardinality(Asks(without) \cap part)
  BY <1>3, <1>7, FS_Union
<1> QED
  BY <1>3, <1>4, <1>6, <1>7, <1>8 DEF without

\* What a change of one count does to the number of sessions asked for.
LEMMA AsksUpdate ==
  ASSUME NEW counts \in [Channels -> Nat], NEW c \in Channels, NEW n \in Nat
  PROVE  Cardinality(Asks([counts EXCEPT ![c] = n])) =
           Cardinality(Asks(counts)) - counts[c] + n
<1> DEFINE new == [counts EXCEPT ![c] = n]
           without == [counts EXCEPT ![c] = 0]
<1>1. /\ new \in [Channels -> Nat] /\ new[c] = n
      /\ [new EXCEPT ![c] = 0] = without
  OBVIOUS
<1>2. Cardinality(Asks(new)) = Cardinality(Asks(without)) + n
  BY <1>1, AsksSplit
<1>3. Cardinality(Asks(counts)) = Cardinality(Asks(without)) + counts[c]
  BY AsksSplit
<1>4. without \in [Channels -> Nat] /\ counts[c] \in Nat
  OBVIOUS
<1>5. Cardinality(Asks(without)) \in Nat
  BY <1>4, AsksFinite
<1> HIDE DEF new, without
<1> QED
  BY <1>2, <1>3, <1>4, <1>5 DEF new

(***************************************************************************)
(* The loop in ComputeCreateCounts().                                      *)
(***************************************************************************)
\* The sessions on the channels of C, and how many they are.
SessionsOn(C) == {s \in Pooled : channel[s] \in C}

LEMMA SessionsOnFinite ==
  ASSUME Placed, NEW C
  PROVE  IsFiniteSet(SessionsOn(C)) /\ Cardinality(SessionsOn(C)) \in Nat
<1>1. SessionsOn(C) \in SUBSET Pooled /\ IsFiniteSet(Pooled)
  BY PooledIsFinite DEF SessionsOn, Placed
<1> QED
  BY <1>1, FS_Subset, FS_CardinalityType

LEMMA SessionCountIsNat ==
  ASSUME Placed, NEW c \in Channels PROVE session_count[c] \in Nat
<1>1. /\ IsFiniteSet({s \in Pooled : channel[s] = c})
      /\ session_count[c] = Cardinality({s \in Pooled : channel[s] = c})
  BY PooledIsFinite DEF Placed, SessionsCounted
<1> QED
  BY <1>1, FS_CardinalityType

LEMMA SessionsWithout ==
  ASSUME Placed, NEW C \in SUBSET Channels, NEW c \in C
  PROVE  Cardinality(SessionsOn(C \ {c})) =
           Cardinality(SessionsOn(C)) - session_count[c]
<1> DEFINE On == {s \in Pooled : channel[s] = c}
<1>1. SessionsOn(C \ {c}) = SessionsOn(C) \ On /\ SessionsOn(C) \cap On = On
  BY DEF SessionsOn
<1>2. Cardinality(On) = session_count[c]
  BY DEF Placed, SessionsCounted
<1> HIDE DEF On
<1>3. Cardinality(SessionsOn(C) \ On) =
        Cardinality(SessionsOn(C)) - Cardinality(SessionsOn(C) \cap On)
  BY SessionsOnFinite, FS_Difference
<1> QED
  BY <1>1, <1>2, <1>3

LEMMA SessionsBound ==
  ASSUME Placed, NEW C \in SUBSET Channels, NEW m \in Nat,
         \A c \in C : session_count[c] <= m
  PROVE  Cardinality(SessionsOn(C)) <= m * Cardinality(C)
<1>1. IsFiniteSet(C) /\ IsFiniteSet(SessionsOn(C))
  BY FS_Subset, ConstantsAssumption, SessionsOnFinite
<1>2. \A s \in SessionsOn(C) : channel[s] \in C
  BY DEF SessionsOn
<1>3. ASSUME NEW c \in C
      PROVE  Cardinality({s \in SessionsOn(C) : channel[s] = c}) <= m
  <2>1. {s \in SessionsOn(C) : channel[s] = c} = {s \in Pooled : channel[s] = c}
    BY DEF SessionsOn
  <2>2. session_count[c] = Cardinality({s \in Pooled : channel[s] = c})
    BY DEF Placed, SessionsCounted
  <2> QED
    BY <2>1, <2>2
<1> QED
  BY <1>1, <1>2, <1>3, FibreBound

Left == Cardinality(channels_by_count)
Unvisited == Cardinality(SessionsOn(channels_by_count))
After(c) == session_count[c] + create_counts[mu_][c]
Requested == IF mu_ = Pool THEN min_sessions ELSE min_sessions + 1

\* With the difference of MaintainPoolSize(), which is negative, less remains
\* than the channels have: no channel is below its share.
NothingToPlan ==
  /\ sessions_remaining < Unvisited
  /\ \A c \in Channels : create_counts[mu_][c] = 0

\* What remains covers the channels that are left, fits them, and with what
\* is planned adds up to the target.
PlanAddsUp ==
  /\ Unvisited <= sessions_remaining
  /\ sessions_remaining <= max_sessions_per_channel * Left
  /\ channels_by_count = {} => sessions_remaining = 0
  /\ total_sessions_ + Cardinality(Asked(mu_)) =
       TargetTotalSessions(Requested) - sessions_remaining + Unvisited

\* A channel with new sessions is at most one above those the loop has
\* visited, above those it has not, and the share of the latter will be its
\* own or one less.
PlanIsEven ==
  \A c \in CallsOf(mu_) :
    /\ \A d \in Channels \ channels_by_count : After(c) <= After(d) + 1
    /\ \A d \in channels_by_count : session_count[d] < After(c)
    /\ (After(c) - 1) * Left <= sessions_remaining
    /\ sessions_remaining <= After(c) * Left

\* No share to come is above what a visited channel has.
SharesDecrease ==
  \A d \in Channels \ channels_by_count :
    sessions_remaining <= After(d) * Left

PlanInv ==
  mu_ # Free =>
    /\ \A c \in channels_by_count : create_counts[mu_][c] = 0
    /\ pc[mu_] = "grow_async" => NothingToPlan
    /\ pc[mu_] = "grow" => PlanAddsUp /\ PlanIsEven /\ SharesDecrease

\* MaxPoolSize for each process that could be the one that creates.
Sized ==
  \A p \in Procs :
    /\ total_sessions_ + Cardinality(Asked(p)) <= max_pool_size_
    /\ \A c \in Channels :
         session_count[c] + create_counts[p][c] <= max_sessions_per_channel

LEMMA OptionsFacts ==
  /\ max_sessions_per_channel \in Nat \ {0}
  /\ NumChannels \in Nat \ {0}
  /\ max_pool_size_ = max_sessions_per_channel * NumChannels
  /\ max_pool_size_ \in Nat \ {0}
  /\ min_sessions \in Nat
<1>1. max_sessions_per_channel \in Nat \ {0}
  BY ConstantsAssumption DEF max_sessions_per_channel
<1>2. NumChannels \in Nat \ {0}
  BY FS_CardinalityType, FS_EmptySet, ConstantsAssumption DEF NumChannels
<1>3. max_pool_size_ = max_sessions_per_channel * NumChannels
  BY DEF max_pool_size_
<1>4. max_pool_size_ \in Nat \ {0}
  <2>1. 1 * NumChannels <= max_sessions_per_channel * NumChannels
    BY <1>1, <1>2, TimesMonotonic
  <2> QED
    BY <1>1, <1>2, <1>3, <2>1
<1>5. min_sessions \in Nat
  BY <1>4, ConstantsAssumption DEF min_sessions
<1> QED
  BY <1>1, <1>2, <1>3, <1>4, <1>5

LEMMA AskedIsAsks ==
  ASSUME TypeOK
  PROVE  \A p \in Procs : /\ create_counts[p] \in [Channels -> Nat]
                          /\ Asked(p) = Asks(create_counts[p])
                          /\ Cardinality(Asked(p)) \in Nat
<1>1. ASSUME NEW p \in Procs
      PROVE  /\ create_counts[p] \in [Channels -> Nat]
             /\ Asked(p) = Asks(create_counts[p])
  BY DEF TypeOK, Asked, Asks
<1> QED
  BY <1>1, AsksFinite

LEMMA QuietAsksNothing ==
  ASSUME TypeOK, NEW p \in Procs, Quiet(p)
  PROVE  Asked(p) = {} /\ Cardinality(Asked(p)) = 0
         /\ \A c \in Channels : create_counts[p][c] = 0
<1>1. \A c \in Channels : create_counts[p][c] = 0
  BY DEF TypeOK, Quiet
<1>2. \A c \in Channels : {c} \X (1 .. create_counts[p][c]) = {}
  BY <1>1
<1>3. Asked(p) = {}
  BY <1>2 DEF Asked
<1> QED
  BY <1>1, <1>3, FS_EmptySet

LEMMA PlanStep ==
  ASSUME PoolInv, PlanInv, Sized, NEW c \in Channels, ComputeCreateCount(c)
  PROVE  PlanInv' /\ Sized'
<1> DEFINE k == Left
           r == sessions_remaining
           t == TargetCount(k)
           m == session_count[c]
           cap == max_sessions_per_channel
<1>1. /\ mu_ \in Procs /\ mu_ # Free /\ c \in channels_by_count
      /\ \A d \in channels_by_count : session_count[d] <= m
      /\ channels_by_count \in SUBSET Channels
  BY DEF ComputeCreateCount, NextChannels, PoolInv, Placed, TypeOK
<1>2. /\ k \in Nat \ {0} /\ IsFiniteSet(channels_by_count)
  <2>1. IsFiniteSet(channels_by_count)
    BY <1>1, FS_Subset, ConstantsAssumption
  <2> QED
    BY <1>1, <2>1, FS_CardinalityType, FS_EmptySet DEF Left
<1>3. /\ r \in Int /\ session_count \in [Channels -> Int]
      /\ create_counts \in [Procs -> [Channels -> Nat]]
      /\ \A d \in Channels : session_count[d] \in Nat
      /\ cap \in Nat
      /\ total_sessions_ \in Int
  BY SessionCountIsNat, OptionsFacts DEF PoolInv, Placed, TypeOK
<1>4. /\ t \in Int
      /\ r <= t * k
      /\ r >= 0 => (t - 1) * k < r
      /\ \A a \in Nat : r <= a * k => t <= a
  BY <1>2, <1>3, ShareBounds DEF TargetCount
<1>5. /\ channels_by_count' = channels_by_count \ {c}
      /\ sessions_remaining' = r - (IF m < t THEN t ELSE m)
      /\ create_counts' = IF m < t THEN [create_counts EXCEPT ![mu_][c] = t - m]
                                   ELSE create_counts
      /\ UNCHANGED <<sessions_, total_sessions_, session_count, channel, holds,
                     mu_, pc>>
  BY DEF ComputeCreateCount, RemainingAfter, IsBelow, sizeVars, holderVars, Left
<1> HIDE DEF k, r, t, m, cap
<1>6. Left' = k - 1
  BY <1>1, <1>2, <1>5, FS_RemoveElement DEF Left, k
<1>7. /\ Unvisited \in Nat /\ Unvisited' \in Nat
      /\ Unvisited' = Unvisited - m
      /\ Unvisited <= m * k /\ Unvisited' <= m * (k - 1)
  <2> DEFINE D == channels_by_count \ {c}
  <2>1. SessionsOn(channels_by_count)' = SessionsOn(D)
    BY <1>5 DEF SessionsOn, Pooled, Idle, Held
  <2>2. Cardinality(SessionsOn(D)) = Unvisited - m
    BY <1>1, SessionsWithout DEF PoolInv, Unvisited, m
  <2>3. m \in Nat /\ Cardinality(D) = k - 1
    BY <1>1, <1>2, <1>3, FS_RemoveElement DEF Left, k, m
  <2>4. Unvisited \in Nat /\ Cardinality(SessionsOn(D)) \in Nat
    BY SessionsOnFinite DEF PoolInv, Unvisited
  <2>5. Unvisited <= m * k
    BY <1>1, <2>3, SessionsBound DEF PoolInv, Unvisited, Left, k
  <2>6. Cardinality(SessionsOn(D)) <= m * (k - 1)
    <3>1. D \in SUBSET Channels /\ \A d \in D : session_count[d] <= m
      BY <1>1
    <3>2. Cardinality(SessionsOn(D)) <= m * Cardinality(D)
      BY <2>3, <3>1, SessionsBound DEF PoolInv
    <3> QED
      BY <2>3, <3>2
  <2> QED
    BY <2>1, <2>2, <2>4, <2>5, <2>6 DEF Unvisited
<1>8. /\ m \in Nat
      /\ \A p \in Procs, d \in Channels :
           create_counts'[p][d] = IF p = mu_ /\ d = c /\ m < t
                                  THEN t - m ELSE create_counts[p][d]
      /\ m < t => create_counts'[mu_] = [create_counts[mu_] EXCEPT ![c] = t - m]
      /\ create_counts[mu_][c] = 0
  BY <1>1, <1>3, <1>4, <1>5 DEF PlanInv, m
<1>9. /\ mu_' = mu_ /\ pc' = pc
      /\ \A d \in channels_by_count' : create_counts'[mu_'][d] = 0
  BY <1>1, <1>5, <1>8 DEF PlanInv
<1>10. TypeOK' /\ TypeOK
  BY ComputeStep DEF PoolInv, Placed
<1>11. CASE pc[mu_] = "grow_async"
  <2>1. r < Unvisited /\ \A d \in Channels : create_counts[mu_][d] = 0
    BY <1>1, <1>11 DEF PlanInv, NothingToPlan, r
  <2>2. t <= m
    <3>1. m * k \in Int
      BY <1>2, <1>8
    <3> QED
      BY <1>3, <1>4, <1>7, <1>8, <2>1, <3>1
  <2>3. ~(m < t) /\ create_counts' = create_counts
    BY <1>4, <1>5, <1>8, <2>2
  <2>4. sessions_remaining' < Unvisited'
    BY <1>3, <1>5, <1>7, <1>8, <2>1, <2>3
  <2>5. NothingToPlan'
    BY <1>5, <2>1, <2>3, <2>4 DEF NothingToPlan
  <2>6. PlanInv'
    BY <1>9, <1>11, <2>5 DEF PlanInv
  <2>7. Sized'
    BY <1>5, <2>3 DEF Sized, Asked
  <2> QED
    BY <2>6, <2>7
<1>12. CASE pc[mu_] = "grow"
  <2>1. PlanAddsUp /\ PlanIsEven /\ SharesDecrease
    BY <1>1, <1>12 DEF PlanInv
  <2>2. r >= Unvisited /\ r >= 0 /\ r <= cap * k /\ (t - 1) * k < r
    BY <1>2, <1>3, <1>4, <1>7, <2>1 DEF PlanAddsUp, r, cap, k
  <2>3. /\ (t - 1) * (k - 1) <= r - t
        /\ \A a \in Int : r <= a * k => t <= a /\ r - t <= a * (k - 1)
        /\ \A a \in Int : (a - 1) * k <= r /\ r <= a * k =>
             t \in {a - 1, a} /\ (a - 1) * (k - 1) <= r - t
    BY <1>2, <1>3, <1>4, <2>2, ShareStep
  <2>4. t <= cap /\ r - t <= cap * (k - 1)
    BY <1>3, <2>2, <2>3
  <2>5. Unvisited' <= sessions_remaining'
    <3>1. CASE m < t
      <4>1. m * (k - 1) <= (t - 1) * (k - 1)
        BY <1>2, <1>4, <1>8, <3>1, TimesMonotonic
      <4>2. m * (k - 1) \in Int /\ (t - 1) * (k - 1) \in Int
        BY <1>2, <1>4, <1>8
      <4> QED
        BY <1>3, <1>4, <1>5, <1>7, <2>3, <3>1, <4>1, <4>2
    <3>2. CASE ~(m < t)
      BY <1>3, <1>5, <1>7, <1>8, <2>2, <3>2
    <3> QED
      BY <3>1, <3>2
  <2>6. sessions_remaining' <= r - t /\ sessions_remaining' \in Int
    BY <1>3, <1>4, <1>5, <1>8
  <2>7. channels_by_count' = {} => sessions_remaining' = 0
    <3>1. SUFFICES ASSUME channels_by_count' = {} PROVE sessions_remaining' = 0
      OBVIOUS
    <3>2. k = 1
      <4>1. Left' = 0
        BY <3>1, FS_EmptySet DEF Left
      <4> QED
        BY <1>2, <1>6, <4>1
    <3>3. r = t
      BY <1>3, <1>4, <2>2, <3>2
    <3>4. Unvisited' = 0
      BY <1>7, <1>8, <3>2
    <3> QED
      BY <1>3, <1>4, <1>5, <1>7, <1>8, <2>2, <3>3, <3>4
  <2>8. total_sessions_' + Cardinality(Asked(mu_))' =
          TargetTotalSessions(Requested)' - sessions_remaining' + Unvisited'
    <3>1. /\ TargetTotalSessions(Requested)' = TargetTotalSessions(Requested)
          /\ TargetTotalSessions(Requested) \in Int
      BY <1>3, <1>5, OptionsFacts DEF TargetTotalSessions, Requested
    <3>2. total_sessions_ + Cardinality(Asked(mu_)) =
            TargetTotalSessions(Requested) - r + Unvisited
      BY <2>1 DEF PlanAddsUp, r
    <3>3. /\ Cardinality(Asked(mu_)) \in Nat
          /\ create_counts[mu_] \in [Channels -> Nat]
          /\ Asked(mu_) = Asks(create_counts[mu_])
          /\ Asked(mu_)' = Asks(create_counts'[mu_])
      <4>1. Asked(mu_)' = Asks(create_counts'[mu_])
        BY <1>9 DEF Asked, Asks
      <4> QED
        BY <1>1, <1>10, <4>1, AskedIsAsks
    <3>4. CASE m < t
      <4>1. t - m \in Nat
        BY <1>4, <1>8, <3>4
      <4>2. Cardinality(Asks([create_counts[mu_] EXCEPT ![c] = t - m])) =
              Cardinality(Asks(create_counts[mu_]))
                - create_counts[mu_][c] + (t - m)
        BY <3>3, <4>1, AsksUpdate
      <4>3. Cardinality(Asked(mu_))' = Cardinality(Asked(mu_)) + (t - m)
        BY <1>8, <3>3, <3>4, <4>1, <4>2
      <4>4. /\ sessions_remaining' = r - t /\ Unvisited' = Unvisited - m
            /\ Unvisited \in Int /\ t \in Int /\ m \in Int /\ r \in Int
            /\ total_sessions_' = total_sessions_ /\ total_sessions_ \in Int
        BY <1>3, <1>4, <1>5, <1>7, <1>8, <3>4
      <4> QED
        BY <3>1, <3>2, <3>3, <4>3, <4>4
    <3>5. CASE ~(m < t)
      <4>1. Asked(mu_)' = Asked(mu_)
        BY <1>5, <3>5 DEF Asked
      <4> QED
        BY <1>3, <1>5, <1>7, <1>8, <3>1, <3>2, <3>3, <3>5, <4>1
    <3> QED
      BY <3>4, <3>5
  <2>9. PlanAddsUp'
    <3>1. sessions_remaining' <= cap * (k - 1)
      BY <1>2, <1>3, <1>4, <2>4, <2>6
    <3> QED
      BY <1>6, <2>5, <2>7, <2>8, <3>1 DEF PlanAddsUp, cap
  <2>10. \A d \in Channels :
           /\ After(d) \in Nat
           /\ After(d)' = IF d # c THEN After(d) ELSE IF m < t THEN t ELSE m
    BY <1>1, <1>3, <1>4, <1>5, <1>8 DEF After, m
  <2>11. \A d \in CallsOf(mu_)' : (d = c /\ m < t) \/ (d # c /\ d \in CallsOf(mu_))
    BY <1>1, <1>5, <1>8, <1>9 DEF CallsOf
  <2>12. SharesDecrease'
    <3>1. ASSUME NEW d \in Channels \ channels_by_count'
          PROVE  sessions_remaining' <= After(d)' * (k - 1)
      <4>1. CASE d # c
        <5>1. d \in Channels \ channels_by_count
          BY <1>5, <3>1, <4>1
        <5>2. r <= After(d) * k /\ After(d) \in Nat
          BY <2>1, <2>10, <5>1 DEF SharesDecrease, r, k
        <5>3. r - t <= After(d) * (k - 1) /\ After(d) * (k - 1) \in Int
          BY <1>2, <2>3, <5>2
        <5> QED
          BY <1>3, <1>4, <2>6, <2>10, <4>1, <5>3
      <4>2. CASE d = c /\ m < t
        <5>1. r - t <= t * (k - 1)
          BY <1>4, <2>3
        <5> QED
          BY <1>5, <2>10, <4>2, <5>1
      <4>3. CASE d = c /\ ~(m < t)
        <5>1. r <= m * k
          <6>1. t * k <= m * k
            BY <1>2, <1>4, <1>8, <4>3, TimesMonotonic
          <6>2. t * k \in Int /\ m * k \in Int
            BY <1>2, <1>4, <1>8
          <6> QED
            BY <1>3, <1>4, <6>1, <6>2
        <5>2. r - t <= m * (k - 1) /\ m * (k - 1) \in Int
          BY <1>2, <1>8, <2>3, <5>1
        <5>3. After(d)' = m
          BY <2>10, <4>3
        <5> QED
          BY <1>3, <1>4, <2>6, <5>2, <5>3
      <4> QED
        BY <4>1, <4>2, <4>3
    <3> QED
      BY <1>6, <3>1 DEF SharesDecrease
  <2>13. PlanIsEven'
    <3>1. SUFFICES ASSUME NEW e \in CallsOf(mu_)'
                   PROVE  /\ \A d \in Channels \ channels_by_count' :
                               After(e)' <= After(d)' + 1
                          /\ \A d \in channels_by_count' :
                               session_count'[d] < After(e)'
                          /\ (After(e)' - 1) * (k - 1) <= sessions_remaining'
                          /\ sessions_remaining' <= After(e)' * (k - 1)
      BY <1>6 DEF PlanIsEven
    <3>2. e \in Channels
      BY DEF CallsOf
    <3>3. CASE e = c /\ m < t
      <4>1. After(e)' = t /\ sessions_remaining' = r - t
        BY <1>5, <2>10, <3>3
      <4>2. ASSUME NEW d \in Channels \ channels_by_count'
            PROVE  t <= After(d)' + 1
        <5>1. CASE d = c
          BY <1>4, <2>10, <3>3, <5>1
        <5>2. CASE d # c
          <6>1. r <= After(d) * k /\ After(d) \in Nat
            BY <1>5, <2>1, <2>10, <4>2, <5>2 DEF SharesDecrease, r, k
          <6>2. t <= After(d)
            BY <2>3, <6>1
          <6> QED
            BY <1>4, <2>10, <5>2, <6>1, <6>2
        <5> QED
          BY <5>1, <5>2
      <4>3. \A d \in channels_by_count' : session_count'[d] < t
        BY <1>1, <1>3, <1>4, <1>5, <1>8, <3>3
      <4>4. r - t <= t * (k - 1)
        BY <1>4, <2>3
      <4> QED
        BY <2>3, <4>1, <4>2, <4>3, <4>4
    <3>4. CASE e # c /\ e \in CallsOf(mu_)
      <4> DEFINE a == After(e)
      <4>1. /\ a \in Nat /\ After(e)' = a
            /\ \A d \in Channels \ channels_by_count : a <= After(d) + 1
            /\ \A d \in channels_by_count : session_count[d] < a
            /\ (a - 1) * k <= r /\ r <= a * k
        BY <2>1, <2>10, <3>2, <3>4 DEF PlanIsEven, r, k
      <4> HIDE DEF a
      <4>2. t \in {a - 1, a} /\ (a - 1) * (k - 1) <= r - t
        BY <2>3, <4>1
      <4>3. r - t <= a * (k - 1)
        BY <2>3, <4>1
      <4>4. m < a
        BY <1>1, <4>1 DEF m
      <4>5. sessions_remaining' = r - t /\ (~(m < t) => m = t)
        BY <1>3, <1>4, <1>5, <1>8, <4>1, <4>2, <4>4
      <4>6. After(c)' = t
        BY <1>1, <2>10, <4>5
      <4>7. ASSUME NEW d \in Channels \ channels_by_count'
            PROVE  a <= After(d)' + 1
        <5>1. CASE d = c
          BY <1>4, <4>1, <4>2, <4>6, <5>1
        <5>2. CASE d # c
          BY <1>5, <2>10, <4>1, <4>7, <5>2
        <5> QED
          BY <5>1, <5>2
      <4>8. \A d \in channels_by_count' : session_count'[d] < a
        BY <1>5, <4>1
      <4> QED
        BY <4>1, <4>2, <4>3, <4>5, <4>7, <4>8
    <3> QED
      BY <2>11, <3>1, <3>3, <3>4
  <2>14. Sized'
    <3>1. ASSUME NEW p \in Procs
          PROVE  /\ total_sessions_' + Cardinality(Asked(p)') <= max_pool_size_
                 /\ \A d \in Channels :
                      session_count'[d] + create_counts'[p][d] <= cap
      <4>1. CASE p # mu_
        <5>1. create_counts'[p] = create_counts[p]
          BY <1>1, <1>3, <1>5, <4>1
        <5>2. Asked(p)' = Asked(p)
          BY <5>1 DEF Asked
        <5> QED
          BY <1>5, <5>1, <5>2 DEF Sized, cap
      <4>2. CASE p = mu_
        <5>1. /\ TargetTotalSessions(Requested)' <= max_pool_size_
              /\ TargetTotalSessions(Requested)' \in Int
          BY <1>3, <1>5, OptionsFacts DEF TargetTotalSessions, Requested
        <5>2. total_sessions_' + Cardinality(Asked(mu_))' <= max_pool_size_
          BY <1>7, <2>5, <2>6, <2>8, <5>1, OptionsFacts
        <5>3. \A d \in Channels : session_count'[d] + create_counts'[mu_][d] <= cap
          BY <1>1, <1>3, <1>4, <1>5, <1>8, <2>4 DEF Sized, cap, m
        <5>4. Cardinality(Asked(p)') = Cardinality(Asked(mu_))'
          BY <1>9, <4>2 DEF Asked
        <5> QED
          BY <4>2, <5>2, <5>3, <5>4
      <4> QED
        BY <4>1, <4>2
    <3> QED
      BY <3>1 DEF Sized, cap
  <2> QED
    BY <1>9, <1>12, <2>9, <2>12, <2>13, <2>14 DEF PlanInv
<1>13. pc[mu_] \in {"grow", "grow_async"}
  BY <1>1 DEF PoolInv, Control
<1> QED
  BY <1>11, <1>12, <1>13

\* Grow() starts when nobody has calls in progress.  MaintainPoolSize() asks
\* for a negative number of sessions, the other callers for those requested.
LEMMA StartPlan ==
  ASSUME PoolInv, Sized, NEW p \in Procs, NEW mode, NEW n \in Int,
         StartGrow(p, mode, n), \A q \in Procs : Quiet(q),
         UNCHANGED <<sizeVars, channel, holds, create_counts>>,
         \/ mode = "grow_async" /\ n < 0
         \/ mode = "grow" /\ n = IF p = Pool THEN min_sessions
                                             ELSE min_sessions + 1
  PROVE  PlanInv' /\ Sized'
<1>1. /\ mu_' = p /\ pc'[p] = mode /\ p # Free
      /\ channels_by_count' = Channels
      /\ sessions_remaining' = TargetTotalSessions(n)
      /\ UNCHANGED <<sessions_, total_sessions_, session_count>>
  BY ProcsFacts DEF StartGrow, PoolInv, Placed, TypeOK, sizeVars
<1>2. Sized'
  BY <1>1 DEF Sized, Asked
<1>3. /\ \A c \in Channels : create_counts'[p][c] = 0
      /\ Cardinality(Asked(p)) = 0 /\ Asked(mu_)' = Asked(p)
      /\ CallsOf(mu_)' = {}
  <2>1. /\ \A c \in Channels : create_counts[p][c] = 0
        /\ Cardinality(Asked(p)) = 0
    BY QuietAsksNothing DEF PoolInv, Placed
  <2> QED
    BY <1>1, <2>1 DEF Asked, CallsOf
<1>4. /\ total_sessions_ \in Nat /\ Unvisited' = total_sessions_
      /\ Left' = NumChannels
  <2>1. Pooled \subseteq Sessions /\ IsFiniteSet(Pooled)
    BY PooledIsFinite DEF PoolInv, Placed
  <2>2. SessionsOn(channels_by_count)' = Pooled
    BY <1>1, <2>1 DEF SessionsOn, Pooled, Idle, Held, PoolInv, Placed, TypeOK
  <2> QED
    BY <1>1, <2>1, <2>2, FS_CardinalityType
       DEF Unvisited, Left, NumChannels, PoolInv, Placed, SessionsCounted
<1>5. total_sessions_ <= max_pool_size_
  BY <1>3, <1>4 DEF Sized
<1>6. CASE mode = "grow_async" /\ n < 0
  <2>1. sessions_remaining' < Unvisited'
    BY <1>1, <1>4, <1>5, <1>6, OptionsFacts DEF TargetTotalSessions
  <2> QED
    BY <1>1, <1>2, <1>3, <1>6, <2>1 DEF PlanInv, NothingToPlan
<1>7. CASE mode = "grow" /\ n = IF p = Pool THEN min_sessions
                                            ELSE min_sessions + 1
  <2>1. Requested' = n /\ TargetTotalSessions(Requested)' = TargetTotalSessions(n)
    BY <1>1, <1>7 DEF Requested, TargetTotalSessions
  <2>2. /\ TargetTotalSessions(n) \in Int
        /\ total_sessions_ <= TargetTotalSessions(n)
        /\ TargetTotalSessions(n) <= max_pool_size_
    BY <1>4, <1>5, <1>7, OptionsFacts DEF TargetTotalSessions
  <2>3. PlanAddsUp'
    BY <1>1, <1>3, <1>4, <2>1, <2>2, OptionsFacts, ConstantsAssumption
       DEF PlanAddsUp
  <2>4. PlanIsEven' /\ SharesDecrease'
    BY <1>1, <1>3 DEF PlanIsEven, SharesDecrease
  <2> QED
    BY <1>1, <1>2, <1>3, <1>7, <2>3, <2>4 DEF PlanInv
<1> QED
  BY <1>6, <1>7

\* Sessions that leave the pool make room.
LEMMA SizedShrinks ==
  ASSUME TypeOK, TypeOK', Sized, UNCHANGED create_counts,
         total_sessions_' <= total_sessions_,
         \A c \in Channels : session_count'[c] <= session_count[c]
  PROVE  Sized'
<1>1. ASSUME NEW p \in Procs
      PROVE  /\ total_sessions_' + Cardinality(Asked(p)') <= max_pool_size_
             /\ \A c \in Channels :
                  session_count'[c] + create_counts'[p][c]
                    <= max_sessions_per_channel
  <2>1. Asked(p)' = Asked(p)
    BY DEF Asked
  <2>2. /\ Cardinality(Asked(p)) \in Nat
        /\ \A c \in Channels : create_counts[p][c] \in Nat
    BY AskedIsAsks
  <2>3. /\ total_sessions_ \in Int /\ total_sessions_' \in Int
        /\ \A c \in Channels : session_count[c] \in Int /\ session_count'[c] \in Int
    BY DEF TypeOK
  <2>4. total_sessions_ + Cardinality(Asked(p)) <= max_pool_size_
    BY DEF Sized
  <2>5. \A c \in Channels : session_count[c] + create_counts[p][c]
                              <= max_sessions_per_channel
    BY DEF Sized
  <2> QED
    BY <2>1, <2>2, <2>3, <2>4, <2>5, OptionsFacts
<1> QED
  BY <1>1 DEF Sized

LEMMA ForgetSized ==
  ASSUME TypeOK, TypeOK', Sized, NEW s \in Sessions, ForgetSession(s),
         UNCHANGED create_counts
  PROVE  Sized'
<1>1. /\ total_sessions_' <= total_sessions_
      /\ \A c \in Channels : session_count'[c] <= session_count[c]
  BY DEF TypeOK, ForgetSession
<1> QED
  BY <1>1, SizedShrinks

\* Steps that change nothing a plan is made of.
LEMMA PlanKept ==
  ASSUME PlanInv, Sized,
         UNCHANGED <<sizeVars, channel, holds, planVars, mu_, pc>>
  PROVE  PlanInv' /\ Sized'
<1>1. UNCHANGED <<sessions_, total_sessions_, session_count, create_counts,
                  channels_by_count, sessions_remaining>>
  BY DEF sizeVars, planVars
<1>2. /\ SessionsOn(channels_by_count)' = SessionsOn(channels_by_count)
      /\ Unvisited' = Unvisited /\ Left' = Left
      /\ \A p \in Procs : Asked(p)' = Asked(p)
      /\ Asked(mu_)' = Asked(mu_) /\ CallsOf(mu_)' = CallsOf(mu_)
      /\ \A c : After(c)' = After(c)
  BY <1>1 DEF SessionsOn, Pooled, Idle, Held, Unvisited, Left, Asked, CallsOf,
              After
<1>3. Sized'
  BY <1>1, <1>2 DEF Sized
<1>4. /\ NothingToPlan => NothingToPlan'
      /\ PlanIsEven => PlanIsEven'
      /\ SharesDecrease => SharesDecrease'
  BY <1>1, <1>2 DEF NothingToPlan, PlanIsEven, SharesDecrease
<1>5. PlanAddsUp => PlanAddsUp'
  BY <1>1, <1>2 DEF PlanAddsUp, TargetTotalSessions, Requested
<1> QED
  BY <1>1, <1>3, <1>4, <1>5 DEF PlanInv

LEMMA LoopPlan ==
  ASSUME PoolInv, PoolInv', Sized, NEW t \in Threads, NEW dissociate \in BOOLEAN,
         NEW waiters, AllocateLoop(t, dissociate, waiters), mu_ = Free
  PROVE  PlanInv' /\ Sized'
<1>1. TypeOK /\ TypeOK' /\ t \in Procs /\ t # Pool
  BY ProcsFacts DEF PoolInv, Placed
<1>2. CASE TakeSession(t, dissociate, waiters)
  <2> DEFINE s == sessions_[Len(sessions_)]
  <2>1. mu_' = Free /\ create_counts' = create_counts
    BY <1>2 DEF TakeSession, planVars
  <2>2. s \in Sessions
    <3>1. sessions_ \in Seq(Sessions) /\ sessions_ # <<>>
      BY <1>1, <1>2 DEF TypeOK, TakeSession
    <3> QED
      BY <3>1
  <2>3. CASE dissociate
    <3>1. ForgetSession(s)
      BY <1>2, <2>3 DEF TakeSession
    <3> QED
      BY <1>1, <2>1, <2>2, <3>1, ForgetSized DEF PlanInv
  <2>4. CASE ~dissociate
    <3>1. UNCHANGED <<total_sessions_, session_count>>
      BY <1>2, <2>4 DEF TakeSession
    <3> QED
      BY <2>1, <3>1 DEF PlanInv, Sized, Asked
  <2> QED
    BY <2>3, <2>4
<1>3. CASE FailExhausted(t, waiters) \/ Wait(t, dissociate, waiters)
  <2>1. /\ mu_' = Free
        /\ UNCHANGED <<create_counts, total_sessions_, session_count>>
    BY <1>3 DEF FailExhausted, Wait, planVars, sizeVars
  <2> QED
    BY <2>1 DEF PlanInv, Sized, Asked
<1>4. CASE GrowForCaller(t, dissociate, waiters)
  <2>1. /\ StartGrow(t, "grow", min_sessions + 1) /\ ~Creating
        /\ UNCHANGED <<sizeVars, channel, holds, create_counts>>
    BY <1>4 DEF GrowForCaller, holderVars
  <2>2. \A q \in Procs : Quiet(q)
    BY <1>1, <2>1, NotCreating DEF PoolInv
  <2>3. min_sessions + 1 \in Int
    BY OptionsFacts
  <2> QED
    BY <1>1, <2>1, <2>2, <2>3, StartPlan
<1> QED
  BY <1>2, <1>3, <1>4 DEF AllocateLoop

\* A call that is done has made at most as many sessions as were counted for
\* it.
LEMMA CreatePlan ==
  ASSUME PoolInv, PoolInv', Sized, NEW p \in Procs, NEW c \in Channels,
         CreateSucceeds(p, c) \/ CreateFails(p, c)
  PROVE  PlanInv' /\ Sized'
<1> DEFINE asked == create_counts[p][c]
<1>1. /\ mu_ = Free /\ mu_' = Free /\ asked > 0
      /\ create_counts' = [create_counts EXCEPT ![p][c] = 0]
  BY DEF CreateSucceeds, CreateFails, CallsOf
<1>2. /\ TypeOK /\ TypeOK'
      /\ create_counts \in [Procs -> [Channels -> Nat]]
      /\ total_sessions_ \in Int /\ session_count \in [Channels -> Int]
      /\ asked \in Nat
  BY DEF PoolInv, Placed, TypeOK
<1>3. \E n \in Nat :
        /\ n <= asked
        /\ total_sessions_' = total_sessions_ + n
        /\ session_count' = [session_count EXCEPT ![c] = @ + n]
  <2>1. CASE CreateSucceeds(p, c)
    <3>1. PICK new \in SUBSET Unused :
            /\ Cardinality(new) <= asked
            /\ session_count' = [session_count EXCEPT ![c] = @ + Cardinality(new)]
            /\ total_sessions_' = total_sessions_ + Cardinality(new)
      BY <2>1 DEF CreateSucceeds
    <3>2. Cardinality(new) \in Nat
      BY FS_Subset, FS_CardinalityType, ConstantsAssumption DEF Unused
    <3> QED
      BY <3>1, <3>2
  <2>2. CASE CreateFails(p, c)
    <3>1. /\ total_sessions_' = total_sessions_ + 0
          /\ session_count' = [session_count EXCEPT ![c] = @ + 0]
      BY <1>2, <2>2 DEF CreateFails, sizeVars
    <3>2. 0 \in Nat /\ 0 <= asked
      BY <1>2
    <3> HIDE DEF asked
    <3> QED
      BY <3>1, <3>2
  <2> QED
    BY <2>1, <2>2
<1>4. PICK n \in Nat :
        /\ n <= asked
        /\ total_sessions_' = total_sessions_ + n
        /\ session_count' = [session_count EXCEPT ![c] = @ + n]
  BY <1>3
<1>5. /\ Cardinality(Asked(p)) \in Nat
      /\ Cardinality(Asked(p)') = Cardinality(Asked(p)) - asked
      /\ Cardinality(Asked(p)') \in Nat
  <2>1. /\ Asked(p) = Asks(create_counts[p]) /\ create_counts[p] \in [Channels -> Nat]
        /\ Cardinality(Asked(p)) \in Nat
    BY <1>2, AskedIsAsks
  <2>2. Asked(p)' = Asks([create_counts[p] EXCEPT ![c] = 0])
    BY <1>1, <1>2 DEF Asked, Asks
  <2>3. Cardinality(Asks([create_counts[p] EXCEPT ![c] = 0])) =
          Cardinality(Asks(create_counts[p])) - create_counts[p][c] + 0
    BY <2>1, AsksUpdate
  <2>4. Cardinality(Asks([create_counts[p] EXCEPT ![c] = 0])) \in Nat
    BY <2>1, AsksFinite
  <2> QED
    BY <1>2, <2>1, <2>2, <2>3, <2>4
<1>6. /\ total_sessions_ + Cardinality(Asked(p)) <= max_pool_size_
      /\ \A d \in Channels :
           session_count[d] + create_counts[p][d] <= max_sessions_per_channel
  BY DEF Sized
<1> HIDE DEF asked
<1>7. /\ total_sessions_' + Cardinality(Asked(p)') <= max_pool_size_
      /\ total_sessions_' <= max_pool_size_
  BY <1>2, <1>4, <1>5, <1>6, OptionsFacts
<1>8. \A d \in Channels :
        /\ session_count'[d] <= max_sessions_per_channel
        /\ session_count'[d] + create_counts'[p][d] <= max_sessions_per_channel
  BY <1>1, <1>2, <1>4, <1>6, OptionsFacts DEF asked
<1>9. ASSUME NEW q \in Procs
      PROVE  /\ total_sessions_' + Cardinality(Asked(q)') <= max_pool_size_
             /\ \A d \in Channels :
                  session_count'[d] + create_counts'[q][d]
                    <= max_sessions_per_channel
  <2>1. CASE q = p
    BY <1>7, <1>8, <2>1
  <2>2. CASE q # p
    <3>1. ~Quiet(p)
      BY <1>1 DEF Quiet, asked
    <3>2. Quiet(q)
      BY <2>2, <3>1 DEF PoolInv, Control
    <3>3. /\ Cardinality(Asked(q)) = 0
          /\ \A d \in Channels : create_counts[q][d] = 0
      BY <1>2, <3>2, QuietAsksNothing
    <3>4. create_counts'[q] = create_counts[q]
      BY <1>1, <1>2, <2>2
    <3>5. Asked(q)' = Asked(q)
      BY <3>4 DEF Asked
    <3>6. total_sessions_' \in Int /\ \A d \in Channels : session_count'[d] \in Int
      BY <1>2 DEF TypeOK
    <3> QED
      BY <1>7, <1>8, <3>3, <3>4, <3>5, <3>6
  <2> QED
    BY <2>1, <2>2
<1>10. Sized'
  BY <1>9 DEF Sized
<1> QED
  BY <1>1, <1>10 DEF PlanInv

\* What the rest of the steps do with mu_ free.
LEMMA FreeStepPlan ==
  ASSUME PoolInv, PoolInv', PlanInv, Sized,
         \/ EndGrow
         \/ \E t \in Threads : GrowReturns(t) /\ ~return_status_ok[t]
         \/ InitializeReturns
         \/ Initialize /\ min_sessions = 0
         \/ \E t \in Threads : Reacquire(t) /\ ~WaitPredicate(t)
  PROVE  PlanInv' /\ Sized'
<1>1. /\ mu_' = Free
      /\ UNCHANGED <<total_sessions_, session_count, create_counts>>
  BY DEF EndGrow, GrowReturns, InitializeReturns, Initialize, Reacquire,
         sizeVars, planVars
<1> QED
  BY <1>1 DEF PlanInv, Sized, Asked

LEMMA ReleasePlan ==
  ASSUME PoolInv, PoolInv', Sized, NEW t \in Threads, NEW s \in Sessions,
         Release(t, s)
  PROVE  PlanInv' /\ Sized'
<1>1. mu_' = Free /\ UNCHANGED create_counts
  BY DEF Release, planVars
<1>2. CASE UNCHANGED <<total_sessions_, session_count>>
  BY <1>1, <1>2 DEF PlanInv, Sized, Asked
<1>3. CASE ForgetSession(s)
  BY <1>1, <1>3, ForgetSized DEF PlanInv, PoolInv, Placed
<1> QED
  BY <1>2, <1>3 DEF Release

(***************************************************************************)
(* The invariant and its consequences.                                     *)
(***************************************************************************)
PlannedInv == PoolInv /\ PlanInv /\ Sized

LEMMA InitPlannedInv == Init => PlannedInv
<1> SUFFICES ASSUME Init PROVE PlannedInv
  OBVIOUS
<1>1. PoolInv
  BY InitPoolInv
<1>2. \A p \in Procs : Quiet(p)
  BY DEF Init, Quiet, NoCounts
<1>3. Sized
  <2>1. ASSUME NEW p \in Procs
        PROVE  /\ Cardinality(Asked(p)) = 0
               /\ \A c \in Channels : create_counts[p][c] = 0
    BY <1>1, <1>2, QuietAsksNothing DEF PoolInv, Placed
  <2>2. total_sessions_ = 0 /\ \A c \in Channels : session_count[c] = 0
    BY DEF Init
  <2> QED
    BY <2>1, <2>2, OptionsFacts DEF Sized
<1> QED
  BY <1>1, <1>3 DEF PlannedInv, PlanInv, Init

LEMMA NextPlannedInv == PlannedInv /\ [Next]_vars => PlannedInv'
<1> SUFFICES ASSUME PlannedInv, [Next]_vars PROVE PlannedInv'
  OBVIOUS
<1>0. PoolInv /\ PlanInv /\ Sized /\ PoolInv'
  BY NextPoolInv DEF PlannedInv
<1> SUFFICES PlanInv' /\ Sized'
  BY <1>0 DEF PlannedInv
<1>1. CASE UNCHANGED vars
  BY <1>0, <1>1, PlanKept DEF vars, holderVars
<1>2. CASE \E c \in Channels : ComputeCreateCount(c)
  BY <1>0, <1>2, PlanStep
<1>3. CASE EndGrow
  BY <1>0, <1>3, FreeStepPlan
<1>4. CASE \E p \in Procs, c \in Channels :
             CreateSucceeds(p, c) \/ CreateFails(p, c)
  BY <1>0, <1>4, CreatePlan
<1>5. CASE \E p \in Procs : Notify(p)
  <2>1. UNCHANGED <<sizeVars, channel, holds, planVars, mu_, pc>>
    BY <1>5 DEF Notify, holderVars
  <2> QED
    BY <1>0, <2>1, PlanKept
<1>6. ASSUME NEW t \in Threads,
             \/ \E dissociate \in BOOLEAN : Allocate(t, dissociate)
             \/ Reacquire(t)
             \/ GrowReturns(t)
             \/ SpuriousWakeup(t)
             \/ \E s \in Sessions :
                  SetBad(t, s) \/ Release(t, s) \/ DropDissociated(t, s)
      PROVE  PlanInv' /\ Sized'
  <2>1. dissociate_from_pool[t] \in BOOLEAN
    BY <1>0 DEF PoolInv, Placed, TypeOK
  <2>2. CASE \E dissociate \in BOOLEAN : Allocate(t, dissociate)
    BY <1>0, <2>2, LoopPlan DEF Allocate
  <2>3. CASE Reacquire(t)
    <3>1. CASE ~WaitPredicate(t)
      BY <1>0, <2>3, <3>1, FreeStepPlan
    <3>2. CASE WaitPredicate(t)
      <4>1. /\ AllocateLoop(t, dissociate_from_pool[t],
                            num_waiting_for_session_ - 1)
            /\ mu_ = Free
        BY <2>3, <3>2 DEF Reacquire
      <4> QED
        BY <1>0, <2>1, <4>1, LoopPlan
    <3> QED
      BY <3>1, <3>2
  <2>4. CASE GrowReturns(t)
    <3>1. CASE ~return_status_ok[t]
      BY <1>0, <2>4, <3>1, FreeStepPlan
    <3>2. CASE return_status_ok[t]
      <4>1. /\ AllocateLoop(t, dissociate_from_pool[t], num_waiting_for_session_)
            /\ mu_ = Free
        BY <2>4, <3>2 DEF GrowReturns
      <4> QED
        BY <1>0, <2>1, <4>1, LoopPlan
    <3> QED
      BY <3>1, <3>2
  <2>5. CASE SpuriousWakeup(t)
    <3>1. UNCHANGED <<sizeVars, channel, holds, planVars, mu_, pc>>
      BY <2>5 DEF SpuriousWakeup, holderVars
    <3> QED
      BY <1>0, <3>1, PlanKept
  <2>6. ASSUME NEW s \in Sessions, SetBad(t, s) \/ DropDissociated(t, s)
        PROVE  PlanInv' /\ Sized'
    <3>1. UNCHANGED <<sizeVars, channel, holds, planVars, mu_, pc>>
      BY <2>6 DEF SetBad, DropDissociated
    <3> QED
      BY <1>0, <3>1, PlanKept
  <2> QED
    BY <1>0, <1>6, <2>2, <2>3, <2>4, <2>5, <2>6, ReleasePlan
<1>7. CASE Initialize
  <2>1. CASE min_sessions = 0
    BY <1>0, <1>7, <2>1, FreeStepPlan
  <2>2. CASE min_sessions # 0
    <3>1. /\ StartGrow(Pool, "grow", min_sessions) /\ pc[Pool] = "init"
          /\ UNCHANGED <<sizeVars, channel, holds, create_counts>>
      BY <1>7, <2>2 DEF Initialize, holderVars
    <3>2. \A q \in Procs : Quiet(q)
      BY <1>0, <3>1, ProcsFacts DEF PoolInv, Control
    <3> QED
      BY <1>0, <3>1, <3>2, StartPlan, ProcsFacts, OptionsFacts
  <2> QED
    BY <2>1, <2>2
<1>8. CASE InitializeReturns
  BY <1>0, <1>8, FreeStepPlan
<1>9. CASE MaintainPoolSize
  <2>1. /\ StartGrow(Pool, "grow_async", total_sessions_ - min_sessions)
        /\ total_sessions_ < min_sessions /\ ~Creating /\ mu_ = Free
        /\ UNCHANGED <<sizeVars, channel, holds, create_counts>>
    BY <1>9 DEF MaintainPoolSize, holderVars
  <2>2. \A q \in Procs : Quiet(q)
    BY <1>0, <2>1, NotCreating DEF PoolInv, Placed
  <2>3. total_sessions_ - min_sessions \in Int /\ total_sessions_ - min_sessions < 0
    BY <1>0, <2>1, OptionsFacts DEF PoolInv, Placed, TypeOK
  <2> QED
    BY <1>0, <2>1, <2>2, <2>3, StartPlan, ProcsFacts
<1> QED
  BY <1>1, <1>2, <1>3, <1>4, <1>5, <1>6, <1>7, <1>8, <1>9 DEF Next

\* PlannedInv holds in every behaviour of the pool.
THEOREM PlannedInvariance == Spec => []PlannedInv
  BY InitPlannedInv, NextPlannedInv, PTL DEF Spec

\* A plan creates exactly the sessions that were requested, or as many as fit
\* in the pool, however unequal the channels are when Grow() starts.
THEOREM PlanMeetsTargetCorrect == Spec => []PlanMeetsTarget
<1>1. PlannedInv => PlanMeetsTarget
  <2> SUFFICES ASSUME PlannedInv, Planned, pc[mu_] = "grow"
               PROVE  total_sessions_ + Cardinality(Asked(mu_)) =
                        TargetTotalSessions(Requested)
    BY DEF PlanMeetsTarget, TargetTotalSessions, Requested
  <2>1. PlanAddsUp /\ channels_by_count = {} /\ sessions_remaining = 0
    BY DEF PlannedInv, PlanInv, Planned, PlanAddsUp
  <2>2. Unvisited = 0
    <3>1. SessionsOn(channels_by_count) = {}
      BY <2>1 DEF SessionsOn
    <3> QED
      BY <3>1, FS_EmptySet DEF Unvisited
  <2>3. TargetTotalSessions(Requested) \in Int
    BY OptionsFacts DEF TargetTotalSessions, Requested, PlannedInv, PoolInv,
                        Placed, TypeOK
  <2> QED
    BY <2>1, <2>2, <2>3 DEF PlanAddsUp
<1> QED
  BY <1>1, PlannedInvariance, PTL

\* A channel to which a plan gives sessions ends at most one session above any
\* other channel.
THEOREM PlanIsBalancedCorrect == Spec => []PlanIsBalanced
<1>1. PlannedInv => PlanIsBalanced
  <2> SUFFICES ASSUME PlannedInv, Planned, NEW c \in CallsOf(mu_), NEW d \in Channels
               PROVE  After(c) <= After(d) + 1
    BY DEF PlanIsBalanced, After
  <2>1. mu_ \in Procs /\ mu_ # Free /\ pc[mu_] \in {"grow", "grow_async"}
    BY DEF PlannedInv, PoolInv, Placed, TypeOK, Control, Planned
  <2>2. pc[mu_] # "grow_async"
    BY <2>1 DEF PlannedInv, PlanInv, NothingToPlan, CallsOf
  <2> QED
    BY <2>1, <2>2 DEF PlannedInv, PlanInv, PlanIsEven, Planned
<1> QED
  BY <1>1, PlannedInvariance, PTL

\* Whatever the channels hold when it is made, a plan of Grow() is exact and
\* balanced.
THEOREM PlanIsSoundCorrect == Spec => []PlanIsSound
  BY PlanMeetsTargetCorrect, PlanIsBalancedCorrect, PTL DEF PlanIsSound

\* Sessions that exist and sessions that are being created never exceed the
\* limits of the pool and of each channel.
THEOREM MaxPoolSizeCorrect == Spec => []MaxPoolSize
<1>1. PlannedInv => MaxPoolSize
  <2> SUFFICES ASSUME PlannedInv PROVE MaxPoolSize
    OBVIOUS
  <2>1. /\ PoolInv /\ TypeOK /\ total_sessions_ \in Int
        /\ \A c \in Channels : session_count[c] \in Int
    BY DEF PlannedInv, PoolInv, Placed, TypeOK
  <2>2. ASSUME NEW p \in Procs
        PROVE  /\ total_sessions_ + Cardinality(Asked(p)) <= max_pool_size_
               /\ \A c \in Channels : session_count[c] + create_counts[p][c]
                                        <= max_sessions_per_channel
    BY DEF PlannedInv, Sized
  <2>3. CASE \A p \in Procs : Quiet(p)
    <3>1. \A p \in Procs : Asked(p) = {}
      BY <2>1, <2>3, QuietAsksNothing
    <3>2. AllAsked = {}
      BY <3>1 DEF AllAsked
    <3>3. Cardinality(AllAsked) = 0
      BY <3>2, FS_EmptySet
    <3>4. \A c \in Channels : Cardinality({a \in AllAsked : a[2][1] = c}) = 0
      BY <3>2, FS_EmptySet
    <3>5. /\ Cardinality(Asked(Pool)) = 0
          /\ \A c \in Channels : create_counts[Pool][c] = 0
      BY <2>1, <2>3, QuietAsksNothing, ProcsFacts
    <3>6. Pool \in Procs
      BY ProcsFacts
    <3> QED
      BY <2>2, <3>3, <3>4, <3>5, <3>6 DEF MaxPoolSize
  <2>4. ASSUME NEW p \in Procs, ~Quiet(p)
        PROVE  MaxPoolSize
    <3>1. \A q \in Procs : q # p => Asked(q) = {}
      BY <2>1, <2>4, QuietAsksNothing DEF PoolInv, Control
    <3>2. AllAsked = {p} \X Asked(p)
      BY <3>1 DEF AllAsked
    <3>3. /\ IsFiniteSet({p}) /\ Cardinality({p}) = 1
      BY FS_Singleton
    <3>4. /\ IsFiniteSet(Asked(p)) /\ Cardinality(Asked(p)) \in Nat
          /\ create_counts[p] \in [Channels -> Nat]
      BY <2>1, AskedIsAsks, AsksFinite
    <3>5. Cardinality(AllAsked) = Cardinality(Asked(p))
      <4>1. Cardinality({p} \X Asked(p)) = Cardinality({p}) * Cardinality(Asked(p))
        BY <3>3, <3>4, FS_Product
      <4> QED
        BY <3>2, <3>3, <3>4, <4>1
    <3>6. ASSUME NEW c \in Channels
          PROVE  Cardinality({a \in AllAsked : a[2][1] = c}) = create_counts[p][c]
      <4> DEFINE part == {c} \X (1 .. create_counts[p][c])
      <4>1. create_counts[p][c] \in Nat
        BY <3>4
      <4>2. IsFiniteSet(part) /\ Cardinality(part) = create_counts[p][c]
        BY <4>1, PartCount
      <4>3. Cardinality({p} \X part) = Cardinality({p}) * Cardinality(part)
        BY <3>3, <4>2, FS_Product
      <4>4. {a \in AllAsked : a[2][1] = c} = {p} \X part
        <5>1. \A x \in Asked(p) : x[1] = c <=> x \in part
          BY DEF Asked
        <5>2. part \subseteq Asked(p)
          BY DEF Asked
        <5> HIDE DEF part
        <5> QED
          BY <3>2, <5>1, <5>2
      <4>5. Cardinality({p} \X part) = create_counts[p][c]
        <5> HIDE DEF part
        <5> QED
          BY <3>3, <4>1, <4>2, <4>3
      <4> QED
        BY <4>4, <4>5
    <3> QED
      BY <2>2, <3>5, <3>6 DEF MaxPoolSize
  <2> QED
    BY <2>3, <2>4
<1> QED
  BY <1>1, PlannedInvariance, PTL

(***************************************************************************)
(* The pool implements AbstractSessionPool, with the idle sessions for     *)
(* idle, the holders for lent and given, and the bad sessions for lost.    *)
(***************************************************************************)
LEMMA AbstractState ==
  /\ Abstract!Lent = Held /\ Abstract!Given = Dissociated
  /\ Abstract!absVars = <<Idle, holds, dissociated, is_bad>>
  BY DEF Abstract!Lent, Abstract!Given, Abstract!absVars, Held, Dissociated

\* A step that moves no session is invisible.
LEMMA Stutters ==
  ASSUME UNCHANGED <<sessions_, holds, dissociated, is_bad>>
  PROVE  UNCHANGED Abstract!absVars
  BY DEF Abstract!absVars, Idle

\* A response of BatchCreateSessions() is Create: the new sessions fit.
LEMMA CreateRefines ==
  ASSUME PlannedInv, PlannedInv', NEW p \in Procs, NEW c \in Channels,
         CreateSucceeds(p, c)
  PROVE  Abstract!AbsNext
<1>1. PICK new \in SUBSET Unused :
        /\ new # {}
        /\ is_bad' = is_bad \ new
        /\ sessions_' \in Orders(Idle \cup new)
  BY DEF CreateSucceeds
<1>2. UNCHANGED <<holds, dissociated>>
  BY DEF CreateSucceeds
<1>3. new \in SUBSET Sessions /\ new \cap (Idle \cup Held \cup Dissociated) = {}
  BY DEF Unused
<1>4. Idle' = Idle \cup new
  <2>1. Idle \cup new \subseteq Sessions
    BY <1>3 DEF PlannedInv, PoolInv, Placed, TypeOK, Idle
  <2>2. IsFiniteSet(Idle \cup new)
    BY <2>1, FS_Subset, ConstantsAssumption
  <2> QED
    BY <1>1, <2>2, OrdersAreDistinct, OwnershipParts
<1>5. Cardinality(Idle \cup Held \cup new) <= max_pool_size_
  <2>1. Idle \cup Held \cup new = Pooled'
    BY <1>2, <1>4 DEF Pooled, Held
  <2>2. total_sessions_' = Cardinality(Pooled')
    BY DEF PlannedInv, PoolInv, Placed, SessionsCounted
  <2>3. total_sessions_' + Cardinality(Asked(p)') <= max_pool_size_
    BY DEF PlannedInv, Sized
  <2>4. Cardinality(Asked(p)') \in Nat /\ total_sessions_' \in Int
    <3>1. create_counts'[p] \in [Channels -> Nat] /\ total_sessions_' \in Int
      BY DEF PlannedInv, PoolInv, Placed, TypeOK
    <3>2. Asked(p)' = Asks(create_counts'[p])
      BY DEF Asked, Asks
    <3> QED
      BY <3>1, <3>2, AsksFinite
  <2>5. total_sessions_' <= max_pool_size_
    BY <2>3, <2>4, OptionsFacts
  <2> QED
    BY <2>1, <2>2, <2>5
<1>6. Abstract!Create(new)
  <2>1. Abstract!Cardinality(Idle \cup Held \cup new) =
          Cardinality(Idle \cup Held \cup new)
    BY DEF Abstract!Cardinality, Cardinality
  <2> QED
    BY <1>1, <1>2, <1>3, <1>4, <1>5, <2>1, AbstractState DEF Abstract!Create
<1> QED
  BY <1>3, <1>6 DEF Abstract!AbsNext

\* Allocate() lends the last idle session, or gives it away.
LEMMA TakeRefines ==
  ASSUME PlannedInv, NEW t \in Threads, NEW dissociate \in BOOLEAN, NEW waiters,
         TakeSession(t, dissociate, waiters)
  PROVE  Abstract!AbsNext
<1> DEFINE s == sessions_[Len(sessions_)]
<1>1. s \in Sessions /\ s \in Idle /\ Idle' = Idle \ {s} /\ is_bad' = is_bad
  <2>1. /\ sessions_ \in Seq(Sessions) /\ sessions_ # <<>> /\ Distinct(sessions_)
        /\ sessions_' = PopBack(sessions_) /\ is_bad' = is_bad
    BY OwnershipParts DEF PlannedInv, PoolInv, Placed, TypeOK, TakeSession
  <2> QED
    BY <2>1, PopBackRemoves, OwnershipParts
<1>2. \/ /\ dissociated' = [dissociated EXCEPT ![t] = @ \cup {s}]
         /\ holds' = holds
      \/ /\ holds' = [holds EXCEPT ![t] = @ \cup {s}]
         /\ dissociated' = dissociated
  BY DEF TakeSession
<1> HIDE DEF s
<1>3. Abstract!Lend(t, s) \/ Abstract!Give(t, s)
  BY <1>1, <1>2 DEF Abstract!Lend, Abstract!Give
<1> QED
  BY <1>1, <1>3 DEF Abstract!AbsNext

\* The deleters of the holders, and what a holder learns of its session.
LEMMA HolderRefines ==
  ASSUME PlannedInv, NEW t \in Threads, NEW s \in Sessions,
         SetBad(t, s) \/ Release(t, s) \/ DropDissociated(t, s)
  PROVE  Abstract!AbsNext
<1>1. CASE SetBad(t, s)
  <2>1. /\ UNCHANGED <<sessions_, holds, dissociated>>
        /\ is_bad' = is_bad \cup {s} /\ s \in holds[t] \cup dissociated[t]
    BY <1>1 DEF SetBad, sizeVars
  <2>2. Idle' = Idle /\ s \in Held \cup Dissociated
    BY <2>1 DEF Idle, Held, Dissociated
  <2>3. Abstract!Lose(s)
    BY <2>1, <2>2, AbstractState DEF Abstract!Lose
  <2> QED
    BY <2>3 DEF Abstract!AbsNext
<1>2. CASE Release(t, s)
  <2>1. /\ s \in holds[t] /\ holds' = [holds EXCEPT ![t] = @ \ {s}]
        /\ UNCHANGED <<dissociated, is_bad>>
    BY <1>2 DEF Release
  <2>2. Idle' = IF s \in is_bad THEN Idle ELSE Idle \cup {s}
    <3>1. CASE s \in is_bad
      BY <1>2, <3>1 DEF Release, IsBad, Idle
    <3>2. CASE s \notin is_bad
      <4>1. sessions_' = Append(sessions_, s)
        BY <1>2, <3>2 DEF Release, IsBad
      <4>2. /\ sessions_ \in Seq(Sessions) /\ Distinct(sessions_)
            /\ s \notin Elements(sessions_)
        BY <2>1, OwnershipParts
           DEF PlannedInv, PoolInv, Placed, TypeOK, Held
      <4>3. Elements(sessions_') = Elements(sessions_) \cup {s}
        BY <4>1, <4>2, AppendAdds
      <4> QED
        BY <3>2, <4>3, OwnershipParts
    <3> QED
      BY <3>1, <3>2
  <2>3. Abstract!Return(t, s)
    BY <2>1, <2>2 DEF Abstract!Return
  <2> QED
    BY <2>3 DEF Abstract!AbsNext
<1>3. CASE DropDissociated(t, s)
  <2>1. /\ s \in dissociated[t]
        /\ dissociated' = [dissociated EXCEPT ![t] = @ \ {s}]
        /\ UNCHANGED <<sessions_, holds, is_bad>>
    BY <1>3 DEF DropDissociated, sizeVars
  <2>2. Abstract!Drop(t, s)
    BY <2>1 DEF Abstract!Drop, Idle
  <2> QED
    BY <2>2 DEF Abstract!AbsNext
<1> QED
  BY <1>1, <1>2, <1>3

LEMMA LoopRefines ==
  ASSUME PlannedInv, NEW t \in Threads, NEW dissociate \in BOOLEAN, NEW waiters,
         AllocateLoop(t, dissociate, waiters)
  PROVE  [Abstract!AbsNext]_(Abstract!absVars)
<1>1. CASE TakeSession(t, dissociate, waiters)
  BY <1>1, TakeRefines
<1>2. CASE \/ FailExhausted(t, waiters)
           \/ Wait(t, dissociate, waiters)
           \/ GrowForCaller(t, dissociate, waiters)
  <2>1. UNCHANGED <<sessions_, holds, dissociated, is_bad>>
    BY <1>2 DEF FailExhausted, Wait, GrowForCaller, sizeVars, holderVars
  <2> QED
    BY <2>1, Stutters
<1> QED
  BY <1>1, <1>2 DEF AllocateLoop

LEMMA NextRefines ==
  PlannedInv /\ PlannedInv' /\ [Next]_vars => [Abstract!AbsNext]_(Abstract!absVars)
<1> SUFFICES ASSUME PlannedInv, PlannedInv', [Next]_vars
             PROVE  [Abstract!AbsNext]_(Abstract!absVars)
  OBVIOUS
<1>1. CASE \/ UNCHANGED vars
           \/ \E c \in Channels : ComputeCreateCount(c)
           \/ EndGrow
           \/ \E p \in Procs, c \in Channels : CreateFails(p, c)
           \/ \E p \in Procs : Notify(p)
           \/ \E t \in Threads : SpuriousWakeup(t)
           \/ Initialize
           \/ InitializeReturns
           \/ MaintainPoolSize
  <2>1. UNCHANGED <<sessions_, holds, dissociated, is_bad>>
    BY <1>1 DEF vars, ComputeCreateCount, EndGrow, CreateFails, Notify,
                SpuriousWakeup, Initialize, InitializeReturns,
                MaintainPoolSize, sizeVars, holderVars
  <2> QED
    BY <2>1, Stutters
<1>2. ASSUME NEW p \in Procs, NEW c \in Channels, CreateSucceeds(p, c)
      PROVE  Abstract!AbsNext
  BY <1>2, CreateRefines
<1>3. ASSUME NEW t \in Threads, NEW dissociate \in BOOLEAN, Allocate(t, dissociate)
      PROVE  [Abstract!AbsNext]_(Abstract!absVars)
  BY <1>3, LoopRefines DEF Allocate
<1>4. ASSUME NEW t \in Threads, Reacquire(t) \/ GrowReturns(t)
      PROVE  [Abstract!AbsNext]_(Abstract!absVars)
  <2>1. dissociate_from_pool[t] \in BOOLEAN
    BY DEF PlannedInv, PoolInv, Placed, TypeOK
  <2>2. CASE \E waiters : AllocateLoop(t, dissociate_from_pool[t], waiters)
    BY <2>1, <2>2, LoopRefines
  <2>3. CASE UNCHANGED <<sizeVars, holderVars>>
    <3>1. UNCHANGED <<sessions_, holds, dissociated, is_bad>>
      BY <2>3 DEF sizeVars, holderVars
    <3> QED
      BY <3>1, Stutters
  <2> QED
    BY <1>4, <2>2, <2>3 DEF Reacquire, GrowReturns
<1>5. ASSUME NEW t \in Threads, NEW s \in Sessions,
             SetBad(t, s) \/ Release(t, s) \/ DropDissociated(t, s)
      PROVE  Abstract!AbsNext
  BY <1>5, HolderRefines
<1> QED
  BY <1>1, <1>2, <1>3, <1>4, <1>5 DEF Next

\* Users of the pool see only steps of AbstractSessionPool: it stays within
\* its size, lends a session to one holder at a time, takes back no session
\* that the service has lost and forgets no other.
THEOREM PoolRefinement == Spec => ImplementsAbstractPool
<1>1. Init => Abstract!AbsInit
  BY DEF Init, Abstract!AbsInit, Idle
<1> QED
  BY <1>1, NextRefines, PlannedInvariance, PTL
     DEF Spec, ImplementsAbstractPool, Abstract!AbsSpec
=============================================================================
