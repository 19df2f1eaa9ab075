------------------------ MODULE AbstractSessionPool ------------------------
(***************************************************************************)
(* What a session pool promises to its users, whatever it does inside: at  *)
(* most MaxSessions sessions belong to it, it lends a session to one       *)
(* holder at a time, it takes back no session that the service has lost,   *)
(* and it forgets no session that is not lost or given away for good.      *)
(***************************************************************************)
EXTENDS Integers, FiniteSets

CONSTANTS Holders, Sessions, MaxSessions

VARIABLES
  idle,        \* sessions the pool can lend
  lent,        \* sessions each holder returns when it is done
  given,       \* sessions each holder has got for good
  lost         \* sessions the service no longer knows

absVars == <<idle, lent, given, lost>>

Lent == UNION {lent[h] : h \in Holders}
Given == UNION {given[h] : h \in Holders}

AbsInit ==
  /\ idle = {} /\ lost = {}
  /\ lent = [h \in Holders |-> {}]
  /\ given = [h \in Holders |-> {}]

Create(new) ==
  /\ new # {}
  /\ new \cap (idle \cup Lent \cup Given) = {}
  /\ Cardinality(idle \cup Lent \cup new) <= MaxSessions
  /\ idle' = idle \cup new
  /\ lost' = lost \ new
  /\ UNCHANGED <<lent, given>>

Lend(h, s) ==
  /\ s \in idle
  /\ idle' = idle \ {s}
  /\ lent' = [lent EXCEPT ![h] = @ \cup {s}]
  /\ UNCHANGED <<given, lost>>

Give(h, s) ==
  /\ s \in idle
  /\ idle' = idle \ {s}
  /\ given' = [given EXCEPT ![h] = @ \cup {s}]
  /\ UNCHANGED <<lent, lost>>

Lose(s) ==
  /\ s \in Lent \cup Given
  /\ lost' = lost \cup {s}
  /\ UNCHANGED <<idle, lent, given>>

Return(h, s) ==
  /\ s \in lent[h]
  /\ lent' = [lent EXCEPT ![h] = @ \ {s}]
  /\ idle' = IF s \in lost THEN idle ELSE idle \cup {s}
  /\ UNCHANGED <<given, lost>>

Drop(h, s) ==
  /\ s \in given[h]
  /\ given' = [given EXCEPT ![h] = @ \ {s}]
  /\ UNCHANGED <<idle, lent, lost>>

AbsNext ==
  \/ \E new \in SUBSET Sessions : Create(new)
  \/ \E s \in Sessions : Lose(s)
  \/ \E h \in Holders, s \in Sessions :
       Lend(h, s) \/ Give(h, s) \/ Return(h, s) \/ Drop(h, s)

AbsSpec == AbsInit /\ [][AbsNext]_absVars
=============================================================================
