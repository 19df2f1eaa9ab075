SPECIFICATION Spec
CONSTANTS
  Users = {u1, u2}
  Sessions = {s1, s2}
  Timers = {t1, t2, t3}
  Calls = {k1}
  Owner = Owner
INVARIANTS UsedOnlyAlive OneBackgroundThread
PROPERTIES ConnectionCloses
CHECK_DEADLOCK FALSE
