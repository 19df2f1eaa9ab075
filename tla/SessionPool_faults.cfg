SPECIFICATION Spec
CONSTANTS
  Threads = {t1, t2, t3}
  Pool = Pool
  Channels = {c1}
  Sessions = {s1, s2, s3}
  min_sessions_opt = 0
  max_sessions_per_channel_opt = 1
  action_on_exhaustion = "kBlock"
  MaxHeld = 1
  Faults = {"bad", "create", "dissociate"}
PROPERTY NoLostWakeup
