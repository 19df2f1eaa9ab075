SPECIFICATION Spec
CONSTANTS
  Threads = {t1, t2}
  Pool = Pool
  Channels = {c1, c2}
  Sessions = {s1, s2, s3, s4}
  min_sessions_opt = 1
  max_sessions_per_channel_opt = 2
  action_on_exhaustion = "kFail"
  MaxHeld = 2
  Faults = {"bad", "create", "dissociate"}
SYMMETRY Symmetry
INVARIANTS
  Ownership Accounting MaxPoolSize OneCreator PlanIsSound
PROPERTY ImplementsAbstractPool
