SPECIFICATION Spec
CONSTANTS
  Sessions = {s1, s2}
  keep_alive_interval = 3
  Period = 2
  Slack = 1
  MaxTime = 15
INVARIANTS LowerBoundHolds KeptAlive
