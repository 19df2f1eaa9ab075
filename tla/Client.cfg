SPECIFICATION Spec
CONSTANTS
  Callers = {c1}
  Sessions = {s1, s2}
  Ids = {i1, i2, i3}
  MaxReruns = 1
  MaxFailures = 1
  MaxRequests = 1
INVARIANTS OutcomeIsHonest NothingLeftOpen SessionsKeptApart
PROPERTIES CommitReturns
CHECK_DEADLOCK FALSE
