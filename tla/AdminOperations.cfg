SPECIFICATION Spec
CONSTANTS
  Callers = {c1, c2}
  Assignments <- MCAssignments
  MaxFailures = 1
  MaxPolls = 2
  MaxReruns = 1
  NumPages = 2
INVARIANTS
  AtMostOneExecution
  ResultIsHonest
  NoLostUpdate
PROPERTIES
  CallsReturn
CHECK_DEADLOCK FALSE
