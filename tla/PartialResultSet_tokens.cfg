SPECIFICATION Spec
CONSTANTS
  Stream <- ShortRows
  NumColumns = 1
  Policies = {"count"}
  MaxFailures = 2
  TokenOnEveryMessage = FALSE
CHECK_DEADLOCK FALSE
INVARIANT RowsInOrder
