SPECIFICATION ReaderSpec
CONSTANTS
  Stream <- ThreeRows
  NumColumns = 2
  Policies = {"count", "time"}
  MaxFailures = 3
  TokenOnEveryMessage = TRUE
  Misfits <- ThirdRow
  NoRow = NoRow
  Error = Error
CHECK_DEADLOCK FALSE
INVARIANTS RowsInOrder ReadingIsHonest
PROPERTIES EndIsHonest CountedCallsReturn NotAskedAgain LoopEnds
