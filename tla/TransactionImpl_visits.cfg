SPECIFICATION Spec
CONSTANTS
  Visitors = {v1, v2, v3}
  Sessions = {s1, s2}
  Ids = {id1, id2}
  MaxVisits = 4
CHECK_DEADLOCK FALSE
INVARIANTS ExclusiveUntilBegun OneTransaction TurnIsPassedOn
PROPERTIES NeverRebound EveryVisitProceeds
