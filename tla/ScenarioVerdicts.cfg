CONSTANTS
  Agents = {a, b}
  MaxTick = 3
  RotateAt = 1
  MaxReceives = 2
  MaxReplicas = 1
SPECIFICATION FairSpec
INVARIANTS ValidatorNeverRaises VerdictExact EachInsideItsWindow
PROPERTY ShowsRealWindows
CHECK_DEADLOCK FALSE
