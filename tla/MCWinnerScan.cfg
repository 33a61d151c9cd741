SPECIFICATION Spec
CONSTANTS
  Domains = {0, 1}
  Count = 4
  Fabrics <- MCFabrics
INVARIANTS
  RunningWinner
  RunningCount
CHECK_DEADLOCK FALSE
