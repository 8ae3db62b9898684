CONSTANTS
  N = 1
  MaxGen = 2
  MayFork = {}
  MaySurvive = {1}
  Recycles = {}
SPECIFICATION Spec
INVARIANTS
  OverrideIsKnown
CHECK_DEADLOCK FALSE
