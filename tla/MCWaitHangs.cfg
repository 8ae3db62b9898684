CONSTANTS
  N = 1
  MaxGen = 2
  MayFork = {}
  MaySurvive = {1}
  Recycles = {}
  Client = {c1}
  Requests <- OneSlot
  MaxInputs = 0
SPECIFICATION LoopSpec
INVARIANTS
  NothingLeftMeansAnswered
CHECK_DEADLOCK FALSE
