CONSTANTS
  N = 2
  MaxGen = 3
  MayFork = {1}
  MaySurvive = {}
  Recycles = {}
  Client = {c1}
  Requests <- Waits
  MaxInputs = 1
SPECIFICATION LoopSpec
INVARIANTS
  WaitersAreServed
  TeardownHidesExit
CHECK_DEADLOCK FALSE
