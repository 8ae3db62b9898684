CONSTANTS
  N = 1
  MaxGen = 4
  MayFork = {}
  MaySurvive = {1}
  Recycles = {}
  Client = {c1, c2}
  Requests <- OneSlot
  MaxInputs = 0
SPECIFICATION FairLoopSpec
INVARIANTS
  ExitShownIsReal
  RunningShownIsReal
  StoppedStaysDown
PROPERTIES
  OverrideIsFollowed
  WaitIsAnswered
CHECK_DEADLOCK FALSE
