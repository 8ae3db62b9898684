CONSTANTS
  N = 1
  MaxGen = 1
  MayFork = {1}
  MaySurvive = {1}
  Recycles = {1}
SPECIFICATION FairSpec
INVARIANTS
  OneGenerationAlive
  FinishedMeansGone
  OutcomeIsRecorded
  RestartSparesFinished
  StatusUnlessAbandoned
PROPERTIES
  RestartCompletes
  ShutdownReturns
  OneAtATime
CHECK_DEADLOCK FALSE
