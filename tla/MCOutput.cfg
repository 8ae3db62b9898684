CONSTANTS
  N = 2
  Cap = 2
  Block = 1
  MaxGen = 1
  MaxStops = 1
  MaxWrites = 2
  Restarts = {1}
  Talks <- TwoAndOne
SPECIFICATION FairSpec
INVARIANTS
  NoStaleLine
  StreamIsUnbroken
  ViewIsComplete
PROPERTIES
  LinesAreShown
CHECK_DEADLOCK FALSE
