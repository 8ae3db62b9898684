CONSTANTS
  Proc = {p1, p2, p3}
  Wedged = {p3}
  Grace = 3
  KillReap = 3
  Poll = 1
  Jitter = 1
  Prompt = 1
SPECIFICATION FairSpec
INVARIANTS
  KillAfterGrace
  ReturnedMeansGone
  AbandonedOnlyWedged
  ReturnsInTime
PROPERTIES
  EachSignalOnce
  Returns
  StopsInOrder
CHECK_DEADLOCK FALSE
