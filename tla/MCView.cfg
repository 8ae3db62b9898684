CONSTANTS
  N = 2
  Outputs <- Lines
  Sizes <- Terminals
  Cap = 3
  MaxLines = 4
  NoAnchor = none
SPECIFICATION Spec
INVARIANTS
  WrapLosesNothing
PROPERTIES
  FollowIsKept
  WrapKeepsPlace
  ActsOnWhatIsShown
CHECK_DEADLOCK FALSE
