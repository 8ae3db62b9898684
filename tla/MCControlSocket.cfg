CONSTANTS
  Run = {r1, r2}
  Client = {c1}
  Ghost = ghost
  NoOne = noone
  Krawattefiles <- Files
  RealDir <- RealFile
  NoFile <- None
  AllSlots = "all"
  WellFormed <- Legal
  AllDigits <- Digits
  Number <- Numbers
  Launches <- AllWays
  Asks <- Questions
SPECIFICATION FairSpec
INVARIANTS
  SocketIsTheirs
  StaleIsReplaced
  ExitTellsTruth
  NamesReachTheirSlot
PROPERTIES
  FoundWhileServing
  QuitIsObeyed
CHECK_DEADLOCK FALSE
