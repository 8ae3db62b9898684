CONSTANTS
  Run = {r1}
  Client = {c1}
  Ghost = ghost
  NoOne = noone
  Krawattefiles <- Files
  RealDir <- RealFile
  NoFile <- None
  AllSlots = "all"
  WellFormed <- Legal
  AllDigits <- Digits
  Number <- Numbers
  Launches <- Ways
  Asks <- QuitWait
SPECIFICATION FairSpec
INVARIANTS
  QuitWaitSeesExit
CHECK_DEADLOCK FALSE
