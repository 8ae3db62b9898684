CONSTANTS
  top = top
  src = src
  nested = nested
  target = target
  main = main
  app = app
  build = build
  server = server
  Dir = {top, src, nested, target}
  File = {main, app}
  None = None
  Top = top
  Parent <- ParentOf
  DirSlot = {build}
  FileSlot = {server}
  Target <- TargetOf
  Ignore <- IgnoreOf
  Quiet = 2
  AtStart = {top, target}
  MayRemove = {app}
  MayMoveIn = {app}
  MaxOps = 3
SPECIFICATION FairSpec
INVARIANTS
  TreeIsWatched
  IgnoredStaysQuiet
PROPERTIES
  ChangeIsReported
  BurstIsOneRestart
CHECK_DEADLOCK FALSE
