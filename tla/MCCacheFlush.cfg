SPECIFICATION Spec
CONSTANTS
  Proc = {1, 2}
  Cores = 2
  Dedicated = {1}
  Update <- MCCrossing
  RankBuffers = 2
  KeepFree = 2
  CoreBuffers = 1
CHECK_DEADLOCK FALSE
INVARIANTS
  OncePerUpdate
  BarrierHolds
  NothingLeftBehind
PROPERTIES
  Completes
