SPECIFICATION Spec
CONSTANTS
  Key = {k1, k2, k3, k4, k5}
  nCache = 2
  MaxLock = 1
  NoKey = NoKey
SYMMETRY Symmetry
CHECK_DEADLOCK FALSE
INVARIANTS
  LinesOwned
  NoUpdateLost
PROPERTIES
  FatalOnlyUnderLocks
  LockedKeptUnlessT1Full
