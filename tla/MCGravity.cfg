SPECIFICATION Spec
CONSTANTS
  nBucket = 1
  Width = 32
  MaxRung = 1
  NReserved = 4
  Unbounded = 1000
  Thread = {0, 1, 2}
  HugeCount = 1000
  Layouts <- MCLayouts
  Sizes = {1}
  nMaxStack = 1
  MaxBuilds = 2
  Shift = 16
INVARIANTS
  EachSourceOnce
  IndicesHold
  TreesSound
PROPERTIES
  WalkSpec
  FixedTreeStays
  WalksEnd

