SPECIFICATION Spec
CONSTANTS
  Cores = 3
  wqMaxSize = 1
  Tiles = 2
  MaxBuckets = 1
INVARIANTS
  KickedWhenComplete
  PlacesHold
PROPERTIES
  AllKicked
