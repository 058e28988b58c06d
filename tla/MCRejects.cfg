SPECIFICATION RejectsSpec
CONSTANTS
  Lower <- MCLower
  Upper <- MCUpper
  nStore = 2
INVARIANTS
  StoreNeverOverlaps
  NoneLeftBehind
PROPERTIES
  Ends
