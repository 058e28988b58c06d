SPECIFICATION LockSpec
CONSTANTS
  Reader = {r1, r2, r3}
  Writer = {w1}
  MaxCombine = 2
SYMMETRY Symmetry
INVARIANTS
  ReadersExcludeWriters
