SPECIFICATION Spec
CONSTANTS
  NewParticles = {p1, p2, p3}
  TopParticles = {p1, p2}
  First = {p1}
  MaxRung = 4
  DualTree = TRUE
  nDT = 1
  Params <- MCParams
  Steps = 2
INVARIANTS
  WritesInSync
PROPERTIES
  IsLeapFrog
  IntegralTimes
  ConeOfTheStep
  ForcesCurrent
