SPECIFICATION Spec
CONSTANTS
  MaxBuf = 4
  Trans = 2
CHECK_DEADLOCK FALSE
INVARIANTS
  LengthsAgree
  InOrder
PROPERTIES
  IsAtomic
