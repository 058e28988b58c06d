SPECIFICATION Spec
CONSTANTS
  Proc = {1, 2}
  Cores = 2
  Dedicated = {1}
  Wanted <- MCCrossing
  Receives = 1
  Sessions = 2
  Fetches = 1
CHECK_DEADLOCK FALSE
INVARIANTS
  ServedWhileOpen
  OwnAnswer
PROPERTIES
  Completes
