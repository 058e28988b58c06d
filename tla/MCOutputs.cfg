SPECIFICATION Spec
CONSTANTS
  Params <- MCParams
  nSteps = 4
  MaxAsks = 2
  MaxCrashes = 2
INVARIANTS
  OutTimesServed
  RequestsServed
  CanRestart
