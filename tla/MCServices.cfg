SPECIFICATION Spec
CONSTANTS
  Procs = 3
  Cores <- MCThree
  Traversals = 2
CHECK_DEADLOCK FALSE
INVARIANTS
  RingHasRoom
  ReplyIsMine
  TreeFollowsProcesses
  CountedOnce
PROPERTIES
  Completes
