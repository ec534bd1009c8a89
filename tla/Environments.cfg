SPECIFICATION Spec
CONSTANTS
  MaxDepth = 3
  Written <- MCWritten
INVARIANTS
  RequestReachesLeaf
  EnvironmentsAgree
CHECK_DEADLOCK FALSE
