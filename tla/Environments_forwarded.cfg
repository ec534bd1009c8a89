SPECIFICATION Spec
CONSTANTS
  MaxDepth = 2
  Written <- MCWritten
INVARIANT
  QueriesForwarded
CHECK_DEADLOCK FALSE
