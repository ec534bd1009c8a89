SPECIFICATION Spec
CONSTANTS
  Children = 3
  MaxValues = 2
  Alternatives = {"error", "exception_ptr"}
  npos = npos
CHECK_DEADLOCK FALSE
INVARIANTS
  ScanInPlace
  TupleOwnsItsObjects
  ValuesInOrder
  FirstErrorIsKept
