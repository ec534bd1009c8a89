SPECIFICATION Spec
CONSTANTS
  Depth = 1
  Kinds = {"continues_on"}
  Leaves = {"any"}
  Sends = {{"value", "error", "eptr", "stopped"}}
INVARIANT
  CopyFailureIsTheCompletion
