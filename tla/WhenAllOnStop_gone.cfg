SPECIFICATION Spec
CONSTANTS
  MaxChildren = 1
  ChildCompletions <- MCCompletions
  LazyInMember = FALSE
INVARIANT
  CallbackGoneWhenCompleted
