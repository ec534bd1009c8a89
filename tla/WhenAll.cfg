SPECIFICATION FairSpec
CONSTANTS
  MaxChildren = 3
  ChildCompletions <- MCCompletions
  LazyInMember = TRUE
INVARIANTS
  CountIsNotArrived
  OneErrorWriter
  CompleteReadsWhatWasWritten
  NoAccessAfterCompletion
  
PROPERTIES
  ImplementsJoin
  StopEndsOperation
