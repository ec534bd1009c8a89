SPECIFICATION FairSWSpec
CONSTANTS
  Tasks = {t1, t2}
  Runners = {waiter}
  Callers = {c1, c2}
  Sentinel = Sentinel
  NoOne = NoOne
  MaxStarts = 3
INVARIANTS
  ResultIsCompletion
  LoopOutlivesItsUsers
PROPERTY
  SyncWaitReturns
