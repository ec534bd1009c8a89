SPECIFICATION FairTCSpec
CONSTANTS
  Tasks = {t1, t2}
  Runners = {thrd}
  Callers = {owner, client}
  Owner = owner
  Sentinel = Sentinel
  NoOne = NoOne
  MaxStarts = 3
INVARIANTS
  JoinDrains
PROPERTIES
  JoinReturns
  StartedCompletes
