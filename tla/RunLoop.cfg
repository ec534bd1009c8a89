SPECIFICATION FairSpec
CONSTANTS
  Tasks = {t1, t2}
  Runners = {r1, r2}
  Callers = {c1, c2}
  Sentinel = Sentinel
  NoOne = NoOne
  MaxStarts = 2
INVARIANTS
  QueueShape
  OnePlace
  CompletesOnce
  NoLostWakeup
  FinishWakesAll
PROPERTY
  ImplementsTaskQueue
