SPECIFICATION Spec
CONSTANTS
  Threads = {t1, t2}
  Callbacks = {c1, c2, c3}
  Head = Head
  Null = Null
  NoThread = NoThread
SYMMETRY Symmetry
INVARIANTS
  LockDiscipline
  ListWellFormed
  AtMostOnce
  NoUseAfterDestroy
  NoCallbackMissed
  SourceDestructible
