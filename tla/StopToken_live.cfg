SPECIFICATION FairSpec
CONSTANTS
  Threads = {t1, t2}
  Callbacks = {c1, c2}
  Head = Head
  Null = Null
  NoThread = NoThread
PROPERTIES
  RequestIsFinal
  RequestStopReturns
  ImplementsPromise
