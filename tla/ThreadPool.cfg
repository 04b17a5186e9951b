CONSTANTS
  Callers = {c1, c2}
  NumThreads = 2
  PoolSize = 2
  MaxWork = 4
  MaxAtDestroy = 3
  None = None
SPECIFICATION FairSpec
INVARIANTS FreeListExact ExecutedOnce NoUseAfterDelete GuardNotWanted
PROPERTIES  WrapperReturned
CHECK_DEADLOCK FALSE
