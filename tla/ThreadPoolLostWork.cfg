CONSTANTS
  Callers = {c1}
  NumThreads = 1
  PoolSize = 2
  MaxWork = 1
  MaxAtDestroy = 1
  None = None
SPECIFICATION FairSpec
PROPERTIES AcceptedIsExecuted
CHECK_DEADLOCK FALSE
