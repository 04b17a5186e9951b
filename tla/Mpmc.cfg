CONSTANTS
  Threads = {t1, t2, t3}
  Values = {a, b}
  None = None
  Size = 2
  MaxPos = 3
SPECIFICATION FairSpec
INVARIANTS NoDataRace CellLifecycle
PROPERTIES FailureJustified ImplementsFifo CallsReturn
