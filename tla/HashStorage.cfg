CONSTANTS
  Threads = {t1, t2}
  Keys = {0, 1, 2}
  Values = {v, w}
  None = None
  Dangling = Dangling
  BucketsCount = 2
  ResizeFactor = 2
  MaxSize = 3
  Hash <- HashOfKey
SPECIFICATION FairSpec
INVARIANTS StorageInv
PROPERTIES ImplementsMap ResizeEnds
CHECK_DEADLOCK FALSE
