CONSTANTS
  Clients = {c1, c2, c3, c4}
  WriterUnit = 5
  WriterSlots = 5
  Threads = {1, 2, 3}
  OnLinux = FALSE
  MaxDepth = 3
  RwUnit = 20
  OwnerUnit = 100
  None = None
  Readers = {r1, r2, r3}
  Writers = {w1}
  MaxProcNumber = 2
  Processors = {0, 1, 3}
  Loaders = {l1}
  Words = {lo, hi}
  MaxStores = 3
SPECIFICATION MCSpec
INVARIANTS LockInv MutexesHeld WordAndDepth SlotsInv EvenLoadsExact VersionInv
PROPERTIES ImplementsRwLock AttemptsSucceed Isolated OthersAreRwLocks WaitersGetIn
