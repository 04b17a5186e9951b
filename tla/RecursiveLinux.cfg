CONSTANTS
  Threads = {1, 2}
  OnLinux = TRUE
  MaxDepth = 1
  WriterUnit = 16
  OwnerUnit = 64
SPECIFICATION Spec
INVARIANTS ExclusiveAlone
