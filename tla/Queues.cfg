CONSTANTS
  Values = {a, b}
  None = None
  Producers = {p1, p2}
  Consumers = {c1, c2}
  Nodes = {n1, n2, n3, n4}
  FewNodes = {n1, n2, n3}
  Null = Null
  MaxPreAlloc = 1
  Size = 2
  Modulus = 16
  MaxPos = 4
  BufferSize = 8
  Header = 2
  Sizes = {1, 3, 5}
  MaxByte = 24
  SegmentSizes = {1, 2}
  Objects = {o1, o2, o3}
SPECIFICATION MCSpec
INVARIANTS ListsOwned SlotsOwned RingsInStep SegmentsShared
PROPERTIES ListsAreFifo BoundedAreFifo DeliveredExact ClaimedDelivered ShmReturns
CHECK_DEADLOCK FALSE
