CONSTANTS
  Producers = {p1, p2}
  Values = {a, b}
  None = None
  Nodes = {n1, n2, n3}
  Null = Null
  MaxAdds = 3
SPECIFICATION WFairSpec
INVARIANTS NoUseAfterFree  ExecutedInOrder
PROPERTIES EmptyJustified ImplementsFifo StopIsFinal RaisedFlagDrains
CHECK_DEADLOCK FALSE
