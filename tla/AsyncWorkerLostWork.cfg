CONSTANTS
  Producers = {p1}
  Values = {a}
  None = None
  Nodes = {n1, n2}
  Null = Null
  MaxAdds = 1
SPECIFICATION WFairSpec
PROPERTIES AddedIsExecuted
CHECK_DEADLOCK FALSE
