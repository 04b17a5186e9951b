CONSTANTS
  Loaders = {r1}
  Words = {lo, hi}
  MaxStores = 2
SPECIFICATION SeqSpec
INVARIANTS LaterLoadsAreStores
