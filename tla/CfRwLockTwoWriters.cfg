CONSTANTS
  Readers = {r1}
  Writers = {w1, w2}
  MaxProcNumber = 2
  Processors = {0, 1}
SPECIFICATION Spec
INVARIANTS WritersExclude
