SPECIFICATION Spec
CONSTANTS
  r1 = r1
  r2 = r2
  w1 = w1
  w2 = w2
  Reader = {r1, r2}
  Writer = {w1, w2}
  Cache = {1, 2, 3}
  MaxStore = 1
SYMMETRY Tasks
CHECK_DEADLOCK FALSE
PROPERTY NeverStale
