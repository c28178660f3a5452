SPECIFICATION Spec
CONSTANTS
  Task = {t1, t2}
  Client = {c1, c2}
  Calls <- WriteCalls
  Target <- RunTargets
  MaxIter = 1
  SerialPerTask = TRUE
  Nil = Nil
SYMMETRY Interchangeable
CHECK_DEADLOCK FALSE
INVARIANTS TypeOK WriteThrough BoardInSync
PROPERTIES NoLostUpdate DurableBoard
