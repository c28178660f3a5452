SPECIFICATION Spec
CONSTANTS
  Task = {t1}
  Client = {c1, c2}
  Calls <- MemoryCalls
  Target <- AllTargets
  MaxIter = 0
  SerialPerTask = FALSE
  Nil = Nil
SYMMETRY Interchangeable
CHECK_DEADLOCK FALSE
PROPERTY LiveBoard
