SPECIFICATION Spec
CONSTANTS
  Task = {t1, t2, t3}
  Client = {c1, c2}
  Calls <- GraphCalls
  Target <- RunTargets
  MaxIter = 0
  SerialPerTask = FALSE
  Nil = Nil
SYMMETRY Interchangeable
CHECK_DEADLOCK FALSE
INVARIANTS GraphAcyclic EdgesPersisted DependencyGates
