SPECIFICATION Spec
CONSTANTS
  r1 = r1
  Id = {1, 2, 3, 4, 5, 6, 7, 8, 9}
  Run = {r1}
  Codegen <- Long
  Debug <- Chain
  MaxSteps = 3
  MaxGoals = 1
  MaxMoves = 1
  UserMoves = {"Completed", "Cancelled"}
  MaxIter = 1
  Overlap = FALSE
CHECK_DEADLOCK FALSE
INVARIANTS TypeOK    
PROPERTY RunReturns
