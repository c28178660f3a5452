SPECIFICATION Spec
CONSTANTS
  Size = 4
  MCKinds = {"agent", "condition", "end"}
  Node <- Nodes
  Workflows <- AllWorkflows
  MaxConcurrency = 2
  NoBranch = NoBranch
CHECK_DEADLOCK FALSE
INVARIANTS TypeOK InputsComplete AllDecided
PROPERTY Terminates
