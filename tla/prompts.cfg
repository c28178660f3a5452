SPECIFICATION Spec
CONSTANTS
  p1 = p1
  p2 = p2
  Version = {1, 2, 3}
  Proc = {p1, p2}
SYMMETRY Either
CHECK_DEADLOCK FALSE
INVARIANTS TypeOK GatedActivation PromptRemains
