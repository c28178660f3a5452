SPECIFICATION Spec
CONSTANTS
  plan = plan
  code = code
  docs = docs
  audit = audit
  chore = chore
  Task = {plan, code, docs, audit, chore}
  Reviews = {audit}
  Parent <- Diamond
  Priority <- Ranks
  Concurrency = 2
  Loaded = {"Pending", "Failed", "Completed"}
  Faults <- AllFaults
CHECK_DEADLOCK FALSE
INVARIANTS TypeOK ParentsFirst OnlyOnce
PROPERTIES LegalMoves NoStarvation BatchesEnd ShutdownStops
