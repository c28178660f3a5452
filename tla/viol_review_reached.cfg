SPECIFICATION Spec
CONSTANTS
  plan = plan
  code = code
  docs = docs
  audit = audit
  chore = chore
  Task = {plan, code, docs, audit, chore}
  Reviews = {audit}
  Parent <- Diamond
  Priority <- Ranks
  Concurrency = 2
  Loaded = {"Pending"}
  Faults <- NoFaults
CHECK_DEADLOCK FALSE
INVARIANT ReviewsReachReview
