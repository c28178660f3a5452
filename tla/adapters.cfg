SPECIFICATION Spec
CONSTANTS
  kernel = kernel
  loader = loader
  own = own
  Proc = {kernel, loader}
  Gated = {kernel}
  Manual = {own}
  MaxRuns = 3
CHECK_DEADLOCK FALSE
INVARIANTS TypeOK Usable JobTruth Remains
PROPERTIES PreviousStays
