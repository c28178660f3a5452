SPECIFICATION Spec
CONSTANTS
  alpha = alpha
  beta = beta
  main = main
  lib = lib
  app = app
  gone = gone
  empty = empty
  long = long
  short = short
  garbled = garbled
  Project = {alpha, beta}
  File = {main, lib, app}
  Owner <- Owners
  Rel <- Paths
  Content = {gone, empty, long, short, garbled}
  Absent = gone
  Unreadable = {garbled}
  Chunks <- Sizes
  Found = {long}
  Racing = FALSE
  MaxEdits = 2
  MaxRestarts = 1
CHECK_DEADLOCK FALSE
PROPERTY Kept
