SPECIFICATION FairSpec
CONSTANTS
  N = 3
  Deps <- Chain
  w1 = w1
  w2 = w2
  Worker <- MCWorkers
  Main = main
  CanFail <- OnlyFirst
  CanCancel = FALSE
PROPERTIES
  FailurePropagates
CHECK_DEADLOCK FALSE
