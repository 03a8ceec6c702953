SPECIFICATION FairSpec
CONSTANTS
  N = 3
  Deps <- Join
  w1 = w1
  w2 = w2
  Worker <- MCWorkers
  Main = main
  CanFail <- OnlyFirst
  CanCancel = TRUE
INVARIANTS
  StartsAfterResults
PROPERTIES
  Returns
  FailurePropagates
CHECK_DEADLOCK FALSE
