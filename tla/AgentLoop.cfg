SPECIFICATION FairSpec
CONSTANTS
  s1 = s1
  Steers <- OneSteer
  MaxSteps = 2
  Continuations = 1
  Recoveries = 1
  Nudges = 1
  Overflows = 1
  StopHooks = TRUE
  Depths <- ShortTail
  MaxRuns = 2
  MaxBefore = 1
INVARIANTS
  StepsAreWhole
  NoSteerSkipped
  Remembered
  EndsOnText
PROPERTY RunEnds
CHECK_DEADLOCK FALSE
