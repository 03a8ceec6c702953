SPECIFICATION FairSpec
CONSTANTS
  n1 = n1
  n2 = n2
  Note <- Two
  LlmLimit = 2
  WireLimit = 1
  MaxCrashes = 1
  MaxFailures = 1
INVARIANTS
  AckedIsSafe
  OneCopy
PROPERTIES
  KeepsPromise
CHECK_DEADLOCK FALSE
