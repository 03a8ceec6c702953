SPECIFICATION Spec
CONSTANTS
  r1 = r1
  r2 = r2
  r3 = r3
  Req <- ThreeRequests
  Sends <- Mixed
  None = None
  MaxRestarts = 1
  MaxAttempts = 2
INVARIANTS EndsIdle AbortReaches
PROPERTIES AbortEnds
CHECK_DEADLOCK FALSE
