SPECIFICATION Spec
CONSTANTS
  r1 = r1
  r2 = r2
  r3 = r3
  Req <- TwoRequests
  Sends <- TurnPair
  None = None
  MaxRestarts = 1
  MaxAttempts = 2
PROPERTIES NoAttemptAfterAbort
CHECK_DEADLOCK FALSE
