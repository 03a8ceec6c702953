SPECIFICATION Spec
CONSTANTS
  t1 = t1
  t2 = t2
  Task <- Two
  MaxRunning = 1
  MaxKills = 1
  MaxRestarts = 1
  MaxBeats = 0
  Stalls = FALSE
SYMMETRY TaskSymmetry
INVARIANTS
  LostMeansGone
  OneNotification
  ActiveBound
PROPERTIES
  VerdictStable
CHECK_DEADLOCK FALSE
