SPECIFICATION FairSpec
CONSTANTS
  t1 = t1
  t2 = t2
  Task <- One
  MaxRunning = 1
  MaxKills = 2
  MaxRestarts = 1
  MaxBeats = 2
  Stalls = TRUE
INVARIANTS
  CompletedIsEarned
PROPERTIES
  KillEnds
  Settles
CHECK_DEADLOCK FALSE
