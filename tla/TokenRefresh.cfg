SPECIFICATION Spec
CONSTANTS
  p1 = p1
  p2 = p2
  t1 = t1
  t2 = t2
  Proc <- Both
  Task <- Two
  ProcOf <- Homes
  MaxToken = 2
  LockTries = 2
  PostTries = 2
  MaxCrashes = 1
  Nobody = Nobody
INVARIANTS DiskIsGood SavesOverItsOwn
PROPERTIES RejectionsHaveCause CallsEnd CatchesUp
CHECK_DEADLOCK FALSE
