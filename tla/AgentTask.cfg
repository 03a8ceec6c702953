SPECIFICATION FairSpec
CONSTANTS
  first = first
  second = second
  r1 = r1
  r2 = r2
  Task <- TwoTasks
  Request <- TwoRequests
  TaskOf <- FirstAsks
  MaxCrashes = 1
INVARIANTS
  OneOutcome
  NoOrphanRequests
  InstanceFreed
  OneSoul
  AwaitingIsTrue
PROPERTY Settles
CHECK_DEADLOCK FALSE
