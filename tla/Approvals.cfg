SPECIFICATION FairSpec
CONSTANTS
  r1 = r1
  r2 = r2
  r3 = r3
  watcher = watcher
  write = write
  run = run
  turn = turn
  task = task
  NoOne = NoOne
  Request <- MCRequest
  Watcher <- MCWatcher
  Action <- MCAction
  Source <- MCSource
  ActionOf <- MCActionOf
  SourceOf <- MCSourceOf
  RequestOf <- MCRequestOf
  Timed <- MCTimed
INVARIANTS
  NoOneForgotten
  OnlyApprovedGoAhead
PROPERTIES
  DecidedOnce
  Answered
CHECK_DEADLOCK FALSE
