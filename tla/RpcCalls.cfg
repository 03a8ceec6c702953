SPECIFICATION NetSpec
CONSTANTS
  c1 = c1
  c2 = c2
  t1 = t1
  t2 = t2
  Client <- TwoClients
  Caller <- TwoCallers
  Of <- Shared
  Nobody = Nobody
  Calls <- FewCalls
  Stays <- Other
  Buf = 1
  Workers = 1
INVARIANTS AnswersAreOwn RegistryServed
PROPERTIES StopEnds CallsEnd
CHECK_DEADLOCK FALSE
