CONSTANTS
  p1 = p1
  p2 = p2
  p3 = p3
  d1 = d1
  d2 = d2
  Proc <- MCProc
  Pid <- MCPid
  PidOf <- MCPidOf
  MaxTickets = 3
  Lifetime = TRUE
SPECIFICATION FairSpec
INVARIANTS TypeOK MutualExclusion
PROPERTIES LosesOnlyToEarlier AttemptEnds
CHECK_DEADLOCK FALSE
