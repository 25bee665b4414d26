CONSTANTS
  p = p
  q = q
  a = a
  b = b
  c = c
  Peer <- MCPeer
  Uuid <- MCUuid
  Nobody = Nobody
  RefOf <- MCRefOf
  AuthorOf <- MCAuthorOf
  Sends <- MCSends
  Serves <- MCServes
  MaxAttempts = 1
  MaxRounds = 2
  MaxRequestsPerMinute = 2
  MaxRefsPerRequest = 1
  HeldCap = 1
  MaxFlushes = 2
  MaxFaults = 1
  MaxChurn = 1
  WatchMinutes = FALSE
SPECIFICATION Spec
INVARIANTS TypeOK AttemptsWithinFlushes NothingElseForgotten AskedIsAttributed
CHECK_DEADLOCK FALSE
