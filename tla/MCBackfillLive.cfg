CONSTANTS
  p = p
  q = q
  a = a
  b = b
  c = c
  Peer <- MCPeer
  Uuid <- MCUuid
  Nobody = Nobody
  RefOf <- MCWideRefOf
  AuthorOf <- MCAuthorOf
  Sends <- MCWideSends
  Serves <- MCWideServes
  MaxAttempts = 2
  MaxRounds = 1
  MaxRequestsPerMinute = 1
  MaxRefsPerRequest = 1
  HeldCap = 1
  MaxFlushes = 1
  MaxFaults = 1
  MaxChurn = 0
  WatchMinutes = TRUE
SPECIFICATION FairSpec
INVARIANTS RateWithinFlushes
PROPERTIES QueuedIsAsked
CHECK_DEADLOCK FALSE
