SPECIFICATION Spec
CONSTANTS
  a = a
  b = b
  Account <- MCAccount
  NoAccount = NoAccount
  MaxClients = 2
  MaxCodes = 1
  MaxIds = 9
  MaxFaults = 1
  MaxStale = 1
  MaxRestarts = 1
INVARIANTS SingleUse OfOneAccount EndedStaysEnded StreamsHaveSessions
CHECK_DEADLOCK FALSE
