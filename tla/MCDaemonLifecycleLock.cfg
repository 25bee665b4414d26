SPECIFICATION Spec
CONSTANTS
  MaxAttempts = 1
  MaxRestarts = 0
  MaxExits = 0
INVARIANT LockHeldByOwner
CHECK_DEADLOCK FALSE
