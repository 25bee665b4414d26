SPECIFICATION Spec
CONSTANTS
  MaxAttempts = 3
  MaxRestarts = 2
  MaxExits = 1
INVARIANTS LockOutlivesWork AccountIsOne
PROPERTY ShutdownEnds
CHECK_DEADLOCK FALSE
