SPECIFICATION EnrollSpec
CONSTANTS
  MaxEnrollments = 3
  MaxCalls = 4
INVARIANTS NoClientLost
PROPERTY HandsOutCurrent
CHECK_DEADLOCK FALSE
