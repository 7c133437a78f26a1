SPECIFICATION Spec
CONSTANTS
  HeaderLen = 2
  MaxData = 2
  MaxBytes = 8
  MaxQueue = 2
  SocketBuffer = 3
  SplitsHeaders = FALSE
  CanBreak = TRUE
CHECK_DEADLOCK FALSE
INVARIANTS StreamIntact NothingLost
PROPERTIES AllDelivered
