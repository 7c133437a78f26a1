SPECIFICATION Spec
CONSTANTS
  HeaderLen = 2
  MaxData = 2
  MaxBytes = 8
  MaxQueue = 2
  SocketBuffer = 3
  SplitsHeaders = TRUE
  CanBreak = FALSE
CHECK_DEADLOCK FALSE
INVARIANT StreamIntact
