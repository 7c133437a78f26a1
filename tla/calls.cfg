SPECIFICATION Spec
CONSTANTS
  c1 = c1  c2 = c2  c3 = c3  kate = kate  kate2 = kate2  kded = kded
  Conn = {c1, c2, c3}
  NoConn = NoConn
  Name <- TwoNames
  NoName = NoName
  ServerName = ServerName
  Variants <- PlainVariants
  Object = {}  NoObject = NoObject  Signal = {}  TerminateTDE = TerminateTDE
  Slot = {}  Fits <- OneFit
  Suicide = FALSE  Renames = "idle"  NameReuse = FALSE  CanShutdown = FALSE
  MaxCalls = 1  MaxNotify = 0  MaxConnections = 0
CHECK_DEADLOCK FALSE
PROPERTIES CalleeDeathReleases ImplementsCallService
INVARIANTS TypeOK CallBookkeeping WaitingMeansOwed NoStrayAnswer
