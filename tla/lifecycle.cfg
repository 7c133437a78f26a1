SPECIFICATION Spec
CONSTANTS
  c1 = c1  c2 = c2  c3 = c3  kate = kate  kate2 = kate2  kded = kded
  Conn = {c1, c2, c3}
  NoConn = NoConn
  Name <- KateNames
  NoName = NoName
  ServerName = ServerName
  Variants <- KateVariants
  Object = {}  NoObject = NoObject  Signal = {}  TerminateTDE = TerminateTDE
  Slot = {}  Fits <- OneFit
  Suicide = TRUE  Renames = "idle"  NameReuse = FALSE  CanShutdown = TRUE
  MaxCalls = 0  MaxNotify = 0  MaxConnections = 0
CHECK_DEADLOCK FALSE
INVARIANTS NameTable SuicideOnlyWhenIdle ShutdownNeverStuck ExitAnnounced
PROPERTIES ShutdownCompletes
