SPECIFICATION Spec
CONSTANTS
  c1 = c1  c2 = c2  c3 = c3  kate = kate  kate2 = kate2  kded = kded
  Conn = {c1, c2}
  NoConn = NoConn
  Name <- TwoNames
  NoName = NoName
  ServerName = ServerName
  Variants <- PlainVariants
  Object = {o1}  NoObject = NoObject  Signal = {changed}  TerminateTDE = TerminateTDE
  Slot = {reload}  Fits <- OneFit
  Suicide = FALSE  Renames = "never"  NameReuse = FALSE  CanShutdown = FALSE
  MaxCalls = 0  MaxNotify = 1  MaxConnections = 2
SYMMETRY ConnSymmetry
CHECK_DEADLOCK FALSE
INVARIANTS SignalListsAgree NotificationsTrackNames
