SPECIFICATION Spec
CONSTANTS
  kmail = kmail  konqueror = konqueror
  kmailName = kmailName  konquerorName = konquerorName
  Client = {kmail, konqueror}
  App = {kmailName, konquerorName}
  NameOf <- Names
  Plain = {kmail}
  Wallet = {tdewallet, w2}
  None = None
  LeaveOpen = FALSE
  Settings <- AnySettings
  Overlaps = FALSE  LeavesAsking = FALSE  DisconnectsAny = FALSE
  MaxRequests = 3
CHECK_DEADLOCK FALSE
INVARIANTS TypeOK RefsAreHandles PasswordsKnown TimersMatch OnlyTheLivingHold
PROPERTIES RequestsServed
