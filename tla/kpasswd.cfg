SPECIFICATION Spec
CONSTANTS
  s1 = s1  s2 = s2  w1 = w1  w2 = w2
  site = site  intranet = intranet  mail = mail
  Client = {s1, s2}
  Window = {w1, w2}  NoWindow = NoWindow
  windowOf <- OfTwoWindows
  Info <- TwoRealms
  User = {u}  NoUser = NoUser
  None = None
  Leftover = {NoWindow, w2}
  MaxSeqNr = 2
CHECK_DEADLOCK FALSE
INVARIANTS TypeOK WaitersHaveReason RequestsMatchCalls
PROPERTIES QueriesAnswered AskedOnlyForNews PasswordsGoWithWindows
