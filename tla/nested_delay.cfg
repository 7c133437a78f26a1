SPECIFICATION Spec
CONSTANTS
  Client = {a, b, c}
  Initiators = {a, b}
  None = None
  Kinds = {"call", "callAsync", "send"}
  EventLoop = {a, b, c}
  Nesting = FALSE
  CallsAndDelays = FALSE
  NestedDelays = TRUE
  Impatient = {}
  Mortal = {}
  MaxCalls = 3
INVARIANTS PromisesAreKept
CHECK_DEADLOCK FALSE
