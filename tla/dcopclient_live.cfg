SPECIFICATION Spec
CONSTANTS
  Client = {a, b, c}
  Initiators = {a, b}
  None = None
  Kinds = {"call", "callAsync", "send"}
  EventLoop = {a}
  Nesting = FALSE
  CallsAndDelays = FALSE
  NestedDelays = FALSE
  Impatient = {a}
  Mortal = {c}
  MaxCalls = 2
CHECK_DEADLOCK FALSE
PROPERTIES CallsReturn ImplementsRequestService
