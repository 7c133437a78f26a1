SPECIFICATION Spec
CONSTANTS
  Client = {a, b, c}
  Initiators = {a, b}
  None = None
  Kinds = {"call", "callAsync", "send"}
  EventLoop = {a, b, c}
  Nesting = TRUE
  CallsAndDelays = FALSE
  NestedDelays = FALSE
  Impatient = {}
  Mortal = {}
  MaxCalls = 3
INVARIANTS AnswersMatch
CHECK_DEADLOCK FALSE
