SPECIFICATION Spec
CONSTANTS
  Client = {a, b, c}
  Initiators = {a, b}
  None = None
  Kinds = {"call", "callAsync", "send"}
  EventLoop = {a, b}
  Nesting = FALSE
  CallsAndDelays = FALSE
  NestedDelays = FALSE
  Impatient = {}
  Mortal = {b}
  MaxCalls = 3
CHECK_DEADLOCK FALSE
INVARIANTS TypeOK AnswersMatch NoDanglingReply AnswersAreAwaited OnlyCircularCallsReenter PromisesAreKept TransactionsKnowTheirCaller
