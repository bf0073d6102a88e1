CONSTANTS
  Group = {g1, g2, g3}
  Root = g1
  Array = {a1, a2, a3, a4}
  Middleware = {m1, m2}
  Additions <- MCAdditions
  MaxSpare = 1
  MaxMw = 2
  MwDoes <- MCMwDoes
  HandlerDoes <- MCHandlerDoes
  TypedDoes <- MCTypedDoes
  MaxHandlers = 2
CHECK_DEADLOCK FALSE
VIEW MCView
SPECIFICATION Spec
INVARIANTS MiddlewaresAsDeclared AnsweredAsAsked OneAnswer
