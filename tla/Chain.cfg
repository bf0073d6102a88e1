CONSTANTS
  NM = 3
  NH = 3
  MwCalls = {"Next", "NextMiddleware", "NextHandler"}
  HCalls = {"Next", "NextMiddleware", "NextHandler"}
  Responses = {"body", "noBody", "Break"}
  PanicHandlers = {"none", "writes", "silent"}
CHECK_DEADLOCK FALSE
SPECIFICATION FairSpec
INVARIANTS HandlersAfterMiddlewares NobodySkipped
PROPERTIES BreakStopsHandlers Terminates
