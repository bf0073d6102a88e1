CONSTANTS
  Runner = {r1, r2}
  Closer = {c1}
  Request = {q1}
  NoRunner = NoRunner
  NoCloser = NoCloser
  Kinds = {"close", "graceful", "timed"}
  HandlersUseServer = TRUE
  Calls <- MCCalls
CHECK_DEADLOCK FALSE
SPECIFICATION TlsFairSpec
PROPERTIES GracefulDrains TrackedServersStop CancelStopsRun ClosersReturn SecureCallReturns SendersEnd
