CONSTANTS
  Requests = {r1, r2}
  Contexts = {c1, c2}
  Writers = {g1}
  Nobody = Nobody
  BufSize = 1
  r1 = r1
  r2 = r2
  MaxSends <- Sends
CHECK_DEADLOCK FALSE
SPECIFICATION FairSpec
INVARIANTS MessagesKept HeldAlone
PROPERTIES StraysOnlyOutlived StreamEnds AcceptedIsWritten
