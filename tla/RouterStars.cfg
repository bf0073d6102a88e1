CONSTANTS
  Segment = {"a", "b", "x", "y"}
  Request = {q1, q2}
  Wrapper = {w1, w2, w3}
  NoWrapper = NoWrapper
  Def <- Defs
  Target <- Targets
  Asked <- Paths
  MaxRoutes = 2
  AutoHead = TRUE
CHECK_DEADLOCK FALSE
SPECIFICATION Spec
INVARIANT WildcardsWin
