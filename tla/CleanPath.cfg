CONSTANTS
  Byte = {"/", ".", "a", "b"}
  MaxLen = 7
  Path <- Paths
CHECK_DEADLOCK FALSE
SPECIFICATION Spec
INVARIANTS NoPanic FollowsRules ModifiedIsExact
