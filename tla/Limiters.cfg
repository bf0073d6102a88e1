CONSTANTS
  Hour = 4
  Minute = 2
  MaxPerHour = 2
  MaxPerMinute = 2
  MaxPerSecond = 1
  Caller = {c1, c2, c3}
  LastTime = 8
  MaxAttempts = 6
  Request = {q1, q2}
  Key = {k1, k2}
  Ref = {r1, r2, r3}
  NoRef = NoRef
  NoKey = NoKey
  CheckDuration = 4
  MaxTime = 6
  MaxCalls = 3
CHECK_DEADLOCK FALSE
SYMMETRY Symmetric
SPECIFICATION LimitersSpec
INVARIANTS WindowQuota KeyQuotaUnlessRaced
PROPERTIES RetryMeetsOthers DropsOnlyExpired
