CONSTANTS
  Requests = {r1, r2, r3}
  Tags = {t}
  Ttls = {1}
  Nobody = Nobody
  MaxTime = 4
CHECK_DEADLOCK FALSE
SPECIFICATION FairSpec
INVARIANTS LabelledAsSent RacesOnlyWithMaker
PROPERTIES AgeBounded Answered
