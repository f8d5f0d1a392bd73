SPECIFICATION Spec
CONSTANTS
  e1 = e1
  e2 = e2
  e3 = e3
  Worker = {w1}
  Event = {e1, e2}
  CreatedAt <- MCCreatedAt
  Limit = 2
  Budget <- OneUnacked
  FixLive = FALSE
CHECK_DEADLOCK FALSE
INVARIANTS ProcessedMeansPublished
