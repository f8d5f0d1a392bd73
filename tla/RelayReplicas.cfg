SPECIFICATION FairSpec
CONSTANTS
  e1 = e1
  e2 = e2
  e3 = e3
  Worker = {w1, w2}
  Event = {e1, e2, e3}
  CreatedAt <- MCCreatedAt
  Limit = 2
  Budget <- Working
  FixLive = FALSE
CHECK_DEADLOCK FALSE
INVARIANTS TypeOK ClaimExclusive
PROPERTIES ProcessedIsFinal KeepsPromise EventuallyProcessed
