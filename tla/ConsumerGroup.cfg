SPECIFICATION FairSpec
CONSTANTS
  e1 = e1
  e2 = e2
  e3 = e3
  m1 = m1
  m2 = m2
  Member = {m1, m2}
  Event = {e1, e2}
  Handled = {e1}
  MaxRetries = 1
  MaxLog = 2
  StartOffset = {"earliest", "latest"}
  Budget <- AnyFour
CHECK_DEADLOCK FALSE
INVARIANTS TypeOK EffectOnce NothingSkipped NothingPassedOver DropsAreEarned
PROPERTIES KeepsPromise LateStartsEnd EventuallySettled
