SPECIFICATION Spec
CONSTANTS
  c1 = c1
  c2 = c2
  k1 = k1
  Create = {c1, c2}
  Refund = {}
  Key = {k1}
  KeyOf <- MCKeyOf
  Budget <- OneCommit
CHECK_DEADLOCK FALSE
INVARIANTS CreatedMeansStored
