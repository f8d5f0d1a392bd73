SPECIFICATION Spec
CONSTANTS
  e1 = e1
  e2 = e2
  e3 = e3
  m1 = m1
  m2 = m2
  Member = {m1}
  Event = {e1, e2}
  Handled = {e1}
  MaxRetries = 5
  MaxLog = 1
  StartOffset = {"earliest", "latest"}
  Budget <- OneTerm
CHECK_DEADLOCK FALSE
INVARIANTS CommittedIsProcessed
