SPECIFICATION FairSpec
CONSTANTS
  c1 = c1
  c2 = c2
  k1 = k1
  Create = {c1, c2}
  Refund = {f1, f2}
  Key = {k1}
  KeyOf <- MCKeyOf
  Budget <- OnceEach
CHECK_DEADLOCK FALSE
INVARIANTS TypeOK OrdersPerKey AnswersAreAccountedFor ConflictIsJustified RowLocksEnd
PROPERTIES KeepsPromise EventuallyAnswered
