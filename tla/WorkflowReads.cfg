SPECIFICATION ViewSpec
CONSTANTS
  MaxRefunds = 1
  MaxDuplicates = 0
  MaxDrops = 1
CHECK_DEADLOCK FALSE
INVARIANTS ViewTypeOK StatusIsExplained EventsAreExplained
