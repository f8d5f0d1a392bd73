SPECIFICATION Spec
CONSTANTS
  MaxRefunds = 0
  MaxDuplicates = 1
  MaxDrops = 1
CHECK_DEADLOCK FALSE
PROPERTIES FinalStatusIsFinal
