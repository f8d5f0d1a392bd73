SPECIFICATION FairSpec
CONSTANTS
  MaxRefunds = 1
  MaxDuplicates = 2
  MaxDrops = 1
CHECK_DEADLOCK FALSE
INVARIANTS TypeOK StatusIsBacked OneEventPerRow NeverStalls
PROPERTIES EventuallyTicketed StatusAdvances CompletionIsFinal BuiltOnOutbox BuiltOnBooking BuiltOnGroups
