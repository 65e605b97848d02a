CONSTANTS
  Members <- TwoMembers
  NumMessages = 3
  Plans <- Mixed
SPECIFICATION FairSpec
INVARIANTS StoredSafe GroupSkipsNothing
PROPERTY GroupHandlesAll
CHECK_DEADLOCK FALSE
