CONSTANTS
  NumPublishers = 1
  MaxChunkLength = 2
  MaxSends = 3
  Limit <- AllButRestart
SPECIFICATION FairSpec
INVARIANTS NoLostWakeup
PROPERTIES EventuallySettled CloseCompletes
CHECK_DEADLOCK FALSE
