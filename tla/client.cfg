CONSTANTS
  Consumers <- TwoConsumers
  Publishers <- ThreePublishers
  Layouts <- Interleaved
  Plans <- Mixed
SPECIFICATION FairSpec
INVARIANTS ClosedForGood CloseEndsAll
PROPERTIES RestartRestores CallsReturn
CHECK_DEADLOCK FALSE
