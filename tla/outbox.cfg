CONSTANTS
  NumMessages = 3
  NumIds = 4
  NumDrops = 1
  NumConfirms = 1
  MaxChunkLengths <- FullOrNot
  Neighbours <- AloneOrNot
SPECIFICATION OutboxSpec
INVARIANTS NothingForgotten NonePassedOver
CHECK_DEADLOCK FALSE
