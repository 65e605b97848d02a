CONSTANTS
  NumPublishers = 2
  MaxChunkLength = 2
  MaxSends = 2
  Limit <- DropAndRestart
SPECIFICATION Spec
INVARIANTS OrderInv NothingVanishes FirstNeverRefused
CHECK_DEADLOCK FALSE
PROPERTIES ImplementsContract
