CONSTANTS
  NumChunks = 2
  ChunkSize = 2
  Policies <- Default
  StartFrom = 1
  Step = 1
  StartType = "first"
  StartValue = 0
  Budgets <- OneRestart
SPECIFICATION Spec
INVARIANTS AlwaysInOrder
CHECK_DEADLOCK FALSE
