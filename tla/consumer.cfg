CONSTANTS
  NumChunks = 2
  ChunkSize = 2
  Policies <- Both
  StartFrom = 1
  Step = 1
  StartType = "numeric"
  StartValue = 1
  Budgets <- Few
SPECIFICATION FairSpec
INVARIANTS HandledInOrder ProgressIsComplete CreditsConserved NothingSkipped
PROPERTIES EventuallyHandled
CHECK_DEADLOCK FALSE
