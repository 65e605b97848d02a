CONSTANTS
  Requests <- AllRequests
  MaxRequests = 3
  Cuts <- InAndBetween
  InitialSize = 16
  MaxSize = 1000
  MaxRatio <- NineTenths
  Multiplier = 2
SPECIFICATION WireSpec
INVARIANTS WrittenWhole ReadAsSent AllRead
CHECK_DEADLOCK FALSE
