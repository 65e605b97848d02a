CONSTANTS
  p1 = p1
  p2 = p2
  a = a
  b = b
  Partitions <- TwoPartitions
  Keys <- TwoKeys
  Plans <- Mixed
  MaxId = 2
  Strategies <- HashAndKey
SPECIFICATION Spec
INVARIANTS NextIdIsValid StoredInCallOrder NoneTwice KeysStick
SYMMETRY Symmetry
CHECK_DEADLOCK FALSE
