CONSTANTS
  u1 = u1
  u2 = u2
  u3 = u3
  Users <- Three
  Purposes <- Both
  MaxShared = 2
  IdSpace = 3
  Serials <- InTurnOrNot
  Resolvers <- WithAndWithout
  Limit <- AllEvents
SPECIFICATION Spec
INVARIANTS UniqueIds RefsExact SharedWithinLimit InTurnStaysOpen DeclaresSucceed AbandonedEnds
SYMMETRY Symmetry
CHECK_DEADLOCK FALSE
