CONSTANTS
  Interval = 4
  MaxDrops = 2
SPECIFICATION Spec
INVARIANTS SilenceBounded NeverMissed
