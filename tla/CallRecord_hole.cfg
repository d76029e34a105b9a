SPECIFICATION Spec
CONSTANTS
  NumTurns = 2
  KeptLines = 2
  MaxOutages = 1
  Free = Free
  Starter = Starter
  Ender = Ender
  Faults = {}
INVARIANT NothingLost
CHECK_DEADLOCK FALSE
