SPECIFICATION EdgeSpec
CONSTANTS
  Grace = 5
  Goodbye = 4
  MaxDrops = 3
  Faults = {"api"}
  Starts = {"s1", "s2"}
  Metas <- StartMetas
  Texts = {"o1", "o2"}
  MaxOpeners = 1
  MaxStartFaults = 1
  Window = 4
  MinVoiced = 2
  DecideInterval = 2
  LockFrames = 4
  Skip = 2
  Relock = 2
INVARIANT DeletedOnce
INVARIANT EdgesInv
PROPERTY FirstDropHasFullGrace
PROPERTY EndsAreRequested
PROPERTY CallOpens
PROPERTY VoiceFollowed
CHECK_DEADLOCK FALSE
