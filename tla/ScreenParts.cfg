SPECIFICATION ScreensSpec
CONSTANTS
  Uids = {u1, u2, c}
  Calls = {c}
  NoUid = NoUid
  MaxNotifs = 2
  QueueLen = 2
  MaxCalls = 3
  ScreenQueue = 3
  MaxUpdates = 3
  MaxKeys = 5
  GameQueue = 2
  PadQueue = 1
  MaxPushes = 3
  Times <- ClockTimes
  MaxTouches = 3
  HitsNeeded = 2
  StillSamples = 2
  Sides = 2
  MaxDice = 3
  MaxPresses = 3
INVARIANTS Inv ScreensInv
PROPERTIES CallEnds
CHECK_DEADLOCK FALSE
