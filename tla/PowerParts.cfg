\* Three boots of a watch with at most one broken part; two sleeps, two movements of the
\* wrist, two presses of a button; one tilt, two calls, one failed transaction.
SPECIFICATION PowerSpec
CONSTANTS
  MaxBoots = 3
  MaxBroken = 1
  MaxSleeps = 2
  MaxMoves = 2
  MaxPresses = 2
  QueueLen = 2
  MaxTilts = 1
  MaxImuCalls = 2
  MaxFaults = 1
INVARIANTS PowerInv
PROPERTIES  Wakes
CHECK_DEADLOCK FALSE
