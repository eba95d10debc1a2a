\* Two presses of a button, one link or connection lost, two attempts
\* to pair of one join each.
SPECIFICATION PerseLiveSpec
CONSTANTS
  ConnectRetries = 0
  PairQueue = 10
  MaxDrops = 1
  EvtQueue = 6
  Attempts = 2
  MaxPresses = 2
 
PROPERTIES LossShown
CHECK_DEADLOCK FALSE
