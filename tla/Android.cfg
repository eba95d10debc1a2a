\* Two sessions, four messages, three packets in the write queue.
SPECIFICATION AndLiveSpec
CONSTANTS
  WriteLen = 3
  LineLen = 1
  MaxMsgs = 4
  MaxLinks = 2
INVARIANTS AndInv
PROPERTIES HelloHeard
CHECK_DEADLOCK FALSE
