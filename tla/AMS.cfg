\* Two connections, three changes on the phone, a queue of three packets.
SPECIFICATION LiveSpec
CONSTANTS
  Attrs = {"title"}
  QueueLen = 3
  MaxChanges = 3
  MaxSessions = 2
INVARIANTS Inv
PROPERTIES PlayingShown
CHECK_DEADLOCK FALSE
