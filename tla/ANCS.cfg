\* Two notifications, two changes on the phone, two connections; room for one
\* notification in the store, so that adding the second pushes out the first.
SPECIFICATION LiveSpec
CONSTANTS
  Uids = {u1, u2}
  NoUid = NoUid
  MaxQueued = 2
  MaxNotifs = 1
  QueueLen = 2
  MaxChanges = 2
  MaxSessions = 2
INVARIANTS Inv Mirrored
PROPERTIES Served
CHECK_DEADLOCK FALSE
