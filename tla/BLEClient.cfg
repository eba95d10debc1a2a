\* Two services over two connections, one failure of the stack.
SPECIFICATION LiveSpec
CONSTANTS
  Services <- MCServices
  Chars <- MCChars
  ServiceOf <- MCServiceOf
  Notifying <- MCNotifying
  MaxSessions = 2
  MaxFails = 1
INVARIANTS Inv
PROPERTIES DiscoverOnce ImplementsSession Discovered
CHECK_DEADLOCK FALSE
