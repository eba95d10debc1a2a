\* The documented promise the code breaks.
SPECIFICATION FairSpec
CONSTANTS
  MaxRetries = 1
  QueueLen = 8
  MaxSysEvt = 2
  BackoffInit = 1
  BackoffMax = 2
  MaxSleeps = 1
PROPERTY ReconnectsOnWake
