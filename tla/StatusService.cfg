\* Two sleep cycles, one retry per join, backoff 1, 2.
SPECIFICATION FairSpec
CONSTANTS
  MaxRetries = 1
  QueueLen = 8
  MaxSysEvt = 2
  BackoffInit = 1
  BackoffMax = 2
  MaxSleeps = 2
INVARIANTS Inv 
PROPERTIES LinkLossNoticed ReconnectsUnlessStale
