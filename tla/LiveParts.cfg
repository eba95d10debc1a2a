\* Two threads over two sleeps; three boots and four alert times; two setSleeps
\* and two changes of charger and cell; two links, two changes of the power mode, one refusal.
SPECIFICATION LivePartsSpec
CONSTANTS
  Workers = 2
  MaxSleeps = 2
  MaxSince = 4
  MaxFailures = 2
  MaxBoots = 3
  MaxWorld = 2
  MaxSetSleeps = 2
  MaxLinks = 2
  MaxModes = 2
  MaxFails = 1
INVARIANTS Inv FetchInv ConInv
PROPERTIES PauseReturns FetchRecovers ShutsDown Settles
CHECK_DEADLOCK FALSE
