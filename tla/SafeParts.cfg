\* A word of 16 values; two setSleeps and two changes of charger and cell; three images;
\* two sessions of a phone; three plays; four calls of an LED; four bytes of text; five
\* seconds of a clock that is renewed after two.
SPECIFICATION PartsSpec
CONSTANTS
  Modulus = 16
  FetchInterval = 3
  JoinLimit = 2
  MaxBackoff = 4
  MaxStep = 2
  MaxWorld = 2
  CenterQueue = 2
  MaxSetSleeps = 2
  Images = 3
  MaxFrames = 2
  Senders = {worker, lvgl}
  Chunks = 2
  MaxSessions = 2
  MaxPrints = 3
  MaxParts = 2
  MaxPlays = 3
  MaxOpens = 2
  Callers = {center, lvgl}
  AlertLoops = 2
  MaxCalls = 4
  MaxBytes = 4
  TimeSetters = {ble, lvgl}
  SyncInterval = 2
  Offsets = {0, 3}
  Years = {1999, 2099, 2150}
  MaxNow = 5
  MaxSets = 2
INVARIANTS Inv BattInv CenterInv FeedInv ServerInv OutputsInv TextInv ClockInv
PROPERTIES JoinsNotEarly LostUntaken
CHECK_DEADLOCK FALSE
