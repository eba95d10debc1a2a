\* Two boots of a watch with at most one broken part.
SPECIFICATION BootSpec
CONSTANTS
  MaxBoots = 2
  MaxBroken = 1
INVARIANTS HookAgrees
CHECK_DEADLOCK FALSE
