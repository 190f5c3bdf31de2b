SPECIFICATION FairSpec
CONSTANTS
  Calls = {c1}
  MaxChanges = 3
  MaxReloads = 1
INVARIANTS
  CalledOnce
PROPERTIES
  ScreenNeverGoesBack ScreenCatchesUp DeathShows
CHECK_DEADLOCK FALSE
