SPECIFICATION FairSpec
CONSTANTS
  Keys = {k1, k2}
  NoKey = NoKey
  MaxTime = 4
  MaxDeaths = 2
  MaxDrops = 1
  MaxNewKeys = 1
INVARIANTS BusyIsOwed OneKeyPerSession PushedIsEnforced
PROPERTIES LinkComesBack
CHECK_DEADLOCK FALSE
