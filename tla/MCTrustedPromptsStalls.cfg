SPECIFICATION Spec
CONSTANTS
  Agents = {a1, a2}
  None = None
  Kinds = {"consent", "batch", "install", "broker", "polkit", "approval", "erase", "panel"}
  MaxPerAgent = 2
  MaxQueue = 2
  Tries = 2
  MaxAsks = 2
  MaxTimers = 2
INVARIANTS
  OldestIsShownWhenFree
