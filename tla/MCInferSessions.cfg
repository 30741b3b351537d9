SPECIFICATION FairSpec
CONSTANTS
  Tasks = {t1, t2}
  Requests = {r1, r2}
  MaxSessions = 1
  Tries = 2
  MaxSlots = 4
INVARIANTS
  NothingIsLeftRunning
  ClosedIsKilled
  EmptySlotsAreFree
PROPERTIES
  EveryRequestIsAnswered
  NothingStaysWarm
CHECK_DEADLOCK FALSE
