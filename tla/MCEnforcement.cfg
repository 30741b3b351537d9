SPECIFICATION Spec
CONSTANTS
  w1 = w1
  w2 = w2
  t1 = t1
  t2 = t2
  Windows = {w1, w2}
  Tasks = {t1, t2}
  None = None
  SeatFocus = SeatFocus
  Grants <- TheGrants
  Tables <- TheTables
  MaxAgents = 1
  MaxRequests = 2
  MaxParked = 1
  MaxMoves = 2
INVARIANTS TargetsAreActedOnOnce NothingWaitsForNobody RevokedHoldNothing
PROPERTIES ActsAreCovered ActsAreAllowed
CHECK_DEADLOCK FALSE
