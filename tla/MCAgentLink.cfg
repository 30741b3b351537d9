SPECIFICATION FairSpec
CONSTANTS
  TaskIds = {t1}
  MaxReqs = 2
  MaxBreaks = 1
  MaxPolicydDeaths = 1
  MaxAgentdDeaths = 1
INVARIANTS ViewsAgree ReportsOwed
PROPERTIES ExitCloses CloseStopsAgentUnlessLost
CHECK_DEADLOCK FALSE
