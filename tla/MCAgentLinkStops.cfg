SPECIFICATION FairSpec
CONSTANTS
  TaskIds = {t1}
  MaxReqs = 0
  MaxBreaks = 1
  MaxPolicydDeaths = 0
  MaxAgentdDeaths = 0
PROPERTY CloseStopsAgent
CHECK_DEADLOCK FALSE
