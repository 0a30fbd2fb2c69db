SPECIFICATION FairSpec
CHECK_DEADLOCK FALSE
CONSTANTS
  c1 = c1
  c2 = c2
  Combinations <- OneCombination
  Outcomes = {"SUCCESS", "TIMEOUT"}
  MaxTick = 2
  Troubles = {"none"}
  MaxFailures = 0
PROPERTIES
  EveryTickRanked
