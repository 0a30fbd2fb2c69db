SPECIFICATION Spec
CHECK_DEADLOCK FALSE
CONSTANTS
  c1 = c1
  c2 = c2
  Combinations <- OneCombination
  Outcomes = {"SUCCESS", "TIMEOUT"}
  MaxTick = 2
  Troubles = {"abort"}
  MaxFailures = 1
INVARIANTS
  RevokedMeansNotRun
