SPECIFICATION Spec
CHECK_DEADLOCK FALSE
CONSTANTS
  c1 = c1
  c2 = c2
  Combinations <- TwoCombinations
  Outcomes = {"SUCCESS"}
  MaxTick = 2
  Troubles = {"none"}
  MaxFailures = 0
SYMMETRY Symmetry
INVARIANTS
  
  RevokedMeansNotRun
