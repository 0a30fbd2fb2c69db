SPECIFICATION Spec
CONSTANTS
  Teams = {1, 2, 3}
  Flags <- MCFlags
  NumPayloads = 1
  Valid = 1
  Limit = 2
  Worth <- MCWorth
  Damage <- MCDamage
  Algorithms <- MCAlgorithms
  Outcomes <- MCOutcomes
  Scripts = {"recreate", "recompute", "reset"}
  MaxTick = 2
  MaxRows = 3
  MaxFailures = 1
INVARIANTS FlagWorth FirstBloodsRight  RanksRight
CHECK_DEADLOCK FALSE
