SPECIFICATION Spec
CONSTANTS
  Workers = {w1}
  Submitters = {2}
  Flags <- MCTwoFlags
  NopTeam = 0
  Valid = 1
  RoundBuckets = 2
  PayloadBuckets = 2
  MaxService = 1
  MinTeams = 2
  FirstTeams = 0
  MaxTick = 1
  MaxTeams = 0
  MaxFaults = 0
  MaxErrors = 1
INVARIANTS
  RefusedIsOld
CHECK_DEADLOCK FALSE
