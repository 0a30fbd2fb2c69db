SPECIFICATION Spec
CONSTANTS
  Workers = {w1, w2}
  Submitters = {2, 4}
  Flags <- MCMixedFlags
  NopTeam = 3
  Valid = 1
  RoundBuckets = 2
  PayloadBuckets = 2
  MaxService = 1
  MinTeams = 2
  FirstTeams = 1
  MaxTick = 5
  MaxTeams = 3
  MaxFaults = 0
  MaxErrors = 0
INVARIANTS
  SameFlagWindow
CHECK_DEADLOCK FALSE
