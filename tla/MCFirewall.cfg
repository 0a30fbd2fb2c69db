SPECIFICATION Spec
CHECK_DEADLOCK FALSE
CONSTANTS
  Teams = {1}
  MaxTeams = 3
  MaxTick = 1
  MaxCommands = 2
  MaxDisconnects = 1
  MaxEvents = 3
CONSTRAINT Budget
INVARIANTS
  ChainIsExact
  GatewayFollows
  BanEnds
