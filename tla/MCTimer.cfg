SPECIFICATION FairSpec
CONSTANTS
  TickTimes = {2}
  DefaultTime = 1
  StartTimes = {2}
  OpenTimes = {1}
  LastTicks = {2}
  MaxTime = 5
  MaxCommands = 2
  MaxCrashes = 1
INVARIANTS
  SlaveAgrees
  NoTickSkipped
  Persisted
  LastTickIsFinal
PROPERTIES
  StopHonoured
  
  ForecastHolds
