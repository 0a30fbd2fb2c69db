SPECIFICATION Spec
CHECK_DEADLOCK FALSE
CONSTANTS
  Commands <- MCCommands
  MaxClients = 2
  MaxHookEvents = 4
  MaxCommands = 2
  MaxReboots = 1
  BoardTeams = {1}
  MaxBoardEvents = 4
  TrafficTeams = {1, 2}
  MaxMinute = 4
  MaxTraffic = 2
  MaxRestarts = 1
  WireguardTeams = {1, 2}
  PeerSets <- MCPeerSets
  MaxVersion = 2
  MaxCallErrors = 1
  MaxCrashes = 1
  MaxSyncTasks = 3
  Jobs <- MCJobs
  check_past_ticks = 1
  QueryTimeout = 4
  Folders <- MCFolders
  Big = {"h2"}
  Uploaders = {"u1", "u2"}
  Loaders = {"l1", "l2"}
  MaxFolderEdits = 1
  MaxKills = 1
  Services <- MCServices
  TickLengths = {6, 22, 30, 1000}
  MaxTasks = 4
  Configs <- MCConfigs
  MaxPushes = 3
  MaxEdits = 1
  MaxRepoFailures = 1
  TickTime = 5
  MaxTick = 3
  Lates = {0, 2}
  Pauses = {3}
  MaxThreads = 1
  MaxErrors = 2
  MaxLosses = 1
  MaxOrders = 3
  MaxCloudFailures = 2
  Ids = {1, 2, 3}
  NopTeam = 1
  Versions = {1, 2}
  Plain = {1}
  MaxSyncs = 2
  Freeze = 1
  MaxScoredTick = 3
  FirstRecreate = 3
  Trouble = {"crash", "recreate", "reset", "times"}
  NotThere = NotThere
  Hidden = Hidden
  NoOne = NoOne
INVARIANTS
  StatusFollows
  ModesExclusive
  
  
  
  KeysSaved
  GetAfterPut
  
  PackagesWhole
  SpreadFits
  
  GoesOn
  
  SyncExact
  
  BoardsComplete
