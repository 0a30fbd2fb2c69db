------------------------------- MODULE Tools --------------------------------
(***************************************************************************)
(* The components that run beside the tick loop, under one specification.  *)
(* A behaviour is one of a single component, chosen in the first state;    *)
(* the components take turns with the variables v1, v2, ..., and those     *)
(* that the chosen one does not need stay 0.                               *)
(***************************************************************************)
EXTENDS Integers

VARIABLES component, v1, v2, v3, v4, v5, v6, v7, v8, v9, v10, v11, v12, v13

tools == <<component, v1, v2, v3, v4, v5, v6, v7, v8, v9, v10, v11, v12, v13>>

-----------------------------------------------------------------------------
(* The components.  Their constants are explained in their own modules; a  *)
(* name that several use has the component's name in it here.              *)

CONSTANTS Commands, MaxClients, MaxHookEvents, MaxCommands, MaxReboots
Hooks == INSTANCE VpnHooks WITH
  unit <- v1, link <- v2, clients <- v3, joining <- v4, hook <- v5, ctl <- v6, row <- v7,
  ever <- v8, stale <- v9, orderly <- v10, MaxEvents <- MaxHookEvents

CONSTANTS BoardTeams, MaxBoardEvents
Board == INSTANCE VpnBoard WITH
  mode <- v1, wg <- v2, row <- v3, d <- v4, board <- v5, net <- v6, thr <- v7, queue <- v8,
  count <- v9, calm <- v10, Teams <- BoardTeams, MaxEvents <- MaxBoardEvents

CONSTANTS TrafficTeams, MaxMinute, MaxTraffic, MaxRestarts
Traffic == INSTANCE TrafficStats WITH
  minute <- v1, seen <- v2, map <- v3, on <- v4, pc <- v5, base <- v6, old <- v7,
  tick <- v8, file <- v9, stats <- v10, restarts <- v11, first <- v12, skipped <- v13,
  Teams <- TrafficTeams

CONSTANTS WireguardTeams, PeerSets, MaxVersion, MaxCallErrors, MaxCrashes, MaxSyncTasks
Wireguard == INSTANCE WireguardSync WITH
  api <- v1, dev <- v2, file <- v3, tmp <- v4, proc <- v5, keys <- v6, tasks <- v7,
  errors <- v8, crashes <- v9, past <- v10, Teams <- WireguardTeams,
  MaxErrors <- MaxCallErrors, MaxTasks <- MaxSyncTasks

CONSTANTS Jobs, check_past_ticks, QueryTimeout
Eno == INSTANCE EnoRunner WITH
  eno <- v1, job <- v2, slot <- v3, begins <- v4, state <- v5, clock <- v6, slow <- v7,
  early <- v8, status <- v9, messages <- v10, recovery <- v11, data <- v12

CONSTANTS Folders, Big, Uploaders, Loaders, MaxFolderEdits, MaxKills
Packs == INSTANCE Packages WITH
  folder <- v1, files <- v2, rows <- v3, service <- v4, up <- v5, disk <- v6, part <- v7,
  lfs <- v8, lock <- v9, load <- v10, edits <- v11, kills <- v12, torn <- v13,
  MaxEdits <- MaxFolderEdits

CONSTANTS Services, TickLengths, MaxTasks
Spread == INSTANCE TaskSpread WITH
  spread <- v1, order <- v2, clock <- v3, tasks <- v4, Ends <- TickLengths

CONSTANTS Configs, MaxPushes, MaxEdits, MaxRepoFailures
Repo == INSTANCE ServiceRepo WITH
  remote <- v1, disk <- v2, services <- v3, mgr <- v4, limit <- v5, edited <- v6,
  parted <- v7, MaxFailures <- MaxRepoFailures

CONSTANTS TickTime, MaxTick, Lates, Pauses, MaxThreads, MaxErrors, MaxLosses
Rec == INSTANCE Recovery WITH
  game <- v1, clock <- v2, table <- v3, threads <- v4, errors <- v5, losses <- v6,
  begun <- v7, done <- v8, again <- v9, excused <- v10, outlived <- v11

CONSTANTS MaxOrders, MaxCloudFailures
Cloud == INSTANCE CloudFirewall WITH
  state <- v1, script <- v2, ssh <- v3, messages <- v4, orders <- v5, failures <- v6,
  missed <- v7, MaxFailures <- MaxCloudFailures

CONSTANTS Ids, NopTeam, Versions, Plain, MaxSyncs
Sync == INSTANCE TeamSync WITH
  website <- v1, table <- v2, logos <- v3, session <- v4, sync <- v5, syncs <- v6,
  before <- v7

CONSTANTS Freeze, MaxScoredTick, FirstRecreate, Trouble, NotThere, Hidden, NoOne
Score == INSTANCE Scoreboard WITH
  tick <- v1, state <- v2, scored <- v3, files <- v4, job <- v5, master <- v6,
  daemon <- v7, queue <- v8, tool <- v9, trouble <- v10, past <- v11,
  MaxTick <- MaxScoredTick

-----------------------------------------------------------------------------
(* What is assumed of the constants.                                       *)

(* There are versions, and a description gives a key one address and an    *)
(* address one key, as the kernel does.                                    *)
Described ==
  /\ MaxVersion \in Nat \ {0}
  /\ \A P \in PeerSets : \A p, q \in P : p[1] = q[1] \/ p[2] = q[2] => p = q

(* What a job is: a tick and the numbers the checker service reports.      *)
JobsAreJobs ==
  /\ Jobs \subseteq [tick: Nat, len: Nat, flag: Nat, noise: Nat, havoc: Nat]
  /\ check_past_ticks \in Nat

(* The tick time is a multiple of five seconds and a tick ends at most two *)
(* seconds late: rounding to five seconds gives the tick time.             *)
RegularTicks ==
  /\ MaxTick \in Nat /\ TickTime \in Nat /\ TickTime % 5 = 0
  /\ Pauses \subseteq Nat /\ Lates \subseteq 0..2

ServicesTimed == Services \subseteq [timeout: Int, sub: BOOLEAN] /\ TickLengths \subseteq Int

(* A game has a tick, and the freeze is one of its ticks: scoreboard.py    *)
(* tests a freeze at 0 like no freeze.  NotThere is no content of a file.  *)
GameFreezes ==
  /\ MaxScoredTick \in Nat \ {0} /\ Freeze \in Nat \ {0}
  /\ NotThere \notin Score!Ticks \cup Score!Round \cup Score!Job

ASSUME ToolsAssumption ==
  /\ Described /\ JobsAreJobs /\ RegularTicks /\ ServicesTimed /\ GameFreezes
  /\ MaxClients \in Nat /\ MaxMinute \in Nat \ {0}
  /\ Packs!Nobody \notin Loaders
  /\ Repo!None \notin Configs
  /\ Sync!None \notin Versions /\ NopTeam \in Ids

-----------------------------------------------------------------------------
(* The variables from the nth on are not used.                             *)
Spare12 == v12 = 0 /\ v13 = 0
Spare11 == v11 = 0 /\ Spare12
Spare8 == v8 = 0 /\ v9 = 0 /\ v10 = 0 /\ Spare11
Spare5 == v5 = 0 /\ v6 = 0 /\ v7 = 0 /\ Spare8
Keep12 == UNCHANGED <<component, v12, v13>>
Keep11 == Keep12 /\ UNCHANGED v11
Keep8 == Keep11 /\ UNCHANGED <<v8, v9, v10>>
Keep5 == Keep8 /\ UNCHANGED <<v5, v6, v7>>

Init ==
  \/ component = "hooks" /\ Hooks!Init /\ Spare11
  \/ component = "vpn board" /\ Board!Init /\ Spare11
  \/ component = "traffic" /\ Traffic!Init
  \/ component = "wireguard" /\ Wireguard!Init /\ Spare11
  \/ component = "eno" /\ Eno!Init /\ v13 = 0
  \/ component = "packages" /\ Packs!Init
  \/ component = "spread" /\ Spread!Init /\ Spare5
  \/ component = "repository" /\ Repo!Init /\ Spare8
  \/ component = "recovery" /\ Rec!Init /\ Spare12
  \/ component = "cloud" /\ Cloud!Init /\ Spare8
  \/ component = "teams" /\ Sync!Init /\ Spare8
  \/ component = "scoreboard" /\ Score!Init /\ Spare12

Next ==
  \/ component = "hooks" /\ Hooks!Next /\ Keep11
  \/ component = "vpn board" /\ Board!Next /\ Keep11
  \/ component = "traffic" /\ Traffic!Next /\ UNCHANGED component
  \/ component = "wireguard" /\ Wireguard!Next /\ Keep11
  \/ component = "eno" /\ Eno!Next /\ UNCHANGED <<component, v13>>
  \/ component = "packages" /\ Packs!Next /\ UNCHANGED component
  \/ component = "spread" /\ Spread!Next /\ Keep5
  \/ component = "repository" /\ Repo!Next /\ Keep8
  \/ component = "recovery" /\ Rec!Next /\ Keep12
  \/ component = "cloud" /\ Cloud!Next /\ Keep8
  \/ component = "teams" /\ Sync!Next /\ Keep8
  \/ component = "scoreboard" /\ Score!Next /\ Keep12

Spec == Init /\ [][Next]_tools

-----------------------------------------------------------------------------
(* Properties: those of the modules, each with the type invariant.         *)

(* When no OpenVPN hook is running, the table of teams says of every       *)
(* server of a team whether it is connected and how many players are,      *)
(* whatever hooks of the three servers ran at the same time (on-           *)
(* connect.py, on-disconnect.py, on-cloud-*.py).                           *)
StatusFollows ==
  component = "hooks" => Hooks!TypeOK /\ Hooks!StatusFollows

(* The servers switch each other: when all is quiet, a vulnbox in the      *)
(* cloud has its players' server and no self-hosted network beside it, and *)
(* a self-hosted network has no players' server, if vpnctl started them    *)
(* while nothing else went on (on-connect.sh, vpnctl.py).                  *)
ModesExclusive ==
  component = "hooks" => Hooks!TypeOK /\ Hooks!ModesExclusive

(* After a round in which nothing else changed the table has the status of *)
(* every WireGuard interface, whatever was written by others or left half  *)
(* done before; and once its thread has heard all messages, the board      *)
(* knows the network state and the bans in Redis, unless an order fell     *)
(* between its reading and its subscription or a ban was lifted while it   *)
(* was away (vpn_status_daemon.py).                                        *)
BoardFollows ==
  component = "vpn board" => Board!TypeOK /\ Board!BoardFollows

(* No packet is stored twice and none with a negative sign, over restarts, *)
(* crashes and switches of the network; a process that was not restarted   *)
(* stores all since its first reading but the minutes without network      *)
(* (manage-trafficstats.py).                                               *)
TrafficCounted ==
  component = "traffic" => Traffic!TypeOK /\ Traffic!TrafficCounted

(* A WireGuard interface the server takes for synchronized has the peers   *)
(* of its description, also when that changed in the middle of a round, if *)
(* no two tasks worked on it at the same time (fetch_and_sync).            *)
SyncedIsApplied ==
  component = "wireguard" => Wireguard!TypeOK /\ Wireguard!SyncedIsApplied

(* A public key is published only when its private key is in the file, and *)
(* no public key is ever found without its private key, unless the process *)
(* died between the removal of the old file and its replacement            *)
(* (KeyStore.put_keys).                                                    *)
KeysSaved ==
  component = "wireguard" => Wireguard!TypeOK /\ Wireguard!KeysSaved

(* Whatever the loop swaps, a flag or a noise is got only after the        *)
(* request that puts it was answered, unless that took longer than its     *)
(* slot, and no request starts so late that its time limit passes the end  *)
(* of the tick (gen_timeslots_flat).                                       *)
GetAfterPut ==
  component = "eno" => Eno!TypeOK /\ Eno!GetAfterPut

(* The status of a finished Eno checker run depends on the answers and not *)
(* on their order, except between two internal errors and for an OFFLINE   *)
(* of a past tick next to a MUMBLE; the messages shown are those of this   *)
(* tick, if it has any (_handle_result).                                   *)
Verdict ==
  component = "eno" => Eno!TypeOK /\ Eno!Verdict

(* Every package a worker may be asked for is in the database with all its *)
(* files, however uploads overlap with each other and with changes of the  *)
(* folder; a package folder that processes of a worker can see is          *)
(* complete, unless one was killed while it wrote a large file             *)
(* (move_folder_to_package, ensure_package_exists).                        *)
PackagesWhole ==
  component = "packages" => Packs!TypeOK /\ Packs!PackagesWhole

(* A checker run that is delayed still has its whole timeout, and ten      *)
(* seconds more, before the tick ends; the runs of a service start in      *)
(* their order (Dispatcher._dispatch).                                     *)
SpreadFits ==
  component = "spread" => Spread!TypeOK /\ Spread!SpreadFits

(* When no update is running, a service row that an administrator edited   *)
(* is as he left it and any other has the configuration of the working     *)
(* copy, unless a pull was not followed by its commit or changed the       *)
(* service's name (update_service).                                        *)
RowFollows ==
  component = "repository" => Repo!TypeOK /\ Repo!RowFollows

(* A clock rebuilt from the table of ticks goes on where the game was: no  *)
(* tick is left out, one is played again only if its end was not in the    *)
(* table, and until one is the tick time is the one the game had, if ticks *)
(* end at most two seconds late; whichever writes failed or came late, but *)
(* not after a reset that writes of the old game outlived                  *)
(* (reconstruct_redis.py, DatabaseTickRecording).                          *)
GoesOn ==
  component = "recovery" => Rec!TypeOK /\ Rec!GoesOn

(* When all messages are heard, SSH is open in the cloud exactly if teams  *)
(* may reach their vulnboxes, after any sequence of orders and failures,   *)
(* unless an order fell between reading and subscription (manage-hetzner-  *)
(* firewall.py).                                                           *)
CloudFollows ==
  component = "cloud" => Cloud!TypeOK /\ Cloud!CloudFollows

(* A synchronization that ends has brought every registered team to its    *)
(* version, kept the NOP team and, with --delete, left no other; one that  *)
(* fails after its intermediate commits leaves every team as it was or as  *)
(* it should become (sync_teams_http.py).                                  *)
SyncExact ==
  component = "teams" => Sync!TypeOK /\ Sync!SyncExact

(* The files of a tick after the freeze show on the public board the       *)
(* points, first bloods and attackers of the frozen tick, whoever wrote    *)
(* them in which order; and as long as no statistics row was made again    *)
(* from the database, each row has for each tick the value of that tick,   *)
(* or the frozen one (scoreboard.py).                                      *)
FilesRight ==
  component = "scoreboard" => Score!TypeOK /\ Score!RoundsFrozen /\ Score!RowsRight

(* The tick that scoreboard_current.json names has its file, and after the *)
(* end thread of a tick the files of all ticks so far are there with the   *)
(* final points, also after a thread that died, a reset or a recreation,   *)
(* unless somebody asked for a tick before it was scored                   *)
(* (create_scoreboard, _on_end_tick_deferred).                             *)
BoardsComplete ==
  component = "scoreboard" => Score!TypeOK /\ Score!BoardsComplete
============================================================================
