----------------------------- MODULE ToolsProofs -----------------------------
(* Theorems about the tools beside the game, for every value of their       *)
(* constants: the cloud's firewall, the services' repositories, the         *)
(* synchronization of teams, the hooks of the OpenVPN servers, the daemon   *)
(* of the VPN board, the recovery of the clock, the start times of checker  *)
(* runs and the files of the scoreboard.  Each is proved of the component   *)
(* by itself, under the names its module has for the variables, and holds   *)
(* in Tools because a behaviour is one of a single component.               *)
EXTENDS Tools, Sequences, FiniteSetTheorems, WellFoundedInduction, TLAPS

(* The component of a behaviour does not change.                            *)
LEMMA OneComponent == [Next]_tools => component' = component
BY DEF Next, tools, Keep5, Keep8, Keep11, Keep12

-----------------------------------------------------------------------------
(* manage-hetzner-firewall.py.                                             *)

(* The names of its variables.                                              *)
state == v1
script == v2
ssh == v3
messages == v4
orders == v5
failures == v6
missed == v7
USE DEF state, script, ssh, messages, orders, failures, missed

(* The last message, or else the state the process works with, is the      *)
(* state in Redis, and the rule is the one of the state that was handled.  *)
CloudInv ==
  /\ state \in Cloud!VpnStatus \cup {"unset"} /\ ssh \in BOOLEAN /\ missed \in BOOLEAN
  /\ script \in [pc: {"start", "first", "subscribe", "listen", "update"}, state: Cloud!VpnStatus]
  /\ messages \in Seq(Cloud!VpnStatus)
  /\ script.pc \notin {"listen", "update"} => messages = <<>>
  /\ ~missed /\ script.pc # "start" =>
       state = IF messages = <<>> THEN script.state ELSE messages[Len(messages)]
  /\ script.pc \in {"subscribe", "listen"} => (ssh <=> script.state \in {"on", "team"})

(* Every step keeps it.                                                    *)
LEMMA CloudStep ==
  ASSUME CloudInv, [Cloud!Next]_(Cloud!fvars)
  PROVE  CloudInv'
<1>1. ASSUME NEW s \in Cloud!VpnStatus, Cloud!SetState(s) PROVE CloudInv'
  <2>1. Append(messages, s) \in Seq(Cloud!VpnStatus) /\ Append(messages, s) # <<>> /\ Append(messages, s)[Len(Append(messages, s))] = s
    BY DEF CloudInv
  <2> QED
    BY <1>1, <2>1 DEF CloudInv, Cloud!SetState
<1>2. CASE Cloud!ReadState
  BY <1>2 DEF CloudInv, Cloud!ReadState, Cloud!VpnStatus
<1>3. CASE Cloud!Subscribe
  BY <1>3 DEF CloudInv, Cloud!Subscribe
<1>4. CASE Cloud!Listen
  <2>1. /\ Tail(messages) \in Seq(Cloud!VpnStatus) /\ Head(messages) \in Cloud!VpnStatus
        /\ messages # <<>> /\ script' = [pc |-> "update", state |-> Head(messages)] /\ messages' = Tail(messages)
        /\ UNCHANGED <<state, ssh, missed>> /\ script.pc = "listen"
    BY <1>4 DEF CloudInv, Cloud!Listen
  <2>2. messages[Len(messages)] = IF Tail(messages) = <<>> THEN Head(messages) ELSE Tail(messages)[Len(Tail(messages))]
    <3>1. messages \in Seq(Cloud!VpnStatus) /\ messages # <<>>
      BY <2>1 DEF CloudInv
    <3>2. Len(messages) \in Nat \ {0} /\ Len(Tail(messages)) = Len(messages) - 1 /\ Head(messages) = messages[1]
      BY <3>1
    <3>3. CASE Tail(messages) = <<>>
      <4>1. Len(messages) = 1
        BY <3>2, <3>3
      <4> QED
        BY <3>2, <3>3, <4>1
    <3>4. CASE Tail(messages) # <<>>
      <4>1. Len(Tail(messages)) \in Nat \ {0}
        BY <2>1, <3>4
      <4>2. \A k \in 1..(Len(messages) - 1) : Tail(messages)[k] = messages[k + 1]
        BY <3>1
      <4> QED
        BY <3>2, <3>4, <4>1, <4>2
    <3> QED
      BY <3>3, <3>4
  <2> QED
    BY <2>1, <2>2 DEF CloudInv
<1>5. CASE Cloud!update_state
  <2>1. /\ script.pc \in {"first", "update"} /\ script.state \in Cloud!VpnStatus /\ ssh \in BOOLEAN
        /\ UNCHANGED <<state, messages, missed>> /\ ssh' = Cloud!SshRule
    BY <1>5 DEF CloudInv, Cloud!update_state
  <2>2. script' = [script EXCEPT !.pc = IF script.pc = "first" THEN "subscribe" ELSE "listen"]
    BY <1>5 DEF Cloud!update_state
  <2>3. /\ script'.pc = (IF script.pc = "first" THEN "subscribe" ELSE "listen") /\ script'.state = script.state
        /\ script' \in [pc: {"start", "first", "subscribe", "listen", "update"}, state: Cloud!VpnStatus]
    BY <2>1, <2>2 DEF CloudInv
  <2>4. ssh' \in BOOLEAN /\ (ssh' <=> script.state \in {"on", "team"})
    <3> DEFINE open == script.state \in {"on", "team"}
    <3>1. open \in BOOLEAN
      OBVIOUS
    <3>2. ssh' = IF open = ssh THEN ssh ELSE ~ssh
      BY <2>1 DEF Cloud!SshRule
    <3> HIDE DEF open
    <3>3. ssh' \in BOOLEAN /\ (ssh' <=> open)
      <4>1. CASE ssh = TRUE
        <5>1. CASE open = TRUE
          BY <3>2, <4>1, <5>1
        <5>2. CASE open = FALSE
          BY <3>2, <4>1, <5>2
        <5> QED
          BY <3>1, <5>1, <5>2
      <4>2. CASE ssh = FALSE
        <5>1. CASE open = TRUE
          BY <3>2, <4>2, <5>1
        <5>2. CASE open = FALSE
          BY <3>2, <4>2, <5>2
        <5> QED
          BY <3>1, <5>1, <5>2
      <4> QED
        BY <2>1, <4>1, <4>2
    <3> QED
      BY <3>3 DEF open
  <2> HIDE DEF Cloud!SshRule
  <2>5. (script.pc = "first" => messages = <<>>) /\ script.pc # "start"
    BY <2>1 DEF CloudInv
  <2>6. script'.pc \notin {"listen", "update"} => messages' = <<>>
    BY <2>1, <2>3, <2>5
  <2>7. ~missed' => state' = IF messages' = <<>> THEN script'.state ELSE messages'[Len(messages')]
    BY <2>1, <2>3, <2>5 DEF CloudInv
  <2>8. messages' \in Seq(Cloud!VpnStatus) /\ state' \in Cloud!VpnStatus \cup {"unset"} /\ missed' \in BOOLEAN
    BY <2>1 DEF CloudInv
  <2> QED
    BY <2>3, <2>4, <2>6, <2>7, <2>8 DEF CloudInv
<1>6. CASE Cloud!UpdateFails
  BY <1>6 DEF CloudInv, Cloud!UpdateFails
<1>7. CASE UNCHANGED Cloud!fvars
  BY <1>7 DEF CloudInv, Cloud!fvars
<1> QED
  BY <1>1, <1>2, <1>3, <1>4, <1>5, <1>6, <1>7 DEF Cloud!Next

(* The component by itself.                                               *)
LEMMA CloudAlone == Cloud!Spec => [](Cloud!TypeOK /\ Cloud!CloudFollows)
<1>1. Cloud!Init => CloudInv
  <2> SUFFICES ASSUME Cloud!Init PROVE CloudInv
    OBVIOUS
  <2>1. script.pc = "start" /\ messages = <<>> /\ missed = FALSE
    BY DEF Cloud!Init
  <2>2. script \in [pc: {"start", "first", "subscribe", "listen", "update"}, state: Cloud!VpnStatus]
    BY DEF Cloud!Init, Cloud!VpnStatus
  <2>3. messages \in Seq(Cloud!VpnStatus)
    BY <2>1
  <2>4. state \in Cloud!VpnStatus \cup {"unset"} /\ ssh \in BOOLEAN
    BY DEF Cloud!Init
  <2> QED
    BY <2>1, <2>2, <2>3, <2>4 DEF CloudInv
<1>2. CloudInv /\ [Cloud!Next]_(Cloud!fvars) => CloudInv'
  BY CloudStep
<1>3. CloudInv => Cloud!TypeOK /\ Cloud!CloudFollows
  BY DEF CloudInv, Cloud!TypeOK, Cloud!CloudFollows
<1> QED
  BY <1>1, <1>2, <1>3, PTL DEF Cloud!Spec

(* When all messages are heard, SSH is open in the cloud exactly if teams  *)
(* may reach their vulnboxes, however many orders, failed calls and        *)
(* restarts there were, unless an order fell between the reading of the    *)
(* key and the subscription (main of manage-hetzner-firewall.py).          *)
THEOREM CloudCorrect == Spec => []CloudFollows
<1> DEFINE Chosen == component = "cloud"
<1>1. Cloud!Spec => [](Cloud!TypeOK /\ Cloud!CloudFollows)
  BY CloudAlone, ToolsAssumption
<1>2. Init /\ Chosen => Cloud!Init
  BY DEF Init
<1>3. Chosen /\ [Next]_tools => Chosen' /\ [Cloud!Next]_(Cloud!fvars)
  BY OneComponent DEF Next, tools, Cloud!fvars
<1>4. ~Chosen /\ [Next]_tools => ~Chosen'
  BY OneComponent
<1> QED
  BY <1>1, <1>2, <1>3, <1>4, PTL DEF Spec, Cloud!Spec, CloudFollows

-----------------------------------------------------------------------------
(* ServiceRepoManager.                                                     *)

(* The names of its variables.                                              *)
remote == v1
disk == v2
services == v3
mgr == v4
limit == v5
edited == v6
parted == v7
USE DEF remote, disk, services, mgr, limit, edited, parted

RepoRows == [Repo!Names -> Configs \cup {Repo!None}]

RepoTypes ==
  /\ remote \in Configs /\ disk \in Configs \cup {Repo!None} /\ parted \in BOOLEAN
  /\ services \in RepoRows /\ edited \in RepoRows
  /\ mgr.pc \in {"idle", "clone", "add", "pull", "compare"}

(* What the manager holds between two of its steps.                        *)
RepoSteps ==
  /\ disk = Repo!None => services = Repo!NoRows
  /\ mgr.pc = "clone" => disk = Repo!None
  /\ mgr.pc = "add" => disk # Repo!None /\ services = Repo!NoRows
  /\ mgr.pc = "pull" => disk # Repo!None /\ mgr.before = disk /\ mgr.rows = services
  /\ mgr.pc = "compare" => disk # Repo!None /\ mgr.before \in Configs /\ mgr.rows = services

(* A row has its own name; an edit is of a row that is there and is never  *)
(* what the working copy has, or had before the pull.                      *)
RepoEdits ==
  \A n \in Repo!Names :
    /\ services[n] # Repo!None => services[n].name = n
    /\ edited[n] # Repo!None =>
         /\ services[n] # Repo!None /\ edited[n].name = n /\ edited[n] # disk
         /\ mgr.pc = "compare" => edited[n] # mgr.before

(* Every row is as it was edited, or as the working copy is or, until the  *)
(* pull is committed, was.                                                 *)
RepoFollows ==
  ~parted /\ disk # Repo!None => \A n \in Repo!Names : services[n] # Repo!None =>
    IF edited[n] # Repo!None THEN services[n] = edited[n]
    ELSE services[n] = disk \/ (mgr.pc = "compare" /\ services[n] = mgr.before)

RepoInv == RepoTypes /\ RepoSteps /\ RepoEdits /\ RepoFollows

(* A configuration's name is a name, and NoRows are rows.                  *)
LEMMA RepoNames ==
  /\ \A c \in Configs : c.name \in Repo!Names
  /\ Repo!NoRows \in RepoRows
  /\ \A n \in Repo!Names : Repo!NoRows[n] = Repo!None
BY DEF Repo!Names, Repo!NoRows, RepoRows

(* The panel's edit of a row.                                              *)
LEMMA RepoEditStep ==
  ASSUME Repo!None \notin Configs, RepoInv, NEW c \in Configs, Repo!Edit(c)
  PROVE  RepoInv'
<1>1. /\ c.name \in Repo!Names /\ services[c.name] # Repo!None /\ c # disk /\ mgr.pc = "idle" /\ c # Repo!None
      /\ services' = [services EXCEPT ![c.name] = c] /\ edited' = [edited EXCEPT ![c.name] = c]
      /\ UNCHANGED <<remote, disk, mgr, parted>>
  BY RepoNames DEF Repo!Edit
<1>2. RepoTypes'
  BY <1>1 DEF RepoInv, RepoTypes, RepoRows
<1>3. /\ \A n \in Repo!Names : /\ n = c.name => services'[n] = c /\ edited'[n] = c
                               /\ n # c.name => services'[n] = services[n] /\ edited'[n] = edited[n]
  BY <1>1 DEF RepoInv, RepoTypes, RepoRows
<1>4. disk # Repo!None
  BY <1>1, RepoNames DEF RepoInv, RepoSteps
<1>5. RepoSteps'
  BY <1>1, <1>4 DEF RepoInv, RepoSteps
<1>6. RepoEdits'
  BY <1>1, <1>3 DEF RepoInv, RepoEdits
<1>7. RepoFollows'
  BY <1>1, <1>3, <1>4 DEF RepoInv, RepoFollows
<1> QED
  BY <1>2, <1>5, <1>6, <1>7 DEF RepoInv

(* The clone of a repository that is new.                                  *)
LEMMA RepoCloneStep ==
  ASSUME Repo!None \notin Configs, RepoInv, Repo!git_checkout_service
  PROVE  RepoInv'
<1>1. /\ mgr.pc = "clone" /\ disk = Repo!None /\ services = Repo!NoRows /\ mgr'.pc = "add" /\ disk' = remote
      /\ UNCHANGED <<remote, services, edited, parted>>
  BY DEF RepoInv, RepoSteps, Repo!git_checkout_service
<1>2. \A n \in Repo!Names : services[n] = Repo!None /\ edited[n] = Repo!None
  BY <1>1, RepoNames DEF RepoInv, RepoEdits
<1> QED
  BY <1>1, <1>2 DEF RepoInv, RepoTypes, RepoSteps, RepoEdits, RepoFollows

(* A row that was not there gets the configuration of the working copy.    *)
LEMMA RepoNewRow ==
  ASSUME Repo!None \notin Configs, RepoInv, mgr.pc \in {"add", "idle"}, disk \in Configs,
         services[disk.name] = Repo!None, services' = Repo!_cfg_to_db(disk),
         mgr'.pc = "idle", UNCHANGED <<remote, disk, edited, parted>>
  PROVE  RepoInv'
<1>1. disk.name \in Repo!Names /\ disk # Repo!None /\ services' = [services EXCEPT ![disk.name] = disk]
  BY RepoNames DEF Repo!_cfg_to_db
<1>2. RepoTypes'
  BY <1>1 DEF RepoInv, RepoTypes, RepoRows
<1>3. \A n \in Repo!Names : services'[n] = IF n = disk.name THEN disk ELSE services[n]
  BY <1>1 DEF RepoInv, RepoTypes, RepoRows
<1>4. edited[disk.name] = Repo!None
  BY <1>1 DEF RepoInv, RepoEdits
<1>5. RepoSteps'
  BY <1>1 DEF RepoSteps
<1>6. RepoEdits'
  BY <1>1, <1>3, <1>4 DEF RepoInv, RepoEdits
<1>7. RepoFollows'
  BY <1>1, <1>3, <1>4 DEF RepoInv, RepoFollows
<1> QED
  BY <1>2, <1>5, <1>6, <1>7 DEF RepoInv

(* The pull.                                                               *)
LEMMA RepoPullStep ==
  ASSUME Repo!None \notin Configs, RepoInv, Repo!git_pull_service
  PROVE  RepoInv'
<1>1. /\ mgr.pc = "pull" /\ disk # Repo!None /\ disk \in Configs /\ mgr.before = disk /\ mgr.rows = services
      /\ mgr'.pc = "compare" /\ mgr'.before = disk /\ mgr'.rows = services /\ disk' = remote /\ disk' # Repo!None
      /\ UNCHANGED <<remote, services, parted>> /\ remote \in Configs /\ remote.name \in Repo!Names
  BY RepoNames DEF RepoInv, RepoTypes, RepoSteps, Repo!git_pull_service
<1>2. edited' = [edited EXCEPT ![remote.name] = IF edited[remote.name] = remote THEN Repo!None ELSE edited[remote.name]]
  BY DEF Repo!git_pull_service
<1>3. \A n \in Repo!Names : edited'[n] = IF n = remote.name /\ edited[n] = remote THEN Repo!None ELSE edited[n]
  BY <1>1, <1>2 DEF RepoInv, RepoTypes, RepoRows
<1>4. RepoTypes'
  BY <1>1, <1>2 DEF RepoInv, RepoTypes, RepoRows
<1>5. RepoSteps'
  BY <1>1 DEF RepoInv, RepoSteps
<1>6. RepoEdits'
  BY <1>1, <1>3 DEF RepoInv, RepoEdits
<1>7. RepoFollows'
  BY <1>1, <1>3 DEF RepoInv, RepoFollows
<1> QED
  BY <1>4, <1>5, <1>6, <1>7 DEF RepoInv

(* The comparison with the configuration before the pull, and the commit.  *)
LEMMA RepoCommitStep ==
  ASSUME Repo!None \notin Configs, RepoInv, Repo!CommitUpdate
  PROVE  RepoInv'
<1>1. /\ mgr.pc = "compare" /\ disk \in Configs /\ disk # Repo!None /\ mgr.before \in Configs /\ mgr.rows = services
      /\ mgr'.pc = "idle" /\ UNCHANGED <<remote, disk, edited>> /\ disk.name \in Repo!Names
      /\ parted' = (parted \/ mgr.before.name # disk.name)
  BY RepoNames DEF RepoInv, RepoTypes, RepoSteps, Repo!CommitUpdate, Repo!Idle
<1> DEFINE follow == services[disk.name] # Repo!None /\ mgr.before # disk /\ services[disk.name] = mgr.before
<1>2. services' = IF follow THEN [services EXCEPT ![disk.name] = disk] ELSE services
  BY <1>1 DEF Repo!CommitUpdate, Repo!IsFollowed, Repo!_cfg_equals_db, Repo!_update_db_from_cfg
<1>3. \A n \in Repo!Names : services'[n] = IF n = disk.name /\ follow THEN disk ELSE services[n]
  BY <1>1, <1>2 DEF RepoInv, RepoTypes, RepoRows
<1>4. RepoTypes'
  BY <1>1, <1>2 DEF RepoInv, RepoTypes, RepoRows
<1>5. RepoSteps'
  BY <1>1 DEF RepoSteps
<1>6. RepoEdits'
  BY <1>1, <1>3 DEF RepoInv, RepoEdits
<1>7. RepoFollows'
  <2> SUFFICES ASSUME ~parted', NEW n \in Repo!Names, services'[n] # Repo!None
               PROVE  services'[n] = IF edited[n] # Repo!None THEN edited[n] ELSE disk
    BY <1>1 DEF RepoFollows
  <2>1. mgr.before.name = disk.name /\ ~parted
    BY <1>1
  <2>2. services[n] # Repo!None
    BY <1>3
  <2>3. /\ edited[n] # Repo!None => services[n] = edited[n] /\ edited[n] # mgr.before
        /\ edited[n] = Repo!None => services[n] = disk \/ services[n] = mgr.before
        /\ services[n].name = n
    BY <1>1, <2>1, <2>2 DEF RepoInv, RepoEdits, RepoFollows
  <2> QED
    BY <1>3, <2>1, <2>2, <2>3
<1> QED
  BY <1>4, <1>5, <1>6, <1>7 DEF RepoInv

(* Every step keeps the invariant.                                         *)
LEMMA RepoStep ==
  ASSUME Repo!None \notin Configs, RepoInv, [Repo!Next]_(Repo!rvars)
  PROVE  RepoInv'
<1>1. ASSUME NEW c \in Configs, Repo!Push(c) PROVE RepoInv'
  BY <1>1 DEF RepoInv, RepoTypes, RepoSteps, RepoEdits, RepoFollows, Repo!Push
<1>2. ASSUME NEW c \in Configs, Repo!Edit(c) PROVE RepoInv'
  BY <1>2, RepoEditStep
<1>3. CASE Repo!update_service
  BY <1>3 DEF RepoInv, RepoTypes, RepoSteps, RepoEdits, RepoFollows, Repo!update_service
<1>4. CASE Repo!git_checkout_service
  BY <1>4, RepoCloneStep
<1>5. CASE Repo!AddService
  <2>1. mgr.pc = "add" /\ disk \in Configs /\ services = Repo!NoRows
    BY <1>5 DEF RepoInv, RepoTypes, RepoSteps, Repo!AddService
  <2>2. services[disk.name] = Repo!None
    BY <2>1, RepoNames
  <2> QED
    BY <1>5, <2>1, <2>2, RepoNewRow DEF Repo!AddService, Repo!Idle
<1>6. CASE Repo!git_pull_service
  BY <1>6, RepoPullStep
<1>7. CASE Repo!CommitUpdate
  BY <1>7, RepoCommitStep
<1>8. CASE Repo!Abort
  <2>1. /\ mgr'.pc = "idle" /\ UNCHANGED <<remote, disk, services, edited>> /\ parted' \in BOOLEAN
        /\ ~parted' => ~parted /\ (mgr.pc = "compare" => mgr.before = disk)
    BY <1>8 DEF RepoInv, RepoTypes, Repo!Abort, Repo!Idle
  <2> QED
    BY <2>1 DEF RepoInv, RepoTypes, RepoSteps, RepoEdits, RepoFollows
<1>9. CASE Repo!import_services
  <2>1. PICK cfg \in Repo!find_services : services[cfg.name] = Repo!None /\ services' = Repo!_cfg_to_db(cfg)
    BY <1>9 DEF Repo!import_services
  <2>2. cfg = disk /\ disk \in Configs
    BY DEF Repo!find_services, RepoInv, RepoTypes
  <2> QED
    BY <1>9, <2>1, <2>2, RepoNewRow DEF Repo!import_services
<1>10. CASE UNCHANGED Repo!rvars
  BY <1>10 DEF RepoInv, RepoTypes, RepoSteps, RepoEdits, RepoFollows, Repo!rvars
<1> QED
  BY <1>1, <1>2, <1>3, <1>4, <1>5, <1>6, <1>7, <1>8, <1>9, <1>10 DEF Repo!Next

(* The component by itself.                                               *)
LEMMA RepoAlone ==
  ASSUME Repo!None \notin Configs
  PROVE  Repo!Spec => [](Repo!TypeOK /\ Repo!RowFollows)
<1>1. Repo!Init => RepoInv
  <2> SUFFICES ASSUME Repo!Init PROVE RepoInv
    OBVIOUS
  <2>1. disk = Repo!None /\ services = Repo!NoRows /\ edited = Repo!NoRows /\ mgr.pc = "idle" /\ parted = FALSE /\ remote \in Configs
    BY DEF Repo!Init, Repo!Idle
  <2> QED
    BY <2>1, RepoNames DEF RepoInv, RepoTypes, RepoSteps, RepoEdits, RepoFollows
<1>2. RepoInv /\ [Repo!Next]_(Repo!rvars) => RepoInv'
  BY RepoStep
<1>3. RepoInv => Repo!TypeOK /\ Repo!RowFollows
  BY DEF RepoInv, RepoTypes, RepoRows, RepoEdits, RepoFollows, Repo!TypeOK, Repo!RowFollows
<1> QED
  BY <1>1, <1>2, <1>3, PTL DEF Repo!Spec

(* A row that an administrator edited stays as he left it, and any other   *)
(* has the configuration of the working copy, however many updates ran,    *)
(* failed and were repeated (update_service: "write to DB if service       *)
(* exists and wasn't altered manually"), for every set of configurations.  *)
THEOREM RepoCorrect == Spec => []RowFollows
<1> DEFINE Chosen == component = "repository"
<1>1. Repo!Spec => [](Repo!TypeOK /\ Repo!RowFollows)
  BY RepoAlone, ToolsAssumption
<1>2. Init /\ Chosen => Repo!Init
  BY DEF Init
<1>3. Chosen /\ [Next]_tools => Chosen' /\ [Repo!Next]_(Repo!rvars)
  BY OneComponent DEF Next, tools, Repo!rvars
<1>4. ~Chosen /\ [Next]_tools => ~Chosen'
  BY OneComponent
<1> QED
  BY <1>1, <1>2, <1>3, <1>4, PTL DEF Spec, Repo!Spec, RowFollows

-----------------------------------------------------------------------------
(* sync_teams_http.py.                                                     *)

(* The names of its variables.                                              *)
website == v1
table == v2
logos == v3
session == v4
sync == v5
syncs == v6
before == v7
USE DEF website, table, logos, session, sync, syncs, before

TeamVersions == Versions \cup {Sync!None, Sync!Dummy}
TeamRows == [Ids -> [v: TeamVersions, logo: TeamVersions]]

SyncRecord ==
  [pc: {"idle", "teams", "logo", "done", "failed"}, delete: BOOLEAN,
   remote: [Ids -> Versions \cup {Sync!None}], list: SUBSET Ids, rest: SUBSET Ids]

SyncTypes ==
  /\ website \in [Ids -> Versions \cup {Sync!None}]
  /\ table \in TeamRows /\ session \in TeamRows /\ before \in TeamRows
  /\ sync \in SyncRecord

(* A team that is not there has no logo.                                   *)
HasTeam(r) == r.logo # Sync!None => r.v # Sync!None
SyncLogos == \A i \in Ids : HasTeam(table[i]) /\ HasTeam(session[i])

Running == sync.pc \in {"teams", "logo"}

(* What a run has of a team when it starts: the NOP team is created.       *)
First(i) == IF i = NopTeam /\ before[i].v = Sync!None THEN Sync!Dummy ELSE before[i].v

(* A team of the answer that is still in the list is as the run found it,  *)
(* or is being added; one that was taken from it has its new version.  A   *)
(* team the answer does not have is as the run found it until it is taken  *)
(* from the rest.                                                          *)
TeamDone(i) ==
  /\ i \in sync.rest => session[i].v = First(i) /\ session[i].v # Sync!None
  /\ i \in sync.list => sync.remote[i] # Sync!None
  /\ i \in sync.list /\ i \notin sync.rest => First(i) = Sync!None /\ session[i].v \in {Sync!None, sync.remote[i]}
  /\ i \notin sync.list /\ sync.remote[i] # Sync!None => session[i].v = sync.remote[i] /\ i \notin sync.rest
  /\ i \notin sync.rest /\ sync.remote[i] = Sync!None => session[i].v = Sync!Target(i)

SyncTeams == Running => \A i \in Ids : TeamDone(i)

(* What was committed so far.                                              *)
SyncTable ==
  /\ Running \/ sync.pc = "failed" => \A i \in Ids : table[i].v \in {before[i].v, First(i), Sync!Target(i)}
  /\ sync.pc = "done" => \A i \in Ids : table[i].v = Sync!Target(i)

SyncInv == SyncTypes /\ SyncLogos /\ SyncTeams /\ SyncTable

(* What a run makes of a team.                                             *)
LEMMA TargetIs ==
  ASSUME NEW i \in Ids
  PROVE  /\ sync.remote[i] # Sync!None => Sync!Target(i) = sync.remote[i]
         /\ sync.remote[i] = Sync!None /\ i = NopTeam => Sync!Target(i) = First(i)
         /\ sync.remote[i] = Sync!None /\ i # NopTeam =>
              Sync!Target(i) = IF sync.delete THEN Sync!None ELSE First(i)
BY DEF Sync!Target, First

(* It does not change during the run.                                      *)
LEMMA TargetStays ==
  ASSUME NEW i \in Ids, sync'.remote = sync.remote, sync'.delete = sync.delete, before' = before
  PROVE  Sync!Target(i)' = Sync!Target(i) /\ First(i)' = First(i)
BY DEF Sync!Target, First

(* A step of a run keeps the invariant if every team is as TeamDone says   *)
(* and only what the session holds is committed.                           *)
LEMMA RunStep ==
  ASSUME SyncInv, Running, Running', SyncTypes', website' = website, before' = before,
         sync'.remote = sync.remote, sync'.delete = sync.delete,
         \A j \in Ids : HasTeam(session'[j]) /\ HasTeam(table'[j]),
         \A j \in Ids : TeamDone(j)',
         \A j \in Ids : table'[j].v \in {table[j].v, session'[j].v}
  PROVE  SyncInv'
<1>1. SyncLogos' /\ SyncTeams'
  BY DEF SyncLogos, SyncTeams
<1>2. \A j \in Ids : table'[j].v \in {before'[j].v, First(j)', Sync!Target(j)'}
  <2> TAKE j \in Ids
  <2>1. Sync!Target(j)' = Sync!Target(j) /\ First(j)' = First(j)
    BY TargetStays
  <2>2. table[j].v \in {before[j].v, First(j), Sync!Target(j)}
    BY DEF SyncInv, SyncTable
  <2>3. session'[j].v \in {First(j), Sync!Target(j)}
    <3>1. TeamDone(j)'
      OBVIOUS
    <3> QED
      BY <2>1, <3>1, TargetIs DEF TeamDone
  <2> QED
    BY <2>1, <2>2, <2>3
<1>3. SyncTable'
  BY <1>2 DEF SyncTable, Running
<1> QED
  BY <1>1, <1>3 DEF SyncInv

(* Importing a logo gives the team a picture and may commit the session.   *)
LEMMA ImportKeeps ==
  ASSUME NEW i \in Ids, NEW db \in TeamRows, NEW p \in TeamVersions, db[i].v # Sync!None,
         table \in TeamRows, \A j \in Ids : HasTeam(db[j]) /\ HasTeam(table[j]),
         session' = db \/ session' = [db EXCEPT ![i].logo = p],
         table' = table \/ table' = db
  PROVE  /\ session' \in TeamRows /\ table' \in TeamRows
         /\ \A j \in Ids : session'[j].v = db[j].v /\ HasTeam(session'[j]) /\ HasTeam(table'[j])
         /\ \A j \in Ids : table'[j].v \in {table[j].v, session'[j].v}
<1>1. CASE session' = db
  BY <1>1
<1>2. CASE session' = [db EXCEPT ![i].logo = p]
  <2>1. /\ session' \in TeamRows /\ \A j \in Ids : session'[j].v = db[j].v
        /\ \A j \in Ids : j # i => session'[j] = db[j]
    BY <1>2 DEF TeamRows
  <2>2. \A j \in Ids : HasTeam(session'[j])
    BY <2>1 DEF HasTeam
  <2> QED
    BY <2>1, <2>2
<1> QED
  BY <1>1, <1>2

(* import_logo_from_url does that.                                         *)
LEMMA ImportShape ==
  ASSUME NEW i, NEW v \in Versions, NEW db, NEW found, Sync!import_logo_from_url(i, v, db, found)
  PROVE  \E p \in TeamVersions :
           /\ session' = db \/ session' = [db EXCEPT ![i].logo = p]
           /\ table' = table \/ table' = db
<1>1. v \in TeamVersions /\ Sync!Dummy \in TeamVersions
  BY DEF TeamVersions
<1>2. CASE v \in Plain
  BY <1>1, <1>2 DEF Sync!import_logo_from_url, Sync!import_logo, Sync!store_logo
<1>3. CASE v \notin Plain /\ found /\ db[i].logo # v
  BY <1>1, <1>3 DEF Sync!import_logo_from_url, Sync!store_logo
<1>4. CASE v \notin Plain /\ ~(found /\ db[i].logo # v)
  BY <1>1, <1>4 DEF Sync!import_logo_from_url
<1> QED
  BY <1>2, <1>3, <1>4

(* A team of the website that is in the database.                          *)
LEMMA UpdateStep ==
  ASSUME Sync!None \notin Versions, SyncInv, NEW i \in Ids, NEW found \in BOOLEAN, Sync!update_team(i, found)
  PROVE  SyncInv'
<1>1. /\ sync.pc = "teams" /\ i \in sync.list /\ i \in sync.rest /\ UNCHANGED <<website, before>>
      /\ sync' = [sync EXCEPT !.list = sync.list \ {i}, !.rest = sync.rest \ {i}]
  BY DEF Sync!update_team, Sync!Found
<1>2. PICK v : v = sync.remote[i]
  OBVIOUS
<1>3. PICK db : db = [session EXCEPT ![i].v = v]
  OBVIOUS
<1>4. v \in Versions /\ v # Sync!None
  BY <1>1, <1>2 DEF SyncInv, SyncTypes, SyncRecord, SyncTeams, Running, TeamDone
<1>5. Sync!import_logo_from_url(i, v, db, found)
  BY <1>2, <1>3 DEF Sync!update_team
<1>6. /\ db \in TeamRows /\ db[i].v = v /\ \A j \in Ids : j # i => db[j] = session[j]
  <2>1. session \in TeamRows /\ v \in TeamVersions
    BY <1>4 DEF SyncInv, SyncTypes, SyncRecord, TeamVersions
  <2>2. [session[i] EXCEPT !.v = v] \in [v: TeamVersions, logo: TeamVersions] /\ [session[i] EXCEPT !.v = v].v = v
    BY <2>1 DEF TeamRows
  <2>3. db = [session EXCEPT ![i] = [session[i] EXCEPT !.v = v]]
    BY <1>3, <2>1 DEF TeamRows
  <2> QED
    BY <2>1, <2>2, <2>3 DEF TeamRows
<1>7. \A j \in Ids : HasTeam(db[j]) /\ HasTeam(table[j])
  BY <1>4, <1>6 DEF SyncInv, SyncLogos, HasTeam
<1>8. /\ session' \in TeamRows /\ table' \in TeamRows
      /\ \A j \in Ids : session'[j].v = db[j].v /\ HasTeam(session'[j]) /\ HasTeam(table'[j])
      /\ \A j \in Ids : table'[j].v \in {table[j].v, session'[j].v}
  <2>1. PICK p \in TeamVersions : /\ session' = db \/ session' = [db EXCEPT ![i].logo = p]
                                  /\ table' = table \/ table' = db
    BY <1>4, <1>5, ImportShape
  <2>2. table \in TeamRows
    BY DEF SyncInv, SyncTypes, SyncRecord
  <2> QED
    BY <1>4, <1>6, <1>7, <2>1, <2>2, ImportKeeps
<1>9. /\ sync'.pc = "teams" /\ sync'.list = sync.list \ {i} /\ sync'.rest = sync.rest \ {i}
      /\ sync'.remote = sync.remote /\ sync'.delete = sync.delete
  BY <1>1 DEF SyncInv, SyncTypes, SyncRecord
<1>10. SyncTypes'
  <2>1. sync' \in SyncRecord
    BY <1>1 DEF SyncInv, SyncTypes, SyncRecord
  <2> QED
    BY <1>1, <1>8, <2>1 DEF SyncInv, SyncTypes, SyncRecord
<1>11. ASSUME NEW j \in Ids PROVE TeamDone(j)'
  <2>1. TeamDone(j) /\ Sync!Target(j)' = Sync!Target(j) /\ First(j)' = First(j)
    BY <1>1, <1>9, TargetStays DEF SyncInv, SyncTeams, Running
  <2>2. CASE j = i
    BY <1>1, <1>2, <1>4, <1>6, <1>8, <1>9, <2>1, <2>2 DEF TeamDone
  <2>3. CASE j # i
    BY <1>1, <1>6, <1>8, <1>9, <2>1, <2>3 DEF TeamDone
  <2> QED
    BY <2>2, <2>3
<1> QED
  BY <1>1, <1>8, <1>9, <1>10, <1>11, RunStep DEF Running

(* A team of the website that is new: committed, then its logo.            *)
LEMMA AddStep ==
  ASSUME Sync!None \notin Versions, SyncInv, NEW i \in Ids, Sync!add_team(i)
  PROVE  SyncInv'
<1>1. /\ sync.pc = "teams" /\ i \in sync.list /\ i \notin sync.rest /\ UNCHANGED <<website, before>>
      /\ session' = [session EXCEPT ![i] = [v |-> sync.remote[i], logo |-> Sync!None]]
      /\ table' = session' /\ sync' = [sync EXCEPT !.pc = "logo"]
  BY DEF Sync!add_team
<1>2. sync.remote[i] \in Versions
  BY <1>1 DEF SyncInv, SyncTypes, SyncRecord, SyncTeams, Running, TeamDone
<1>3. /\ session' \in TeamRows /\ session'[i].v = sync.remote[i] /\ session'[i].logo = Sync!None
      /\ \A j \in Ids : j # i => session'[j] = session[j]
  BY <1>1, <1>2 DEF SyncInv, SyncTypes, SyncRecord, TeamRows, TeamVersions
<1>4. /\ sync'.pc = "logo" /\ sync'.list = sync.list /\ sync'.rest = sync.rest
      /\ sync'.remote = sync.remote /\ sync'.delete = sync.delete
  BY <1>1 DEF SyncInv, SyncTypes, SyncRecord
<1>5. SyncTypes'
  <2>1. sync' \in SyncRecord
    BY <1>1 DEF SyncInv, SyncTypes, SyncRecord
  <2> QED
    BY <1>1, <1>3, <2>1 DEF SyncInv, SyncTypes, SyncRecord
<1>6. ASSUME NEW j \in Ids PROVE TeamDone(j)'
  <2>1. TeamDone(j) /\ Sync!Target(j)' = Sync!Target(j) /\ First(j)' = First(j)
    BY <1>1, <1>4, TargetStays DEF SyncInv, SyncTeams, Running
  <2>2. CASE j = i
    BY <1>1, <1>2, <1>3, <1>4, <2>1, <2>2 DEF TeamDone
  <2>3. CASE j # i
    BY <1>3, <1>4, <2>1, <2>3 DEF TeamDone
  <2> QED
    BY <2>2, <2>3
<1>7. \A j \in Ids : HasTeam(session'[j]) /\ HasTeam(table'[j])
  BY <1>1, <1>3 DEF SyncInv, SyncLogos, HasTeam
<1> QED
  BY <1>1, <1>4, <1>5, <1>6, <1>7, RunStep DEF Running

(* The logo of a team that was added.                                      *)
LEMMA AddLogoStep ==
  ASSUME Sync!None \notin Versions, SyncInv, NEW i \in Ids, NEW found \in BOOLEAN, Sync!AddLogo(i, found)
  PROVE  SyncInv'
<1>1. /\ sync.pc = "logo" /\ i \in sync.list /\ i \notin sync.rest /\ session[i].v # Sync!None
      /\ UNCHANGED <<website, before>>
      /\ sync' = [[sync EXCEPT !.list = sync.list \ {i}, !.rest = sync.rest \ {i}] EXCEPT !.pc = "teams"]
  BY DEF Sync!AddLogo, Sync!Found
<1>2. PICK v : v = sync.remote[i]
  OBVIOUS
<1>3. PICK db : db = session
  OBVIOUS
<1>4. v \in Versions
  BY <1>1, <1>2 DEF SyncInv, SyncTypes, SyncRecord, SyncTeams, Running, TeamDone
<1>5. Sync!import_logo_from_url(i, v, db, found)
  BY <1>2, <1>3 DEF Sync!AddLogo
<1>6. db \in TeamRows /\ table \in TeamRows /\ db[i].v # Sync!None /\ \A j \in Ids : HasTeam(db[j]) /\ HasTeam(table[j])
  BY <1>1, <1>3 DEF SyncInv, SyncTypes, SyncRecord, SyncLogos
<1>7. /\ session' \in TeamRows /\ table' \in TeamRows
      /\ \A j \in Ids : session'[j].v = db[j].v /\ HasTeam(session'[j]) /\ HasTeam(table'[j])
      /\ \A j \in Ids : table'[j].v \in {table[j].v, session'[j].v}
  <2>1. PICK p \in TeamVersions : /\ session' = db \/ session' = [db EXCEPT ![i].logo = p]
                                  /\ table' = table \/ table' = db
    BY <1>4, <1>5, ImportShape
  <2> QED
    BY <1>6, <2>1, ImportKeeps
<1>8. /\ sync'.pc = "teams" /\ sync'.list = sync.list \ {i} /\ sync'.rest = sync.rest \ {i}
      /\ sync'.remote = sync.remote /\ sync'.delete = sync.delete
  BY <1>1 DEF SyncInv, SyncTypes, SyncRecord
<1>9. SyncTypes'
  <2>1. sync' \in SyncRecord
    BY <1>1 DEF SyncInv, SyncTypes, SyncRecord
  <2> QED
    BY <1>1, <1>7, <2>1 DEF SyncInv, SyncTypes, SyncRecord
<1>10. ASSUME NEW j \in Ids PROVE TeamDone(j)'
  <2>1. TeamDone(j) /\ Sync!Target(j)' = Sync!Target(j) /\ First(j)' = First(j)
    BY <1>1, <1>8, TargetStays DEF SyncInv, SyncTeams, Running
  <2>2. session'[j].v = session[j].v
    BY <1>3, <1>7
  <2>3. CASE j = i
    BY <1>1, <1>8, <2>1, <2>2, <2>3 DEF TeamDone
  <2>4. CASE j # i
    BY <1>8, <2>1, <2>2, <2>4 DEF TeamDone
  <2> QED
    BY <2>3, <2>4
<1> QED
  BY <1>1, <1>7, <1>8, <1>9, <1>10, RunStep DEF Running

(* A team that is not on the website.                                      *)
LEMMA AbsentStep ==
  ASSUME Sync!None \notin Versions, SyncInv, NEW i \in Ids, Sync!Absent(i)
  PROVE  SyncInv'
<1> DEFINE gone == i # NopTeam /\ sync.delete
<1>1. /\ sync.pc = "teams" /\ sync.list = {} /\ i \in sync.rest /\ UNCHANGED <<website, before>>
      /\ sync' = [sync EXCEPT !.rest = sync.rest \ {i}]
  BY DEF Sync!Absent
<1>2. session \in TeamRows /\ table \in TeamRows /\ session[i].v # Sync!None
      /\ \A j \in Ids : HasTeam(session[j]) /\ HasTeam(table[j])
  BY <1>1 DEF SyncInv, SyncTypes, SyncRecord, SyncLogos, SyncTeams, Running, TeamDone
<1>3. /\ session' \in TeamRows /\ table' \in TeamRows
      /\ \A j \in Ids : HasTeam(session'[j]) /\ HasTeam(table'[j])
      /\ \A j \in Ids : table'[j].v \in {table[j].v, session'[j].v}
      /\ \A j \in Ids : session'[j].v = IF j = i /\ gone THEN Sync!None ELSE session[j].v
  <2>1. CASE gone
    <3>1. session' = [session EXCEPT ![i] = Sync!NoTeam] /\ table' = table
      BY <2>1 DEF Sync!Absent
    <3>2. /\ Sync!NoTeam \in [v: TeamVersions, logo: TeamVersions]
          /\ Sync!NoTeam.v = Sync!None /\ Sync!NoTeam.logo = Sync!None
      BY DEF Sync!NoTeam, TeamVersions
    <3>3. /\ session' \in TeamRows /\ session'[i] = Sync!NoTeam /\ \A j \in Ids : j # i => session'[j] = session[j]
      BY <1>2, <3>1, <3>2 DEF TeamRows
    <3> HIDE DEF gone
    <3> QED
      BY <1>2, <2>1, <3>1, <3>2, <3>3 DEF HasTeam
  <2>2. CASE ~gone
    <3>1. PICK db : db = session
      OBVIOUS
    <3>2. /\ session' = [db EXCEPT ![i].logo = Sync!Dummy]
          /\ table' = table \/ table' = db
      BY <2>2, <3>1 DEF Sync!Absent, Sync!import_logo, Sync!store_logo
    <3>3. Sync!Dummy \in TeamVersions
      BY DEF TeamVersions
    <3>4. db \in TeamRows /\ db[i].v # Sync!None /\ \A j \in Ids : HasTeam(db[j]) /\ HasTeam(table[j])
      BY <1>2, <3>1
    <3> HIDE DEF gone
    <3>5. /\ session' \in TeamRows /\ table' \in TeamRows
          /\ \A j \in Ids : session'[j].v = db[j].v /\ HasTeam(session'[j]) /\ HasTeam(table'[j])
          /\ \A j \in Ids : table'[j].v \in {table[j].v, session'[j].v}
      BY <1>2, <3>2, <3>3, <3>4, ImportKeeps
    <3> QED
      BY <2>2, <3>1, <3>5
  <2> QED
    BY <2>1, <2>2
<1>4. /\ sync'.pc = "teams" /\ sync'.list = {} /\ sync'.rest = sync.rest \ {i}
      /\ sync'.remote = sync.remote /\ sync'.delete = sync.delete
  BY <1>1 DEF SyncInv, SyncTypes, SyncRecord
<1>5. SyncTypes'
  <2>1. sync' \in SyncRecord
    BY <1>1 DEF SyncInv, SyncTypes, SyncRecord
  <2> QED
    BY <1>1, <1>3, <2>1 DEF SyncInv, SyncTypes, SyncRecord
<1>6. ASSUME NEW j \in Ids PROVE TeamDone(j)'
  <2>1. TeamDone(j) /\ Sync!Target(j)' = Sync!Target(j) /\ First(j)' = First(j)
    BY <1>1, <1>4, TargetStays DEF SyncInv, SyncTeams, Running
  <2>2. CASE j = i
    <3>1. session[i].v = First(i) /\ sync.remote[i] = Sync!None
      BY <1>1, <2>1, <2>2 DEF TeamDone
    <3>2. session'[i].v = Sync!Target(i)
      BY <1>3, <3>1, TargetIs
    <3> QED
      BY <1>4, <2>1, <2>2, <3>1, <3>2 DEF TeamDone
  <2>3. CASE j # i
    <3>1. session'[j].v = session[j].v
      BY <1>3, <2>3
    <3> QED
      BY <1>1, <1>4, <2>1, <2>3, <3>1 DEF TeamDone
  <2> QED
    BY <2>2, <2>3
<1> QED
  BY <1>1, <1>3, <1>4, <1>5, <1>6, RunStep DEF Running

(* A run begins with the database as it is, and the NOP team.              *)
LEMMA StartStep ==
  ASSUME Sync!None \notin Versions, NopTeam \in Ids, SyncInv, NEW delete \in BOOLEAN, Sync!Start(delete)
  PROVE  SyncInv'
<1>1. /\ before' = table /\ UNCHANGED <<website, table>>
      /\ session' = IF table[NopTeam].v = Sync!None THEN [table EXCEPT ![NopTeam].v = Sync!Dummy] ELSE table
      /\ sync' = [pc |-> "teams", delete |-> delete, remote |-> website,
                  list |-> {i \in Ids : website[i] # Sync!None}, rest |-> Sync!Present(session)']
  BY DEF Sync!Start, Sync!Present
<1>2. Sync!Present(session)' = {i \in Ids : session'[i].v # Sync!None}
  BY DEF Sync!Present
<1>3. table \in TeamRows /\ website \in [Ids -> Versions \cup {Sync!None}] /\ \A j \in Ids : HasTeam(table[j])
  BY DEF SyncInv, SyncTypes, SyncRecord, SyncLogos
<1>4. Sync!Dummy # Sync!None /\ Sync!Dummy \in TeamVersions
  BY DEF Sync!Dummy, Sync!None, TeamVersions
<1>5. /\ session' \in TeamRows /\ \A j \in Ids : HasTeam(session'[j]) /\ session'[j].v = First(j)'
  <2>1. CASE table[NopTeam].v = Sync!None
    <3>1. /\ [table[NopTeam] EXCEPT !.v = Sync!Dummy] \in [v: TeamVersions, logo: TeamVersions]
          /\ [table[NopTeam] EXCEPT !.v = Sync!Dummy].v = Sync!Dummy
      BY <1>3, <1>4 DEF TeamRows
    <3>2. session' = [table EXCEPT ![NopTeam] = [table[NopTeam] EXCEPT !.v = Sync!Dummy]]
      BY <1>1, <1>3, <2>1 DEF TeamRows
    <3>3. session' \in TeamRows /\ session'[NopTeam].v = Sync!Dummy /\ \A j \in Ids : j # NopTeam => session'[j] = table[j]
      BY <1>3, <3>1, <3>2 DEF TeamRows
    <3> QED
      BY <1>1, <1>3, <1>4, <2>1, <3>3 DEF HasTeam, First
  <2>2. CASE table[NopTeam].v # Sync!None
    BY <1>1, <1>3, <2>2 DEF First
  <2> QED
    BY <2>1, <2>2
<1>6. /\ sync'.pc = "teams" /\ sync'.delete = delete /\ sync'.remote = website
      /\ sync'.list = {i \in Ids : website[i] # Sync!None}
      /\ sync'.rest = {i \in Ids : session'[i].v # Sync!None}
  BY <1>1, <1>2
<1>7. SyncTypes'
  <2>1. sync' \in SyncRecord
    BY <1>1, <1>2, <1>3 DEF SyncRecord
  <2> QED
    BY <1>1, <1>3, <1>5, <2>1 DEF SyncTypes, SyncRecord
<1>8. ASSUME NEW j \in Ids PROVE TeamDone(j)'
  <2>1. (j \in sync.rest => session[j].v = First(j) /\ session[j].v # Sync!None)'
    BY <1>5, <1>6
  <2>2. (j \in sync.list => sync.remote[j] # Sync!None)'
    BY <1>6
  <2>3. (j \in sync.list /\ j \notin sync.rest => First(j) = Sync!None /\ session[j].v = Sync!None)'
    BY <1>5, <1>6
  <2>4. (sync.remote[j] # Sync!None => j \in sync.list)'
    BY <1>6
  <2>5. (j \notin sync.rest /\ sync.remote[j] = Sync!None => session[j].v = Sync!Target(j))'
    <3>1. j = NopTeam => First(j)' # Sync!None
      BY <1>4 DEF First
    <3>2. (j \notin sync.rest => session[j].v = Sync!None /\ First(j) = Sync!None)'
      BY <1>5, <1>6
    <3>3. (sync.remote[j] = Sync!None /\ j # NopTeam => Sync!Target(j) = IF sync.delete THEN Sync!None ELSE First(j))'
      BY DEF Sync!Target, First
    <3> QED
      BY <3>1, <3>2, <3>3
  <2> QED
    BY <2>1, <2>2, <2>3, <2>4, <2>5 DEF TeamDone
<1>9. SyncTable' /\ SyncLogos' /\ SyncTeams'
  BY <1>1, <1>3, <1>5, <1>6, <1>8 DEF SyncTable, SyncLogos, SyncTeams, Running
<1> QED
  BY <1>7, <1>9 DEF SyncInv

(* The last commit, and a run that fails.                                  *)
LEMMA EndStep ==
  ASSUME SyncInv, Sync!Finish \/ Sync!Fails
  PROVE  SyncInv'
<1>1. /\ UNCHANGED <<website, before>> /\ sync'.remote = sync.remote /\ sync'.delete = sync.delete
      /\ sync'.pc \in {"done", "failed"} /\ Running /\ session' \in TeamRows /\ table' \in TeamRows
      /\ sync' \in SyncRecord
  BY DEF Sync!Finish, Sync!Fails, SyncInv, SyncTypes, SyncRecord, Running
<1>2. SyncTypes'
  BY <1>1 DEF SyncInv, SyncTypes, SyncRecord
<1>3. SyncLogos'
  BY DEF SyncInv, SyncLogos, Sync!Finish, Sync!Fails
<1>4. SyncTeams'
  BY <1>1 DEF SyncTeams, Running
<1>5. \A j \in Ids : Sync!Target(j)' = Sync!Target(j) /\ First(j)' = First(j)
  BY <1>1, TargetStays
<1>6. SyncTable'
  <2>1. CASE Sync!Finish
    <3>1. sync.list = {} /\ sync.rest = {} /\ table' = session /\ sync'.pc = "done"
      BY <2>1 DEF Sync!Finish, SyncInv, SyncTypes, SyncRecord
    <3>2. \A j \in Ids : session[j].v = Sync!Target(j)
      BY <1>1, <3>1, TargetIs DEF SyncInv, SyncTeams, TeamDone
    <3> QED
      BY <1>5, <3>1, <3>2 DEF SyncTable, Running
  <2>2. CASE Sync!Fails
    <3>1. table' = table /\ sync'.pc = "failed"
      BY <2>2 DEF Sync!Fails, SyncInv, SyncTypes, SyncRecord
    <3> QED
      BY <1>1, <1>5, <3>1 DEF SyncInv, SyncTable, Running
  <2> QED
    BY <2>1, <2>2
<1> QED
  BY <1>2, <1>3, <1>4, <1>6 DEF SyncInv

(* Every step keeps the invariant.                                         *)
LEMMA SyncStep ==
  ASSUME Sync!None \notin Versions, NopTeam \in Ids, SyncInv, [Sync!Next]_(Sync!tvars)
  PROVE  SyncInv'
<1>1. ASSUME NEW i \in Ids, NEW v \in Versions \cup {Sync!None}, Sync!WebsiteChanges(i, v) PROVE SyncInv'
  <2>1. website' = [website EXCEPT ![i] = v] /\ sync' = Sync!Rest /\ UNCHANGED <<table, session, before>>
    BY <1>1 DEF Sync!WebsiteChanges
  <2>2. /\ Sync!Rest \in SyncRecord
        /\ Sync!Rest.pc = "idle"
    BY DEF Sync!Rest, SyncRecord
  <2> QED
    BY <2>1, <2>2 DEF SyncInv, SyncTypes, SyncRecord, SyncLogos, SyncTeams, SyncTable, Running
<1>2. ASSUME NEW delete \in BOOLEAN, Sync!Start(delete) PROVE SyncInv'
  BY <1>2, StartStep
<1>3. ASSUME NEW i \in Ids, NEW found \in BOOLEAN, Sync!update_team(i, found) PROVE SyncInv'
  BY <1>3, UpdateStep
<1>4. ASSUME NEW i \in Ids, NEW found \in BOOLEAN, Sync!AddLogo(i, found) PROVE SyncInv'
  BY <1>4, AddLogoStep
<1>5. ASSUME NEW i \in Ids, Sync!add_team(i) PROVE SyncInv'
  BY <1>5, AddStep
<1>6. ASSUME NEW i \in Ids, Sync!Absent(i) PROVE SyncInv'
  BY <1>6, AbsentStep
<1>7. CASE Sync!Finish \/ Sync!Fails
  BY <1>7, EndStep
<1>8. CASE UNCHANGED Sync!tvars
  <2>1. UNCHANGED <<website, table, session, before, sync>>
    BY <1>8 DEF Sync!tvars
  <2>2. \A j \in Ids : Sync!Target(j)' = Sync!Target(j) /\ First(j)' = First(j)
    BY <2>1, TargetStays
  <2>3. \A j \in Ids : TeamDone(j) => TeamDone(j)'
    BY <2>1, <2>2 DEF TeamDone
  <2>4. SyncTypes' /\ SyncLogos'
    BY <2>1 DEF SyncInv, SyncTypes, SyncRecord, SyncLogos
  <2>5. SyncTeams' /\ SyncTable'
    BY <2>1, <2>2, <2>3 DEF SyncInv, SyncTeams, SyncTable, Running
  <2> QED
    BY <2>4, <2>5 DEF SyncInv
<1> QED
  BY <1>1, <1>2, <1>3, <1>4, <1>5, <1>6, <1>7, <1>8 DEF Sync!Next

(* The component by itself.                                               *)
LEMMA SyncAlone ==
  ASSUME Sync!None \notin Versions, NopTeam \in Ids
  PROVE  Sync!Spec => [](Sync!TypeOK /\ Sync!SyncExact)
<1>1. Sync!Init => SyncInv
  <2> SUFFICES ASSUME Sync!Init PROVE SyncInv
    OBVIOUS
  <2>1. [v |-> Sync!None, logo |-> Sync!None] \in [v: TeamVersions, logo: TeamVersions]
    BY DEF TeamVersions
  <2>2. /\ table = [i \in Ids |-> [v |-> Sync!None, logo |-> Sync!None]] /\ session = table /\ before = table
        /\ sync = Sync!Rest /\ website \in [Ids -> Versions \cup {Sync!None}]
    BY DEF Sync!Init, Sync!NoTeam
  <2>3. table \in TeamRows /\ \A i \in Ids : HasTeam(table[i])
    BY <2>1, <2>2 DEF TeamRows, HasTeam
  <2>4. /\ Sync!Rest \in SyncRecord
        /\ Sync!Rest.pc = "idle"
    BY DEF Sync!Rest, SyncRecord
  <2> QED
    BY <2>2, <2>3, <2>4 DEF SyncInv, SyncTypes, SyncRecord, SyncLogos, SyncTeams, SyncTable, Running
<1>2. SyncInv /\ [Sync!Next]_(Sync!tvars) => SyncInv'
  BY SyncStep
<1>3. SyncInv => Sync!TypeOK /\ Sync!SyncExact
  <2> SUFFICES ASSUME SyncInv PROVE Sync!TypeOK /\ Sync!SyncExact
    OBVIOUS
  <2>1. Sync!TypeOK
    BY DEF SyncInv, SyncTypes, SyncRecord, SyncLogos, HasTeam, TeamRows, TeamVersions, Sync!TypeOK
  <2>2. Sync!SyncExact
    BY DEF SyncInv, SyncTable, First, Running, Sync!SyncExact
  <2> QED
    BY <2>1, <2>2
<1> QED
  BY <1>1, <1>2, <1>3, PTL DEF Sync!Spec

(* A run of the synchronization that ends has brought every registered     *)
(* team to its version, kept the NOP team and, with --delete, left no      *)
(* other; one that fails between two of its commits leaves every team as   *)
(* it was or as the run would have left it (main, add_team,                *)
(* store_logo_bytes), for every number of teams, versions and runs.        *)
THEOREM SyncCorrect == Spec => []SyncExact
<1> DEFINE Chosen == component = "teams"
<1>1. Sync!Spec => [](Sync!TypeOK /\ Sync!SyncExact)
  BY SyncAlone, ToolsAssumption
<1>2. Init /\ Chosen => Sync!Init
  BY DEF Init
<1>3. Chosen /\ [Next]_tools => Chosen' /\ [Sync!Next]_(Sync!tvars)
  BY OneComponent DEF Next, tools, Sync!tvars
<1>4. ~Chosen /\ [Next]_tools => ~Chosen'
  BY OneComponent
<1> QED
  BY <1>1, <1>2, <1>3, <1>4, PTL DEF Spec, Sync!Spec, SyncExact

-----------------------------------------------------------------------------
(* The hooks of the OpenVPN servers.                                       *)

(* The names of its variables.                                              *)
unit == v1
link == v2
clients == v3
joining == v4
hook == v5
ctl == v6
row == v7
ever == v8
stale == v9
orderly == v10
USE DEF unit, link, clients, joining, hook, ctl, row, ever, stale, orderly

HookSteps == {"connect", "insert", "disconnect", "stop", "wait", "start"} \X SUBSET Hooks!Units
Switching == {"stop", "wait", "start"}

(* Where the hook of a server is: about to write into the database, or     *)
(* not.                                                                    *)
At(u) ==
  IF hook[u] = <<>> THEN "rest" ELSE IF Head(hook[u])[1] \in Switching THEN "rest" ELSE Head(hook[u])[1]
Told(u) == row # Hooks!None /\ row[u]

HookTypes ==
  /\ Hooks!TypeOK
  /\ joining \in BOOLEAN /\ (joining => clients < MaxClients)
  /\ hook \in [Hooks!Tunnels -> Seq(HookSteps)]
  /\ \A u \in Hooks!Tunnels : \A i \in 2..Len(hook[u]) : hook[u][i][1] \in Switching

(* What a tunnel is, what its hook is about to write, and what the row     *)
(* says.                                                                   *)
TunnelInv(u) ==
  /\ At(u) \in {"connect", "insert"} => link[u]
  /\ At(u) = "disconnect" => ~link[u]
  /\ u \notin stale /\ At(u) = "rest" => (Told(u) <=> link[u])
  /\ u \notin stale /\ At(u) = "insert" => ~Told(u)

PlayersInv == "players" \notin stale => clients = IF row = Hooks!None THEN 0 ELSE row.count

HooksInv == HookTypes /\ (\A u \in Hooks!Tunnels : TunnelInv(u)) /\ PlayersInv

(* A row is a row.                                                         *)
LEMMA RowIsThere ==
  ASSUME NEW r \in Hooks!Row
  PROVE  r # Hooks!None /\ r = [self |-> r.self, vulnbox |-> r.vulnbox, count |-> r.count, seen |-> r.seen]
<1>1. DOMAIN r = {"self", "vulnbox", "count", "seen"}
  BY DEF Hooks!Row
<1>2. DOMAIN Hooks!None = {}
  BY DEF Hooks!None
<1> QED
  BY <1>1, <1>2 DEF Hooks!Row

(* What is left of a hook only switches.                                   *)
LEMMA RestOfHook ==
  ASSUME NEW q \in Seq(HookSteps), q # <<>>, \A i \in 2..Len(q) : q[i][1] \in Switching
  PROVE  /\ Tail(q) \in Seq(HookSteps)
         /\ \A i \in 2..Len(Tail(q)) : Tail(q)[i][1] \in Switching
         /\ Tail(q) # <<>> => Head(Tail(q))[1] \in Switching
         /\ \A i \in 1..Len(Tail(q)) : Tail(q)[i][1] \in Switching
<1>1. /\ Tail(q) \in Seq(HookSteps) /\ Len(Tail(q)) = Len(q) - 1 /\ Len(q) \in Nat \ {0}
      /\ \A i \in 1..Len(Tail(q)) : Tail(q)[i] = q[i + 1]
  OBVIOUS
<1>2. \A i \in 1..Len(Tail(q)) : Tail(q)[i][1] \in Switching
  BY <1>1
<1>3. Tail(q) # <<>> => Head(Tail(q)) = Tail(q)[1] /\ 1 \in 1..Len(Tail(q))
  BY <1>1
<1> QED
  BY <1>1, <1>2, <1>3

(* A server whose hook takes a step.                                       *)
LEMMA HookTail ==
  ASSUME HookTypes, NEW u \in Hooks!Tunnels, hook[u] # <<>>, hook' = [hook EXCEPT ![u] = Tail(@)]
  PROVE  /\ hook' \in [Hooks!Tunnels -> Seq(HookSteps)]
         /\ \A v \in Hooks!Tunnels : \A i \in 2..Len(hook'[v]) : hook'[v][i][1] \in Switching
         /\ At(u)' = "rest"
         /\ \A v \in Hooks!Tunnels \ {u} : At(v)' = At(v)
<1>1. hook[u] \in Seq(HookSteps) /\ \A i \in 2..Len(hook[u]) : hook[u][i][1] \in Switching
  BY DEF HookTypes
<1>2. /\ Tail(hook[u]) \in Seq(HookSteps)
      /\ \A i \in 2..Len(Tail(hook[u])) : Tail(hook[u])[i][1] \in Switching
      /\ Tail(hook[u]) # <<>> => Head(Tail(hook[u]))[1] \in Switching
  <2>1. PICK q \in Seq(HookSteps) : q = hook[u]
    BY <1>1
  <2> QED
    BY <1>1, <2>1, RestOfHook
<1>3. hook'[u] = Tail(hook[u]) /\ \A v \in Hooks!Tunnels \ {u} : hook'[v] = hook[v]
  BY DEF HookTypes
<1>4. hook' \in [Hooks!Tunnels -> Seq(HookSteps)]
  BY <1>2 DEF HookTypes
<1>5. \A v \in Hooks!Tunnels : \A i \in 2..Len(hook'[v]) : hook'[v][i][1] \in Switching
  BY <1>2, <1>3 DEF HookTypes
<1>6. At(u)' = "rest"
  BY <1>2, <1>3 DEF At
<1>7. \A v \in Hooks!Tunnels \ {u} : At(v)' = At(v)
  BY <1>3 DEF At
<1> QED
  BY <1>4, <1>5, <1>6, <1>7

(* A server whose hook is replaced.                                        *)
LEMMA HookSet ==
  ASSUME HookTypes, NEW u \in Hooks!Tunnels, NEW q \in Seq(HookSteps), hook' = [hook EXCEPT ![u] = q],
         \A i \in 2..Len(q) : q[i][1] \in Switching
  PROVE  /\ hook' \in [Hooks!Tunnels -> Seq(HookSteps)]
         /\ \A v \in Hooks!Tunnels : \A i \in 2..Len(hook'[v]) : hook'[v][i][1] \in Switching
         /\ q # <<>> /\ Head(q)[1] \notin Switching => At(u)' = Head(q)[1]
         /\ q = <<>> => At(u)' = "rest"
         /\ \A v \in Hooks!Tunnels \ {u} : At(v)' = At(v)
<1>1. hook'[u] = q /\ \A v \in Hooks!Tunnels \ {u} : hook'[v] = hook[v]
  BY DEF HookTypes
<1>2. hook' \in [Hooks!Tunnels -> Seq(HookSteps)]
  BY DEF HookTypes
<1>3. \A v \in Hooks!Tunnels : \A i \in 2..Len(hook'[v]) : hook'[v][i][1] \in Switching
  BY <1>1 DEF HookTypes
<1>4. q # <<>> /\ Head(q)[1] \notin Switching => At(u)' = Head(q)[1]
  BY <1>1 DEF At
<1>5. q = <<>> => At(u)' = "rest"
  BY <1>1 DEF At
<1>6. \A v \in Hooks!Tunnels \ {u} : At(v)' = At(v)
  BY <1>1 DEF At
<1> QED
  BY <1>2, <1>3, <1>4, <1>5, <1>6

(* A tunnel about which nothing changed.                                   *)
LEMMA TunnelSame ==
  ASSUME NEW u \in Hooks!Tunnels, TunnelInv(u), At(u)' = At(u), link'[u] = link[u], Told(u)' <=> Told(u),
         u \in stale => u \in stale'
  PROVE  TunnelInv(u)'
  BY DEF TunnelInv

(* What on-connect.py leaves of a row.                                     *)
LEMMA RowConnects ==
  ASSUME NEW r \in Hooks!Row, NEW u \in Hooks!Tunnels, NEW q, q = [r EXCEPT ![u] = TRUE, !.seen = "since"]
  PROVE  q \in Hooks!Row /\ q[u] = TRUE /\ q.count = r.count /\ \A v \in Hooks!Tunnels \ {u} : q[v] = r[v]
<1>1. CASE u = "self"
  BY <1>1 DEF Hooks!Row, Hooks!Tunnels
<1>2. CASE u = "vulnbox"
  BY <1>2 DEF Hooks!Row, Hooks!Tunnels
<1> QED
  BY <1>1, <1>2 DEF Hooks!Tunnels

(* A new row.                                                              *)
LEMMA FirstRow ==
  /\ Hooks!NewRow \in Hooks!Row /\ Hooks!NewRow.count = 0
  /\ \A u \in Hooks!Tunnels : ~Hooks!NewRow[u]
  BY DEF Hooks!Row, Hooks!NewRow, Hooks!Tunnels

(* The parts of a hook that write into the database.                       *)
LEMMA HookWrites ==
  ASSUME HooksInv, NEW u \in Hooks!Tunnels, hook[u] # <<>>,
         \/ Head(hook[u])[1] = "connect" /\ Hooks!connect(u)
         \/ Head(hook[u])[1] = "disconnect" /\ Hooks!disconnect(u),
         UNCHANGED <<ctl, ever, orderly>>
  PROVE  HooksInv'
<1> DEFINE b == Head(hook[u])[1] = "connect"
<1>1. /\ hook' = [hook EXCEPT ![u] = Tail(@)] /\ stale' = stale \ {u} /\ UNCHANGED <<unit, link, clients, joining>>
      /\ b => row # Hooks!None
      /\ link[u] <=> b
  <2>1. At(u) = Head(hook[u])[1]
    BY DEF At, Switching
  <2> QED
    BY <2>1 DEF Hooks!connect, Hooks!disconnect, HooksInv, TunnelInv, HookTypes, Hooks!TypeOK
<1>2. /\ hook' \in [Hooks!Tunnels -> Seq(HookSteps)]
      /\ \A v \in Hooks!Tunnels : \A i \in 2..Len(hook'[v]) : hook'[v][i][1] \in Switching
      /\ At(u)' = "rest" /\ \A v \in Hooks!Tunnels \ {u} : At(v)' = At(v)
  BY <1>1, HookTail DEF HooksInv
<1>3. /\ row' = Hooks!None \/ row' \in Hooks!Row
      /\ Told(u)' <=> b
      /\ \A v \in Hooks!Tunnels \ {u} : Told(v)' <=> Told(v)
      /\ (IF row' = Hooks!None THEN 0 ELSE row'.count) = (IF row = Hooks!None THEN 0 ELSE row.count)
  <2>0. row = Hooks!None \/ row \in Hooks!Row
    BY DEF HooksInv, HookTypes, Hooks!TypeOK
  <2>1. CASE b
    <3>1. row \in Hooks!Row /\ row' = [row EXCEPT ![u] = TRUE, !.seen = "since"]
      BY <1>1, <2>0, <2>1 DEF Hooks!connect, Hooks!disconnect
    <3>2. PICK r \in Hooks!Row : r = row
      BY <3>1
    <3>0. PICK q : q = row' /\ q = [r EXCEPT ![u] = TRUE, !.seen = "since"]
      BY <3>1, <3>2
    <3>3. row' \in Hooks!Row /\ row'[u] = TRUE /\ row'.count = row.count /\ \A v \in Hooks!Tunnels \ {u} : row'[v] = row[v]
      <4>1. q \in Hooks!Row /\ q[u] = TRUE /\ q.count = r.count /\ \A v \in Hooks!Tunnels \ {u} : q[v] = r[v]
        BY <3>0, RowConnects
      <4> QED
        BY <3>0, <3>2, <4>1
    <3>4. row' # Hooks!None /\ row # Hooks!None
      BY <3>1, <3>3, RowIsThere
    <3> QED
      BY <2>1, <3>3, <3>4 DEF Told
  <2>2. CASE ~b /\ ~Told(u)
    BY <2>0, <2>2 DEF Hooks!connect, Hooks!disconnect, Told
  <2>3. CASE ~b /\ Told(u)
    <3>1. row \in Hooks!Row /\ row' = [row EXCEPT ![u] = FALSE]
      BY <1>1, <2>0, <2>3 DEF Hooks!connect, Hooks!disconnect, Told
    <3>2. PICK r \in Hooks!Row : r = row
      BY <3>1
    <3>0. PICK q : q = row' /\ q = [r EXCEPT ![u] = FALSE]
      BY <3>1, <3>2
    <3>3. row' \in Hooks!Row /\ ~row'[u] /\ row'.count = row.count /\ \A v \in Hooks!Tunnels \ {u} : row'[v] = row[v]
      <4>1. q \in Hooks!Row /\ ~q[u] /\ q.count = r.count /\ \A v \in Hooks!Tunnels \ {u} : q[v] = r[v]
        <5>1. CASE u = "self"
          BY <3>0, <5>1 DEF Hooks!Row, Hooks!Tunnels
        <5>2. CASE u = "vulnbox"
          BY <3>0, <5>2 DEF Hooks!Row, Hooks!Tunnels
        <5> QED
          BY <5>1, <5>2 DEF Hooks!Tunnels
      <4> QED
        BY <3>0, <3>2, <4>1
    <3>4. row' # Hooks!None /\ row # Hooks!None
      BY <3>1, <3>3, RowIsThere
    <3> QED
      BY <2>3, <3>3, <3>4 DEF Told
  <2> QED
    BY <2>1, <2>2, <2>3
<1>4. HookTypes'
  BY <1>1, <1>2, <1>3 DEF HooksInv, HookTypes, Hooks!TypeOK
<1>5. ASSUME NEW v \in Hooks!Tunnels \ {u} PROVE TunnelInv(v)'
  BY <1>1, <1>2, <1>3, TunnelSame DEF HooksInv
<1>6. TunnelInv(u)'
  BY <1>1, <1>2, <1>3 DEF TunnelInv
<1>7. PlayersInv'
  <2>1. u # "players"
    BY DEF Hooks!Tunnels
  <2> QED
    BY <1>1, <1>3, <2>1 DEF HooksInv, PlayersInv
<1> QED
  BY <1>4, <1>5, <1>6, <1>7 DEF HooksInv

(* Two transactions for a team that is not in the database.                *)
LEMMA HookInserts ==
  ASSUME HooksInv, NEW u \in Hooks!Tunnels, hook[u] # <<>>,
         \/ Head(hook[u])[1] = "connect" /\ Hooks!connect_new(u)
         \/ Head(hook[u])[1] = "insert" /\ (Hooks!insert(u) \/ Hooks!insert_fails(u)),
         UNCHANGED <<ctl, ever, orderly>>
  PROVE  HooksInv'
<1>0. row = Hooks!None \/ row \in Hooks!Row
  BY DEF HooksInv, HookTypes, Hooks!TypeOK
<1>1. ASSUME Head(hook[u])[1] = "connect", Hooks!connect_new(u) PROVE HooksInv'
  <2>1. At(u) = "connect" /\ link[u]
    BY <1>1 DEF At, Switching, HooksInv, TunnelInv
  <2>2. hook[u] \in Seq(HookSteps) /\ \A i \in 2..Len(hook[u]) : hook[u][i][1] \in Switching
    BY DEF HooksInv, HookTypes
  <2>3. PICK q \in Seq(HookSteps) : q = Tail(hook[u]) /\ \A i \in 1..Len(q) : q[i][1] \in Switching
    <3>1. PICK h \in Seq(HookSteps) : h = hook[u]
      BY <2>2
    <3> QED
      BY <2>2, <3>1, RestOfHook
  <2>4. <<"insert", {u}>> \in HookSteps
    BY DEF HookSteps, Hooks!Units
  <2>5. PICK w \in Seq(HookSteps) : w = <<<<"insert", {u}>>>> \o q /\ w # <<>> /\ Head(w)[1] = "insert" /\ \A i \in 2..Len(w) : w[i][1] \in Switching
    <3>1. <<<<"insert", {u}>>>> \o q \in Seq(HookSteps) /\ Len(<<<<"insert", {u}>>>> \o q) = Len(q) + 1
      BY <2>3, <2>4
    <3>2. (<<<<"insert", {u}>>>> \o q)[1] = <<"insert", {u}>> /\ \A i \in 2..(Len(q) + 1) : (<<<<"insert", {u}>>>> \o q)[i] = q[i - 1]
      BY <2>3, <2>4
    <3>3. PICK w : w = <<<<"insert", {u}>>>> \o q
      OBVIOUS
    <3>4. w \in Seq(HookSteps) /\ Len(w) = Len(q) + 1 /\ Len(q) \in Nat /\ w[1] = <<"insert", {u}>>
      BY <2>3, <3>1, <3>2, <3>3
    <3>5. w # <<>> /\ Head(w) = w[1]
      BY <3>4
    <3>6. \A i \in 2..Len(w) : w[i] = q[i - 1] /\ i - 1 \in 1..Len(q)
      BY <3>2, <3>3, <3>4
    <3>7. \A i \in 2..Len(w) : w[i][1] \in Switching
      BY <2>3, <3>6
    <3>8. Head(w)[1] = "insert"
      BY <3>4, <3>5
    <3> QED
      BY <3>3, <3>4, <3>5, <3>7, <3>8
  <2>6. hook' = [hook EXCEPT ![u] = w] /\ UNCHANGED <<unit, link, clients, joining, row, stale>> /\ row = Hooks!None
    BY <1>1, <2>3, <2>5 DEF Hooks!connect_new
  <2>7. /\ hook' \in [Hooks!Tunnels -> Seq(HookSteps)]
        /\ \A v \in Hooks!Tunnels : \A i \in 2..Len(hook'[v]) : hook'[v][i][1] \in Switching
        /\ At(u)' = "insert" /\ \A v \in Hooks!Tunnels \ {u} : At(v)' = At(v)
    BY <2>5, <2>6, HookSet DEF HooksInv, Switching
  <2>8. HookTypes' /\ PlayersInv'
    BY <2>6, <2>7 DEF HooksInv, HookTypes, PlayersInv, Hooks!TypeOK
  <2>9. \A v \in Hooks!Tunnels \ {u} : TunnelInv(v)'
    BY <2>6, <2>7, TunnelSame DEF HooksInv, Told
  <2>10. TunnelInv(u)'
    BY <2>1, <2>6, <2>7 DEF TunnelInv, Told
  <2> QED
    BY <2>8, <2>9, <2>10 DEF HooksInv
<1>2. ASSUME Head(hook[u])[1] = "insert", Hooks!insert(u) PROVE HooksInv'
  <2>1. At(u) = "insert" /\ link[u]
    BY <1>2 DEF At, Switching, HooksInv, TunnelInv
  <2>2. /\ hook' = [hook EXCEPT ![u] = Tail(@)] /\ UNCHANGED <<unit, link, clients, joining, stale>> /\ row = Hooks!None
        /\ row' = [Hooks!NewRow EXCEPT ![u] = TRUE, !.seen = "since"]
    BY <1>2 DEF Hooks!insert
  <2>3. row' \in Hooks!Row /\ row'[u] = TRUE /\ row'.count = 0 /\ \A v \in Hooks!Tunnels \ {u} : row'[v] = FALSE
    <3>1. PICK r \in Hooks!Row : r = Hooks!NewRow
      BY FirstRow
    <3>2. \A v \in Hooks!Tunnels : r[v] = FALSE
      BY <3>1 DEF Hooks!Tunnels, Hooks!NewRow
    <3>3. PICK q : q = row' /\ q = [r EXCEPT ![u] = TRUE, !.seen = "since"]
      BY <2>2, <3>1
    <3>4. q \in Hooks!Row /\ q[u] = TRUE /\ q.count = r.count /\ \A v \in Hooks!Tunnels \ {u} : q[v] = r[v]
      BY <3>3, RowConnects
    <3> QED
      BY <3>1, <3>2, <3>3, <3>4, FirstRow
  <2>4. row' # Hooks!None
    BY <2>3, RowIsThere
  <2>5. /\ hook' \in [Hooks!Tunnels -> Seq(HookSteps)]
        /\ \A v \in Hooks!Tunnels : \A i \in 2..Len(hook'[v]) : hook'[v][i][1] \in Switching
        /\ At(u)' = "rest" /\ \A v \in Hooks!Tunnels \ {u} : At(v)' = At(v)
    BY <2>2, HookTail DEF HooksInv
  <2>6. HookTypes' /\ PlayersInv'
    BY <2>2, <2>3, <2>4, <2>5 DEF HooksInv, HookTypes, PlayersInv, Hooks!TypeOK
  <2>7. \A v \in Hooks!Tunnels \ {u} : TunnelInv(v)'
    BY <2>2, <2>3, <2>4, <2>5, TunnelSame DEF HooksInv, Told
  <2>8. TunnelInv(u)'
    BY <2>1, <2>2, <2>3, <2>4, <2>5 DEF TunnelInv, Told
  <2> QED
    BY <2>6, <2>7, <2>8 DEF HooksInv
<1>3. ASSUME Head(hook[u])[1] = "insert", Hooks!insert_fails(u) PROVE HooksInv'
  <2>1. At(u) = "insert" /\ link[u] /\ (u \notin stale => ~Told(u))
    BY <1>3 DEF At, Switching, HooksInv, TunnelInv
  <2>2. /\ hook' = [hook EXCEPT ![u] = <<>>] /\ UNCHANGED <<clients, joining, row, stale>>
        /\ link' = [link EXCEPT ![u] = FALSE] /\ unit' = [unit EXCEPT ![u] = "off"]
    BY <1>3 DEF Hooks!insert_fails
  <2>3. PICK w \in Seq(HookSteps) : w = <<>> /\ \A i \in 2..Len(w) : w[i][1] \in Switching
    <3>1. <<>> \in Seq(HookSteps) /\ 2..Len(<<>>) = {}
      OBVIOUS
    <3> QED
      BY <3>1
  <2>4. /\ hook' \in [Hooks!Tunnels -> Seq(HookSteps)]
        /\ \A v \in Hooks!Tunnels : \A i \in 2..Len(hook'[v]) : hook'[v][i][1] \in Switching
        /\ At(u)' = "rest" /\ \A v \in Hooks!Tunnels \ {u} : At(v)' = At(v)
    BY <2>2, <2>3, HookSet DEF HooksInv
  <2>5. link' \in [Hooks!Tunnels -> BOOLEAN] /\ unit' \in [Hooks!Units -> {"on", "off", "stopping"}]
        /\ link'[u] = FALSE /\ \A v \in Hooks!Tunnels \ {u} : link'[v] = link[v]
    BY <2>2 DEF HooksInv, HookTypes, Hooks!TypeOK, Hooks!Units
  <2>6. HookTypes' /\ PlayersInv'
    BY <2>2, <2>4, <2>5 DEF HooksInv, HookTypes, PlayersInv, Hooks!TypeOK
  <2>7. \A v \in Hooks!Tunnels \ {u} : TunnelInv(v)'
    BY <2>2, <2>4, <2>5, TunnelSame DEF HooksInv, Told
  <2>8. TunnelInv(u)'
    BY <2>1, <2>2, <2>4, <2>5 DEF TunnelInv, Told
  <2> QED
    BY <2>6, <2>7, <2>8 DEF HooksInv
<1> QED
  BY <1>1, <1>2, <1>3

(* The programs of the hooks.                                              *)
LEMMA HookPrograms ==
  ASSUME NEW u \in Hooks!Tunnels
  PROVE  /\ Hooks!OnConnect(u) \in Seq(HookSteps) /\ Hooks!OnConnect(u) # <<>>
         /\ Head(Hooks!OnConnect(u))[1] = "connect"
         /\ \A i \in 2..Len(Hooks!OnConnect(u)) : Hooks!OnConnect(u)[i][1] \in Switching
         /\ Hooks!OnDisconnect(u) \in Seq(HookSteps) /\ Hooks!OnDisconnect(u) # <<>>
         /\ Head(Hooks!OnDisconnect(u))[1] = "disconnect"
         /\ \A i \in 2..Len(Hooks!OnDisconnect(u)) : Hooks!OnDisconnect(u)[i][1] \in Switching
<1>1. /\ <<"connect", {u}>> \in HookSteps /\ <<"disconnect", {u}>> \in HookSteps
      /\ <<"stop", {"players"}>> \in HookSteps /\ <<"wait", {"players"}>> \in HookSteps /\ <<"start", {"players"}>> \in HookSteps
      /\ <<"stop", {"self"}>> \in HookSteps /\ <<"wait", {"self"}>> \in HookSteps /\ <<"start", {"self"}>> \in HookSteps
  BY DEF HookSteps, Hooks!Units, Hooks!Tunnels
<1>2. CASE u = "self"
  <2>1. /\ Hooks!OnConnect(u) = <<<<"connect", {u}>>, <<"stop", {"players"}>>, <<"wait", {"players"}>>>>
        /\ Hooks!OnDisconnect(u) = <<<<"disconnect", {u}>>, <<"start", {"players"}>>>>
    BY <1>2 DEF Hooks!OnConnect, Hooks!OnDisconnect
  <2> QED
    BY <1>1, <2>1 DEF Switching
<1>3. CASE u = "vulnbox"
  <2>1. /\ Hooks!OnConnect(u) = <<<<"connect", {u}>>, <<"stop", {"self"}>>, <<"wait", {"self"}>>, <<"start", {"players"}>>>>
        /\ Hooks!OnDisconnect(u) = <<<<"disconnect", {u}>>, <<"start", {"self"}>>>>
    BY <1>3 DEF Hooks!OnConnect, Hooks!OnDisconnect
  <2> QED
    BY <1>1, <2>1 DEF Switching
<1> QED
  BY <1>2, <1>3 DEF Hooks!Tunnels

(* systemctl keeps the type of the services.                               *)
LEMMA SystemctlTypes ==
  ASSUME HookTypes, NEW step, Hooks!Systemctl(step)
  PROVE  unit' \in [Hooks!Units -> {"on", "off", "stopping"}]
  BY DEF HookTypes, Hooks!TypeOK, Hooks!Systemctl, Hooks!Stop, Hooks!Wait, Hooks!Start

(* The steps of a hook.                                                    *)
LEMMA HookStep ==
  ASSUME HooksInv, NEW u \in Hooks!Tunnels, Hooks!Hook(u)
  PROVE  HooksInv'
<1>1. hook[u] # <<>> /\ UNCHANGED <<ctl, ever, orderly>>
  BY DEF Hooks!Hook
<1>2. ASSUME Hooks!Systemctl(Head(hook[u])), hook' = [hook EXCEPT ![u] = Tail(@)],
             UNCHANGED <<link, clients, joining, row, stale>>
      PROVE  HooksInv'
  <2>1. unit' \in [Hooks!Units -> {"on", "off", "stopping"}]
    BY <1>2, SystemctlTypes DEF HooksInv
  <2>2. At(u) = "rest"
    BY <1>1, <1>2 DEF At, Switching, Hooks!Systemctl
  <2>3. /\ hook' \in [Hooks!Tunnels -> Seq(HookSteps)]
        /\ \A v \in Hooks!Tunnels : \A i \in 2..Len(hook'[v]) : hook'[v][i][1] \in Switching
        /\ At(u)' = "rest" /\ \A v \in Hooks!Tunnels \ {u} : At(v)' = At(v)
    BY <1>1, <1>2, HookTail DEF HooksInv
  <2>4. HookTypes' /\ PlayersInv'
    BY <1>2, <2>1, <2>3 DEF HooksInv, HookTypes, PlayersInv, Hooks!TypeOK
  <2>5. \A v \in Hooks!Tunnels : At(v)' = At(v)
    BY <2>2, <2>3
  <2>6. \A v \in Hooks!Tunnels : TunnelInv(v)'
    BY <1>2, <2>5, TunnelSame DEF HooksInv, Told
  <2> QED
    BY <2>4, <2>6 DEF HooksInv
<1> QED
  BY <1>1, <1>2, HookWrites, HookInserts DEF Hooks!Hook

(* A tunnel comes or goes, and its server runs a hook.                     *)
LEMMA TunnelStep ==
  ASSUME HooksInv, NEW u \in Hooks!Tunnels, Hooks!TunnelUp(u) \/ Hooks!TunnelDown(u) \/ (Hooks!Terminate(u) /\ link[u])
  PROVE  HooksInv'
<1>1. PICK q \in Seq(HookSteps), b \in BOOLEAN :
        /\ hook' = [hook EXCEPT ![u] = q] /\ link' = [link EXCEPT ![u] = b] /\ UNCHANGED <<unit, clients, joining, row, stale>>
        /\ q # <<>> /\ Head(q)[1] = (IF b THEN "connect" ELSE "disconnect")
        /\ \A i \in 2..Len(q) : q[i][1] \in Switching
  <2>1. CASE Hooks!TunnelUp(u)
    BY <2>1, HookPrograms DEF Hooks!TunnelUp
  <2>2. CASE Hooks!TunnelDown(u)
    BY <2>2, HookPrograms DEF Hooks!TunnelDown
  <2>3. CASE Hooks!Terminate(u) /\ link[u]
    BY <2>3, HookPrograms DEF Hooks!Terminate
  <2> QED
    BY <2>1, <2>2, <2>3
<1>2. /\ hook' \in [Hooks!Tunnels -> Seq(HookSteps)]
      /\ \A v \in Hooks!Tunnels : \A i \in 2..Len(hook'[v]) : hook'[v][i][1] \in Switching
      /\ At(u)' = (IF b THEN "connect" ELSE "disconnect") /\ \A v \in Hooks!Tunnels \ {u} : At(v)' = At(v)
  BY <1>1, HookSet DEF HooksInv, Switching
<1>3. link' \in [Hooks!Tunnels -> BOOLEAN] /\ link'[u] = b /\ \A v \in Hooks!Tunnels \ {u} : link'[v] = link[v]
  BY <1>1 DEF HooksInv, HookTypes, Hooks!TypeOK
<1>4. HookTypes' /\ PlayersInv'
  BY <1>1, <1>2, <1>3 DEF HooksInv, HookTypes, PlayersInv, Hooks!TypeOK
<1>5. \A v \in Hooks!Tunnels \ {u} : TunnelInv(v)'
  BY <1>1, <1>2, <1>3, TunnelSame DEF HooksInv, Told
<1>6. TunnelInv(u)'
  BY <1>2, <1>3 DEF TunnelInv
<1> QED
  BY <1>4, <1>5, <1>6 DEF HooksInv

(* Steps that leave the tunnels, their hooks and what the row says of them *)
(* alone.                                                                  *)
LEMMA PlayersStep ==
  ASSUME HooksInv, UNCHANGED <<link, hook>>, \A u \in Hooks!Tunnels : (Told(u)' <=> Told(u)) /\ (u \in stale => u \in stale'),
         unit' \in [Hooks!Units -> {"on", "off", "stopping"}], clients' \in 0..MaxClients,
         joining' \in BOOLEAN, joining' => clients' < MaxClients,
         row' = Hooks!None \/ row' \in Hooks!Row, stale' \subseteq Hooks!Units, PlayersInv'
  PROVE  HooksInv'
<1>1. HookTypes'
  BY DEF HooksInv, HookTypes, Hooks!TypeOK
<1>2. \A u \in Hooks!Tunnels : At(u)' = At(u)
  BY DEF At
<1>3. \A u \in Hooks!Tunnels : TunnelInv(u)'
  BY <1>2, TunnelSame DEF HooksInv
<1> QED
  BY <1>1, <1>3 DEF HooksInv

(* Players who come and go.                                                *)
LEMMA ClientStep ==
  ASSUME HooksInv, MaxClients \in Nat, Hooks!ClientJoins \/ Hooks!ClientInsert \/ Hooks!ClientLeaves \/ Hooks!PlayersDown
  PROVE  HooksInv'
<1>0. /\ row = Hooks!None \/ row \in Hooks!Row
      /\ clients \in 0..MaxClients /\ joining \in BOOLEAN /\ (joining => clients < MaxClients)
      /\ unit \in [Hooks!Units -> {"on", "off", "stopping"}] /\ stale \subseteq Hooks!Units
      /\ "players" \notin stale => clients = IF row = Hooks!None THEN 0 ELSE row.count
  BY DEF HooksInv, HookTypes, Hooks!TypeOK, PlayersInv
<1>1. \A r \in Hooks!Row : \A n \in Int :
        /\ [r EXCEPT !.count = n] \in Hooks!Row /\ [r EXCEPT !.count = n].count = n
        /\ \A u \in Hooks!Tunnels : [r EXCEPT !.count = n][u] = r[u]
        /\ r.count \in Int
  BY DEF Hooks!Row, Hooks!Tunnels
<1>2. ASSUME NEW n \in Int, row \in Hooks!Row, row' = [row EXCEPT !.count = n]
      PROVE  row' \in Hooks!Row /\ row'.count = n /\ row' # Hooks!None /\ \A u \in Hooks!Tunnels : Told(u)' <=> Told(u)
  <2>1. row' \in Hooks!Row /\ row'.count = n /\ \A u \in Hooks!Tunnels : row'[u] = row[u]
    BY <1>1, <1>2
  <2>2. row # Hooks!None /\ row' # Hooks!None
    BY <1>2, <2>1, RowIsThere
  <2> QED
    BY <2>1, <2>2 DEF Told
<1>3. CASE Hooks!ClientJoins
  <2>1. CASE row # Hooks!None
    <3>1. row \in Hooks!Row /\ row.count + 1 \in Int /\ row' = [row EXCEPT !.count = row.count + 1]
      <4>1. row \in Hooks!Row
        BY <1>0, <2>1
      <4>2. row.count \in Int
        BY <4>1 DEF Hooks!Row
      <4>3. row' = [row EXCEPT !.count = row.count + 1]
        BY <1>3, <2>1 DEF Hooks!ClientJoins
      <4> QED
        BY <4>1, <4>2, <4>3
    <3>2. row' \in Hooks!Row /\ row'.count = row.count + 1 /\ row' # Hooks!None /\ \A u \in Hooks!Tunnels : Told(u)' <=> Told(u)
      BY <1>2, <3>1
    <3>3. clients' = clients + 1 /\ UNCHANGED <<link, hook, unit, joining, stale>> /\ clients < MaxClients /\ ~joining
      BY <1>3, <2>1 DEF Hooks!ClientJoins
    <3>4. PlayersInv' /\ clients' \in 0..MaxClients
      BY <1>0, <2>1, <3>2, <3>3 DEF PlayersInv
    <3> QED
      BY <1>0, <3>2, <3>3, <3>4, PlayersStep
  <2>2. CASE row = Hooks!None
    <3>1. joining' = TRUE /\ UNCHANGED <<link, hook, unit, row, clients, stale>> /\ clients < MaxClients
      BY <1>3, <2>2 DEF Hooks!ClientJoins
    <3>2. PlayersInv'
      BY <1>0, <3>1 DEF PlayersInv
    <3> QED
      BY <1>0, <3>1, <3>2, PlayersStep DEF Told
  <2> QED
    BY <2>1, <2>2
<1>4. CASE Hooks!ClientInsert
  <2>1. CASE row # Hooks!None
    <3>1. joining' = FALSE /\ UNCHANGED <<link, hook, unit, row, clients, stale>>
      BY <1>4, <2>1 DEF Hooks!ClientInsert
    <3>2. PlayersInv'
      BY <1>0, <3>1 DEF PlayersInv
    <3> QED
      BY <1>0, <3>1, <3>2, PlayersStep DEF Told
  <2>2. CASE row = Hooks!None
    <3>1. /\ joining' = FALSE /\ joining /\ UNCHANGED <<link, hook, unit, stale>> /\ clients' = clients + 1
          /\ row' = [Hooks!NewRow EXCEPT !.count = 1]
      BY <1>4, <2>2 DEF Hooks!ClientInsert
    <3>2. row' \in Hooks!Row /\ row'.count = 1 /\ \A u \in Hooks!Tunnels : ~row'[u]
      <4>1. row' = [self |-> FALSE, vulnbox |-> FALSE, count |-> 1, seen |-> "never"]
        BY <3>1 DEF Hooks!NewRow
      <4> QED
        BY <4>1 DEF Hooks!Row, Hooks!Tunnels
    <3>3. row' # Hooks!None
      BY <3>2, RowIsThere
    <3>4. PlayersInv' /\ clients' \in 0..MaxClients
      BY <1>0, <2>2, <3>1, <3>2, <3>3 DEF PlayersInv
    <3>5. \A u \in Hooks!Tunnels : Told(u)' <=> Told(u)
      BY <2>2, <3>2 DEF Told
    <3> QED
      BY <1>0, <3>1, <3>2, <3>4, <3>5, PlayersStep
  <2> QED
    BY <2>1, <2>2
<1>5. CASE Hooks!ClientLeaves
  <2>1. row \in Hooks!Row /\ row.count - 1 \in Int /\ row' = [row EXCEPT !.count = row.count - 1]
    <3>1. row \in Hooks!Row
      BY <1>0, <1>5 DEF Hooks!ClientLeaves, Hooks!OnCloudDisconnect
    <3>2. row.count \in Int
      BY <3>1 DEF Hooks!Row
    <3>3. row' = [row EXCEPT !.count = row.count - 1]
      BY <1>5 DEF Hooks!ClientLeaves, Hooks!OnCloudDisconnect
    <3> QED
      BY <3>1, <3>2, <3>3
  <2>2. row' \in Hooks!Row /\ row'.count = row.count - 1 /\ row' # Hooks!None /\ \A u \in Hooks!Tunnels : Told(u)' <=> Told(u)
    BY <1>2, <2>1
  <2>3. clients' = clients - 1 /\ clients > 0 /\ ~joining /\ UNCHANGED <<link, hook, unit, joining, stale>> /\ row # Hooks!None
    BY <1>5 DEF Hooks!ClientLeaves, Hooks!OnCloudDisconnect
  <2>4. PlayersInv' /\ clients' \in 0..MaxClients
    BY <1>0, <1>1, <2>1, <2>2, <2>3 DEF PlayersInv
  <2> QED
    BY <1>0, <2>2, <2>3, <2>4, PlayersStep
<1>6. CASE Hooks!PlayersDown
  <2>1. /\ clients = 0 /\ ~joining /\ UNCHANGED <<link, hook, clients, joining>> /\ stale' = stale \ {"players"}
        /\ unit' \in [Hooks!Units -> {"on", "off", "stopping"}]
    BY <1>0, <1>6 DEF Hooks!PlayersDown
  <2>2. /\ row' = Hooks!None \/ row' \in Hooks!Row
        /\ \A u \in Hooks!Tunnels : Told(u)' <=> Told(u)
        /\ (IF row' = Hooks!None THEN 0 ELSE row'.count) = 0
    <3>1. CASE row = Hooks!None
      BY <1>6, <3>1 DEF Hooks!PlayersDown, Told
    <3>2. CASE row # Hooks!None
      <4>1. row \in Hooks!Row /\ row' = [row EXCEPT !.count = 0]
        BY <1>0, <1>6, <3>2 DEF Hooks!PlayersDown
      <4> QED
        BY <1>2, <4>1
    <3> QED
      BY <3>1, <3>2
  <2>3. PlayersInv'
    BY <2>1, <2>2 DEF PlayersInv
  <2>4. \A u \in Hooks!Tunnels : u \in stale => u \in stale'
    BY <2>1 DEF Hooks!Tunnels
  <2> QED
    BY <1>0, <2>1, <2>2, <2>3, <2>4, PlayersStep
<1> QED
  BY <1>3, <1>4, <1>5, <1>6

(* A reset of the status: whoever is connected has a stale one.            *)
LEMMA ResetStep ==
  ASSUME HooksInv, UNCHANGED <<unit, link, clients, joining, hook>>, row \in Hooks!Row, row' \in Hooks!Row,
         stale' \subseteq Hooks!Units,
         \A u \in Hooks!Tunnels : u \notin stale' => u \notin Hooks!Connected /\ ((u \in stale /\ ~row'[u]) \/ (u \notin stale /\ (row'[u] => row[u]))),
         "players" \notin stale' => "players" \notin Hooks!Connected /\ row'.count = 0
  PROVE  HooksInv'
<1>1. row # Hooks!None /\ row' # Hooks!None
  BY RowIsThere
<1>2. HookTypes'
  BY DEF HooksInv, HookTypes, Hooks!TypeOK
<1>3. ASSUME NEW u \in Hooks!Tunnels PROVE TunnelInv(u)'
  <2>1. At(u)' = At(u)
    BY DEF At
  <2>2. u \notin stale' => ~link[u] /\ hook[u] = <<>> /\ ~row'[u]
    <3> SUFFICES ASSUME u \notin stale' PROVE ~link[u] /\ hook[u] = <<>> /\ ~row'[u]
      OBVIOUS
    <3>1. ~link[u] /\ hook[u] = <<>>
      BY DEF Hooks!Connected
    <3>2. At(u) = "rest"
      BY <3>1 DEF At
    <3>3. u \notin stale => ~row[u]
      BY <1>1, <3>1, <3>2 DEF HooksInv, TunnelInv, Told
    <3> QED
      BY <3>1, <3>3
  <2> QED
    BY <2>1, <2>2 DEF HooksInv, TunnelInv, Told
<1>4. PlayersInv'
  <2>1. "players" \notin Hooks!Connected => clients = 0
    <3>1. clients \in 0..MaxClients
      BY DEF HooksInv, HookTypes, Hooks!TypeOK
    <3> QED
      BY <3>1 DEF Hooks!Connected
  <2> QED
    BY <1>1, <2>1 DEF PlayersInv
<1> QED
  BY <1>2, <1>3, <1>4 DEF HooksInv

(* Every step keeps the invariant.                                         *)
LEMMA HooksStep ==
  ASSUME HooksInv, MaxClients \in Nat, [Hooks!Next]_(Hooks!vars)
  PROVE  HooksInv'
<1>0. /\ row = Hooks!None \/ row \in Hooks!Row
      /\ clients \in 0..MaxClients /\ joining \in BOOLEAN /\ (joining => clients < MaxClients)
      /\ unit \in [Hooks!Units -> {"on", "off", "stopping"}] /\ stale \subseteq Hooks!Units
  BY DEF HooksInv, HookTypes, Hooks!TypeOK
<1>1. ASSUME NEW u \in Hooks!Tunnels, Hooks!Hook(u) PROVE HooksInv'
  BY <1>1, HookStep
<1>2. ASSUME NEW u \in Hooks!Tunnels, Hooks!TunnelUp(u) \/ Hooks!TunnelDown(u) \/ (Hooks!Terminate(u) /\ link[u]) PROVE HooksInv'
  BY <1>2, TunnelStep
<1>3. ASSUME UNCHANGED <<link, clients, joining, hook, row, stale>>, unit' \in [Hooks!Units -> {"on", "off", "stopping"}] PROVE HooksInv'
  <2>1. PlayersInv' /\ \A u \in Hooks!Tunnels : Told(u)' <=> Told(u)
    BY <1>3 DEF HooksInv, PlayersInv, Told
  <2> QED
    BY <1>0, <1>3, <2>1, PlayersStep
<1>4. ASSUME NEW u \in Hooks!Tunnels, Hooks!Terminate(u), ~link[u] PROVE HooksInv'
  <2>1. UNCHANGED <<link, clients, joining, hook, row, stale>> /\ unit' = [unit EXCEPT ![u] = "off"]
    BY <1>4 DEF Hooks!Terminate
  <2> QED
    BY <1>0, <1>3, <2>1
<1>5. CASE Hooks!ClientJoins \/ Hooks!ClientInsert \/ Hooks!ClientLeaves \/ Hooks!PlayersDown
  BY <1>5, ClientStep
<1>6. ASSUME NEW c \in Commands, Hooks!Command(c) PROVE HooksInv'
  BY <1>0, <1>3, <1>6 DEF Hooks!Command
<1>7. CASE Hooks!Ctl
  <2>1. UNCHANGED <<link, clients, joining, hook>>
    BY <1>7 DEF Hooks!Ctl
  <2>2. CASE Hooks!Systemctl(Head(ctl)) /\ UNCHANGED <<row, stale>>
    <3>1. unit' \in [Hooks!Units -> {"on", "off", "stopping"}]
      BY <2>2, SystemctlTypes DEF HooksInv
    <3> QED
      BY <1>3, <2>1, <2>2, <3>1
  <2>3. ASSUME row' = (IF row = Hooks!None THEN Hooks!None ELSE [row EXCEPT !.self = FALSE, !.vulnbox = FALSE, !.count = 0]),
               stale' = Hooks!Connected, UNCHANGED unit
        PROVE  HooksInv'
    <3>1. Hooks!Connected \subseteq Hooks!Units
      BY DEF Hooks!Connected, Hooks!Units
    <3>2. CASE row # Hooks!None
      <4>1. row \in Hooks!Row /\ row' = [row EXCEPT !.self = FALSE, !.vulnbox = FALSE, !.count = 0]
        BY <1>0, <2>3, <3>2
      <4>2. row' \in Hooks!Row /\ row'.count = 0 /\ \A u \in Hooks!Tunnels : ~row'[u]
        <5>1. PICK r \in Hooks!Row : r = row
          BY <4>1
        <5>2. r = [self |-> r.self, vulnbox |-> r.vulnbox, count |-> r.count, seen |-> r.seen]
          BY RowIsThere
        <5>3. row' = [self |-> FALSE, vulnbox |-> FALSE, count |-> 0, seen |-> r.seen]
          BY <4>1, <5>1, <5>2
        <5>4. r.seen \in {"never", "before", "since"}
          BY DEF Hooks!Row
        <5> QED
          BY <5>3, <5>4 DEF Hooks!Row, Hooks!Tunnels
      <4> QED
        BY <2>1, <2>3, <3>1, <4>1, <4>2, ResetStep
    <3>3. CASE row = Hooks!None
      <4>1. HookTypes'
        BY <2>1, <2>3, <3>1, <3>3 DEF HooksInv, HookTypes, Hooks!TypeOK
      <4>2. PlayersInv'
        BY <1>0, <2>1, <2>3, <3>3 DEF PlayersInv, Hooks!Connected
      <4>3. ASSUME NEW u \in Hooks!Tunnels PROVE TunnelInv(u)'
        <5>1. At(u)' = At(u) /\ (u \notin stale' => ~link[u] /\ hook[u] = <<>>)
          BY <2>1, <2>3 DEF At, Hooks!Connected
        <5> QED
          BY <2>1, <2>3, <3>3, <5>1 DEF HooksInv, TunnelInv, Told
      <4> QED
        BY <4>1, <4>2, <4>3 DEF HooksInv
    <3> QED
      BY <3>2, <3>3
  <2> QED
    BY <1>7, <2>2, <2>3 DEF Hooks!Ctl
<1>8. CASE Hooks!ResetConnectionStatus
  <2> DEFINE old == row.seen = "before" /\ (row.self \/ row.vulnbox)
  <2>1. /\ row \in Hooks!Row /\ UNCHANGED <<unit, link, clients, joining, hook>>
        /\ row' = [row EXCEPT !.self = @ /\ ~old, !.vulnbox = @ /\ ~old, !.count = IF @ > 0 THEN 0 ELSE @]
        /\ stale' = (IF old \/ ~(row.self \/ row.vulnbox) THEN Hooks!Connected ELSE stale \cup Hooks!Connected)
                     \cup (IF row.count < 0 THEN {"players"} ELSE {})
    BY <1>0, <1>8 DEF Hooks!ResetConnectionStatus
  <2>2. row.self \in BOOLEAN /\ row.vulnbox \in BOOLEAN /\ row.count \in Int
    BY <2>1 DEF Hooks!Row
  <2>3. row'.self = (row.self /\ ~old) /\ row'.vulnbox = (row.vulnbox /\ ~old)
    BY <2>1 DEF Hooks!Row
  <2>4. row' \in Hooks!Row /\ row'.count = (IF row.count > 0 THEN 0 ELSE row.count)
    <3>0. (row.self /\ ~old) \in BOOLEAN /\ (row.vulnbox /\ ~old) \in BOOLEAN
      OBVIOUS
    <3> HIDE DEF old
    <3>1. PICK r \in Hooks!Row, n \in Int : r = row /\ n = IF row.count > 0 THEN 0 ELSE row.count
      BY <2>1, <2>2
    <3>5. PICK a \in BOOLEAN : a = (row.self /\ ~old)
      BY <3>0, Zenon
    <3>6. PICK b \in BOOLEAN : b = (row.vulnbox /\ ~old)
      BY <3>0, Zenon
    <3>2. r = [self |-> r.self, vulnbox |-> r.vulnbox, count |-> r.count, seen |-> r.seen]
      BY RowIsThere
    <3>3. row' = [self |-> a, vulnbox |-> b, count |-> n, seen |-> r.seen]
      BY <2>1, <3>1, <3>2, <3>5, <3>6
    <3>4. r.seen \in {"never", "before", "since"}
      BY DEF Hooks!Row
    <3> QED
      BY <3>1, <3>3, <3>4 DEF Hooks!Row
  <2>5. Hooks!Connected \subseteq Hooks!Units
    BY DEF Hooks!Connected, Hooks!Units
  <2>6. stale' \subseteq Hooks!Units
    BY <1>0, <2>1, <2>5 DEF Hooks!Units
  <2>7. "players" \notin stale' => "players" \notin Hooks!Connected /\ row'.count = 0
    BY <2>1, <2>2, <2>4
  <2>8. ASSUME NEW u \in Hooks!Tunnels, u \notin stale'
        PROVE  u \notin Hooks!Connected /\ ((u \in stale /\ ~row'[u]) \/ (u \notin stale /\ (row'[u] => row[u])))
    <3>1. u \notin Hooks!Connected
      BY <2>1, <2>8
    <3>2. row'[u] => row[u]
      BY <2>3 DEF Hooks!Tunnels
    <3>3. CASE old \/ ~(row.self \/ row.vulnbox)
      <4>1. ~row'[u]
        BY <2>3, <3>3 DEF Hooks!Tunnels
      <4> QED
        BY <3>1, <4>1
    <3>4. CASE ~(old \/ ~(row.self \/ row.vulnbox))
      <4>1. u \notin stale
        BY <2>1, <2>8, <3>4
      <4> QED
        BY <3>1, <3>2, <4>1
    <3> QED
      BY <3>3, <3>4
  <2> QED
    BY <2>1, <2>4, <2>6, <2>7, <2>8, ResetStep
<1>9. CASE Hooks!Reboot
  <2>1. /\ unit' = [u \in Hooks!Units |-> "off"] /\ link' = [u \in Hooks!Tunnels |-> FALSE] /\ clients' = 0 /\ joining' = FALSE
        /\ hook' = [u \in Hooks!Tunnels |-> <<>>] /\ stale' = Hooks!Units
        /\ row' = IF row # Hooks!None /\ row.seen = "since" THEN [row EXCEPT !.seen = "before"] ELSE row
    BY <1>9 DEF Hooks!Reboot
  <2>2. row' = Hooks!None \/ row' \in Hooks!Row
    BY <1>0, <2>1 DEF Hooks!Row
  <2>3. <<>> \in Seq(HookSteps) /\ 2..Len(<<>>) = {}
    OBVIOUS
  <2>4. HookTypes'
    <3>1. hook' \in [Hooks!Tunnels -> Seq(HookSteps)] /\ \A u \in Hooks!Tunnels : hook'[u] = <<>>
      BY <2>1, <2>3
    <3>2. \A u \in Hooks!Tunnels : \A i \in 2..Len(hook'[u]) : hook'[u][i][1] \in Switching
      BY <2>3, <3>1
    <3>3. Hooks!TypeOK'
      BY <2>1, <2>2 DEF Hooks!TypeOK
    <3> QED
      BY <2>1, <3>1, <3>2, <3>3 DEF HookTypes
  <2>5. PlayersInv'
    BY <2>1 DEF PlayersInv, Hooks!Units
  <2>6. \A u \in Hooks!Tunnels : u \in stale' /\ At(u)' = "rest"
    BY <2>1 DEF At, Hooks!Units
  <2> QED
    BY <2>4, <2>5, <2>6 DEF HooksInv, TunnelInv
<1>10. CASE UNCHANGED Hooks!vars
  BY <1>0, <1>3, <1>10 DEF Hooks!vars
<1> QED
  BY <1>1, <1>2, <1>4, <1>5, <1>6, <1>7, <1>8, <1>9, <1>10 DEF Hooks!Next

(* The first state.                                                        *)
LEMMA HooksInit ==
  ASSUME MaxClients \in Nat
  PROVE  Hooks!Init => HooksInv
<1> SUFFICES ASSUME Hooks!Init PROVE HooksInv
  OBVIOUS
<1>1. /\ unit = [u \in Hooks!Units |-> "off"] /\ link = [u \in Hooks!Tunnels |-> FALSE] /\ clients = 0 /\ joining = FALSE
      /\ hook = [u \in Hooks!Tunnels |-> <<>>] /\ stale = {} /\ row \in {Hooks!None, Hooks!NewRow}
  BY DEF Hooks!Init
<1>2. <<>> \in Seq(HookSteps) /\ 2..Len(<<>>) = {}
  OBVIOUS
<1>3. (row = Hooks!None \/ row \in Hooks!Row) /\ (row # Hooks!None => row.count = 0 /\ \A u \in Hooks!Tunnels : ~row[u])
  BY <1>1, FirstRow
<1>4. HookTypes
  <2>1. hook \in [Hooks!Tunnels -> Seq(HookSteps)] /\ \A u \in Hooks!Tunnels : hook[u] = <<>>
    BY <1>1, <1>2
  <2>2. \A u \in Hooks!Tunnels : \A i \in 2..Len(hook[u]) : hook[u][i][1] \in Switching
    BY <1>2, <2>1
  <2>3. Hooks!TypeOK
    BY <1>1, <1>3 DEF Hooks!TypeOK
  <2> QED
    BY <1>1, <2>1, <2>2, <2>3 DEF HookTypes
<1>5. PlayersInv
  BY <1>1, <1>3 DEF PlayersInv
<1>6. \A u \in Hooks!Tunnels : At(u) = "rest" /\ ~link[u] /\ ~Told(u)
  BY <1>1, <1>3 DEF At, Told
<1> QED
  BY <1>4, <1>5, <1>6 DEF HooksInv, TunnelInv

(* The component by itself.                                               *)
LEMMA HooksAlone ==
  ASSUME MaxClients \in Nat
  PROVE  Hooks!Spec => [](Hooks!TypeOK /\ Hooks!StatusFollows)
<1>1. Hooks!Init => HooksInv
  BY HooksInit
<1>2. HooksInv /\ [Hooks!Next]_(Hooks!vars) => HooksInv'
  BY HooksStep
<1>3. HooksInv => Hooks!TypeOK /\ Hooks!StatusFollows
  <2> SUFFICES ASSUME HooksInv PROVE Hooks!TypeOK /\ Hooks!StatusFollows
    OBVIOUS
  <2>1. Hooks!Quiet => \A u \in Hooks!Tunnels : At(u) = "rest"
    BY DEF Hooks!Quiet, At
  <2> QED
    BY <2>1 DEF HooksInv, HookTypes, TunnelInv, PlayersInv, Told, Hooks!StatusFollows
<1> QED
  BY <1>1, <1>2, <1>3, PTL DEF Hooks!Spec

(* When no hook is running, the table says of every server of a team       *)
(* whether it is connected and how many players are, for any number of     *)
(* players, events, vpnctl commands and reboots, in every order in which   *)
(* the hooks of the servers may interleave.                                *)
THEOREM HooksCorrect == Spec => []StatusFollows
<1> DEFINE Chosen == component = "hooks"
<1>1. Hooks!Spec => [](Hooks!TypeOK /\ Hooks!StatusFollows)
  BY HooksAlone, ToolsAssumption
<1>2. Init /\ Chosen => Hooks!Init
  BY DEF Init
<1>3. Chosen /\ [Next]_tools => Chosen' /\ [Hooks!Next]_(Hooks!vars)
  BY OneComponent DEF Next, tools, Hooks!vars
<1>4. ~Chosen /\ [Next]_tools => ~Chosen'
  BY OneComponent
<1> QED
  BY <1>1, <1>2, <1>3, <1>4, PTL DEF Spec, Hooks!Spec, StatusFollows

(* How the servers switch each other.                                      *)

(* The server that u stops when it is connected and starts when it is not. *)
Other(u) == IF u = "self" THEN "players" ELSE "self"

(* What is left of a hook.                                                 *)
LastPart(u) == IF u = "self" THEN <<>> ELSE <<<<"start", {"players"}>>>>
WaitPart(u) == IF u = "self" THEN <<<<"wait", {"players"}>>>> ELSE <<<<"wait", {"self"}>>, <<"start", {"players"}>>>>
StopPart(u) ==
  IF u = "self" THEN <<<<"stop", {"players"}>>, <<"wait", {"players"}>>>>
  ELSE <<<<"stop", {"self"}>>, <<"wait", {"self"}>>, <<"start", {"players"}>>>>
InsertPart(u) == <<<<"insert", {u}>>>> \o StopPart(u)
StartPart(u) == <<<<"start", {Other(u)}>>>>

(* What a hook does next is the head of the part it has reached.           *)
LEMMA Parts ==
  ASSUME NEW u \in Hooks!Tunnels
  PROVE  /\ Hooks!OnConnect(u) # <<>> /\ Head(Hooks!OnConnect(u)) = <<"connect", {u}>> /\ Tail(Hooks!OnConnect(u)) = StopPart(u)
         /\ InsertPart(u) # <<>> /\ Head(InsertPart(u)) = <<"insert", {u}>> /\ Tail(InsertPart(u)) = StopPart(u)
         /\ StopPart(u) # <<>> /\ Head(StopPart(u)) = <<"stop", {Other(u)}>> /\ Tail(StopPart(u)) = WaitPart(u)
         /\ WaitPart(u) # <<>> /\ Head(WaitPart(u)) = <<"wait", {Other(u)}>> /\ Tail(WaitPart(u)) = LastPart(u)
         /\ LastPart(u) # <<>> => u = "vulnbox" /\ Head(LastPart(u)) = <<"start", {"players"}>> /\ Tail(LastPart(u)) = <<>>
         /\ Hooks!OnDisconnect(u) # <<>> /\ Head(Hooks!OnDisconnect(u)) = <<"disconnect", {u}>> /\ Tail(Hooks!OnDisconnect(u)) = StartPart(u)
         /\ StartPart(u) # <<>> /\ Head(StartPart(u)) = <<"start", {Other(u)}>> /\ Tail(StartPart(u)) = <<>>
<1>0. StopPart(u) \in Seq(HookSteps) /\ <<"insert", {u}>> \in HookSteps
  <2>1. /\ <<"stop", {"players"}>> \in HookSteps /\ <<"wait", {"players"}>> \in HookSteps /\ <<"start", {"players"}>> \in HookSteps
        /\ <<"stop", {"self"}>> \in HookSteps /\ <<"wait", {"self"}>> \in HookSteps /\ <<"insert", {u}>> \in HookSteps
    BY DEF HookSteps, Hooks!Units, Hooks!Tunnels
  <2>2. /\ <<<<"stop", {"players"}>>, <<"wait", {"players"}>>>> \in Seq(HookSteps)
        /\ <<<<"stop", {"self"}>>, <<"wait", {"self"}>>, <<"start", {"players"}>>>> \in Seq(HookSteps)
    BY <2>1
  <2> QED
    BY <2>1, <2>2 DEF StopPart
<1>1. InsertPart(u) # <<>> /\ Head(InsertPart(u)) = <<"insert", {u}>> /\ Tail(InsertPart(u)) = StopPart(u)
  <2>1. PICK q \in Seq(HookSteps), e \in HookSteps : q = StopPart(u) /\ e = <<"insert", {u}>>
    BY <1>0
  <2>2. <<e>> \o q # <<>> /\ Head(<<e>> \o q) = e /\ Tail(<<e>> \o q) = q
    OBVIOUS
  <2> QED
    BY <2>1, <2>2 DEF InsertPart
<1>2. StartPart(u) # <<>> /\ Head(StartPart(u)) = <<"start", {Other(u)}>> /\ Tail(StartPart(u)) = <<>>
  BY DEF StartPart
<1>3. CASE u = "self"
  <2>1. /\ Hooks!OnConnect(u) = <<<<"connect", {u}>>, <<"stop", {"players"}>>, <<"wait", {"players"}>>>>
        /\ StopPart(u) = <<<<"stop", {"players"}>>, <<"wait", {"players"}>>>>
        /\ WaitPart(u) = <<<<"wait", {"players"}>>>> /\ LastPart(u) = <<>>
        /\ Hooks!OnDisconnect(u) = <<<<"disconnect", {u}>>, <<"start", {"players"}>>>>
        /\ StartPart(u) = <<<<"start", {"players"}>>>> /\ Other(u) = "players"
    BY <1>3 DEF Hooks!OnConnect, Hooks!OnDisconnect, StopPart, WaitPart, LastPart, StartPart, Other
  <2>2. Hooks!OnConnect(u) # <<>> /\ Head(Hooks!OnConnect(u)) = <<"connect", {u}>> /\ Tail(Hooks!OnConnect(u)) = StopPart(u)
    BY <2>1
  <2>3. StopPart(u) # <<>> /\ Head(StopPart(u)) = <<"stop", {Other(u)}>> /\ Tail(StopPart(u)) = WaitPart(u)
    BY <2>1
  <2>4. WaitPart(u) # <<>> /\ Head(WaitPart(u)) = <<"wait", {Other(u)}>> /\ Tail(WaitPart(u)) = LastPart(u)
    BY <2>1
  <2>5. Hooks!OnDisconnect(u) # <<>> /\ Head(Hooks!OnDisconnect(u)) = <<"disconnect", {u}>> /\ Tail(Hooks!OnDisconnect(u)) = StartPart(u)
    BY <2>1
  <2> QED
    BY <1>1, <1>2, <2>1, <2>2, <2>3, <2>4, <2>5
<1>4. CASE u = "vulnbox"
  <2>1. /\ Hooks!OnConnect(u) = <<<<"connect", {u}>>, <<"stop", {"self"}>>, <<"wait", {"self"}>>, <<"start", {"players"}>>>>
        /\ StopPart(u) = <<<<"stop", {"self"}>>, <<"wait", {"self"}>>, <<"start", {"players"}>>>>
        /\ WaitPart(u) = <<<<"wait", {"self"}>>, <<"start", {"players"}>>>> /\ LastPart(u) = <<<<"start", {"players"}>>>>
        /\ Hooks!OnDisconnect(u) = <<<<"disconnect", {u}>>, <<"start", {"self"}>>>>
        /\ StartPart(u) = <<<<"start", {"self"}>>>> /\ Other(u) = "self"
    BY <1>4 DEF Hooks!OnConnect, Hooks!OnDisconnect, StopPart, WaitPart, LastPart, StartPart, Other
  <2>2. Hooks!OnConnect(u) # <<>> /\ Head(Hooks!OnConnect(u)) = <<"connect", {u}>> /\ Tail(Hooks!OnConnect(u)) = StopPart(u)
    BY <2>1
  <2>3. StopPart(u) # <<>> /\ Head(StopPart(u)) = <<"stop", {Other(u)}>> /\ Tail(StopPart(u)) = WaitPart(u)
    BY <2>1
  <2>4. WaitPart(u) # <<>> /\ Head(WaitPart(u)) = <<"wait", {Other(u)}>> /\ Tail(WaitPart(u)) = LastPart(u)
    BY <2>1
  <2>5. Hooks!OnDisconnect(u) # <<>> /\ Head(Hooks!OnDisconnect(u)) = <<"disconnect", {u}>> /\ Tail(Hooks!OnDisconnect(u)) = StartPart(u)
    BY <2>1
  <2>6. Head(LastPart(u)) = <<"start", {"players"}>> /\ Tail(LastPart(u)) = <<>>
    BY <2>1
  <2> QED
    BY <1>1, <1>2, <1>4, <2>1, <2>2, <2>3, <2>4, <2>5, <2>6
<1> QED
  BY <1>3, <1>4 DEF Hooks!Tunnels

(* A hook that writes a connection down, and one that writes its end.      *)
Coming(u) == {Hooks!OnConnect(u), InsertPart(u), StopPart(u), WaitPart(u), LastPart(u)} \ {<<>>}
Going(u) == {Hooks!OnDisconnect(u), StartPart(u)}

(* The hooks of a server belong to its tunnel, and one that is off has     *)
(* neither.                                                                *)
ServerInv(u) ==
  /\ hook[u] \in Coming(u) \cup Going(u) \cup {<<>>}
  /\ hook[u] \in Coming(u) => link[u]
  /\ hook[u] \in Going(u) => ~link[u]
  /\ unit[u] = "off" => ~link[u] /\ hook[u] = <<>>

(* How far a connected server has come with switching the others.          *)
Switched(u) ==
  link[u] =>
    /\ hook[u] = WaitPart(u) => unit[Other(u)] # "on"
    /\ hook[u] \in {LastPart(u), <<>>} => unit[Other(u)] = "off"
    /\ hook[u] = <<>> /\ u = "vulnbox" => unit["players"] = "on"

(* A step of vpnctl that does not disturb a connected server.              *)
Harmless(step) ==
  \/ /\ step[1] = "start"
     /\ link["vulnbox"] => step[2] \subseteq {"players"}
     /\ link["self"] => step[2] \subseteq {"vulnbox"}
  \/ step[1] \in {"stop", "wait"} /\ step[2] = {}

(* What is left of a reset.                                                *)
ResetLeft(n) ==
  CASE n = 4 -> <<<<"stop", Hooks!Units>>, <<"wait", Hooks!Units>>, <<"reset", {}>>, <<"start", Hooks!Units>>>>
    [] n = 3 -> <<<<"wait", Hooks!Units>>, <<"reset", {}>>, <<"start", Hooks!Units>>>>
    [] n = 2 -> <<<<"reset", {}>>, <<"start", Hooks!Units>>>>
    [] OTHER -> <<<<"start", Hooks!Units>>>>

(* An orderly command found no hook at work.  It changes nothing for a     *)
(* connected server, or it resets everything, which it does only while no  *)
(* vulnbox is connected: the self-hosted network is then stopped first.    *)
CtlInv ==
  \/ ctl = <<>>
  \/ /\ \A u \in Hooks!Tunnels : hook[u] = <<>> /\ unit[u] # "stopping"
     /\ ctl \in Seq({"start", "stop", "wait"} \X SUBSET Hooks!Units)
     /\ \A i \in 1..Len(ctl) : Harmless(ctl[i])
  \/ /\ ~link["vulnbox"] /\ hook["vulnbox"] = <<>>
     /\ \/ ctl = ResetLeft(4) /\ hook["self"] = <<>> /\ unit["self"] # "stopping"
        \/ ctl = ResetLeft(3) /\ unit["self"] # "on"
        \/ ctl \in {ResetLeft(2), ResetLeft(1)} /\ ~link["self"] /\ hook["self"] = <<>>

Servers == \A u \in Hooks!Tunnels : ServerInv(u)
Modes == orderly => (\A u \in Hooks!Tunnels : Switched(u)) /\ CtlInv

(* The parts of a hook are told apart by their first steps.                *)
LEMMA PartsDiffer ==
  ASSUME NEW u \in Hooks!Tunnels
  PROVE  /\ Hooks!OnConnect(u) \notin {WaitPart(u), LastPart(u), <<>>} \cup Going(u)
         /\ InsertPart(u) \notin {WaitPart(u), LastPart(u), <<>>} \cup Going(u)
         /\ StopPart(u) \notin {WaitPart(u), LastPart(u), <<>>} \cup Going(u)
         /\ WaitPart(u) \notin {LastPart(u), <<>>} \cup Going(u)
         /\ LastPart(u) \notin Going(u)
         /\ LastPart(u) = <<>> <=> u = "self"
         /\ <<>> \notin Going(u)
<1>1. /\ Head(Hooks!OnConnect(u))[1] = "connect" /\ Head(InsertPart(u))[1] = "insert" /\ Head(StopPart(u))[1] = "stop"
      /\ Head(WaitPart(u))[1] = "wait" /\ Head(Hooks!OnDisconnect(u))[1] = "disconnect" /\ Head(StartPart(u))[1] = "start"
      /\ LastPart(u) # <<>> => Head(LastPart(u))[1] = "start"
  BY Parts
<1>2. LastPart(u) = <<>> <=> u = "self"
  BY DEF LastPart, Hooks!Tunnels
<1>3. LastPart(u) # StartPart(u)
  <2>1. CASE LastPart(u) = <<>>
    BY <2>1, Parts
  <2>2. CASE LastPart(u) # <<>>
    <3>1. u = "vulnbox" /\ Head(LastPart(u)) = <<"start", {"players"}>> /\ Head(StartPart(u)) = <<"start", {Other(u)}>>
      BY <2>2, Parts
    <3>2. Head(LastPart(u))[2] = {"players"} /\ Head(StartPart(u))[2] = {"self"}
      BY <3>1 DEF Other
    <3>3. "self" \notin {"players"}
      OBVIOUS
    <3> QED
      BY <3>2, <3>3
  <2> QED
    BY <2>1, <2>2
<1>4. Hooks!OnConnect(u) # <<>> /\ InsertPart(u) # <<>> /\ StopPart(u) # <<>> /\ WaitPart(u) # <<>> /\ Hooks!OnDisconnect(u) # <<>> /\ StartPart(u) # <<>>
  BY Parts
<1> QED
  BY <1>1, <1>2, <1>3, <1>4 DEF Going

(* What each step of a hook does.                                          *)
HookMoves(u, q) ==
  \/ hook[u] \in {Hooks!OnConnect(u), InsertPart(u)} /\ q \in {InsertPart(u), StopPart(u)} /\ UNCHANGED <<unit, link>>
  \/ /\ hook[u] = InsertPart(u) /\ q = <<>>
     /\ link' = [link EXCEPT ![u] = FALSE] /\ unit' = [unit EXCEPT ![u] = "off"]
  \/ hook[u] = StopPart(u) /\ q = WaitPart(u) /\ Hooks!Stop({Other(u)}) /\ UNCHANGED link
  \/ hook[u] = WaitPart(u) /\ q = LastPart(u) /\ Hooks!Wait({Other(u)}) /\ UNCHANGED link
  \/ u = "vulnbox" /\ hook[u] = LastPart(u) /\ q = <<>> /\ Hooks!Start({"players"}) /\ UNCHANGED link
  \/ hook[u] = Hooks!OnDisconnect(u) /\ q = StartPart(u) /\ UNCHANGED <<unit, link>>
  \/ hook[u] = StartPart(u) /\ q = <<>> /\ Hooks!Start({Other(u)}) /\ UNCHANGED link

(* systemctl with one of its commands.                                     *)
LEMMA SystemctlDoes ==
  ASSUME NEW S
  PROVE  /\ Hooks!Systemctl(<<"stop", S>>) => Hooks!Stop(S)
         /\ Hooks!Systemctl(<<"wait", S>>) => Hooks!Wait(S)
         /\ Hooks!Systemctl(<<"start", S>>) => Hooks!Start(S)
<1>1. ASSUME NEW e PROVE <<e, S>>[1] = e /\ <<e, S>>[2] = S
  OBVIOUS
<1> QED
  BY <1>1 DEF Hooks!Systemctl

(* A step of a hook moves it to the next part.                             *)
LEMMA HookMoving ==
  ASSUME HookTypes, Servers, NEW u \in Hooks!Tunnels, Hooks!Hook(u)
  PROVE  \E q : hook' = [hook EXCEPT ![u] = q] /\ HookMoves(u, q) /\ UNCHANGED <<ctl, orderly>>
<1>1. hook[u] # <<>> /\ UNCHANGED <<ctl, orderly>>
  BY DEF Hooks!Hook
<1>2. \/ hook[u] = Hooks!OnConnect(u) \/ hook[u] = InsertPart(u) \/ hook[u] = StopPart(u) \/ hook[u] = WaitPart(u)
      \/ hook[u] = LastPart(u) \/ hook[u] = Hooks!OnDisconnect(u) \/ hook[u] = StartPart(u)
  BY <1>1 DEF Servers, ServerInv, Coming, Going
<1> DEFINE step == Head(hook[u])
<1>3. \/ step[1] = "connect" /\ (Hooks!connect(u) \/ Hooks!connect_new(u))
      \/ step[1] = "insert" /\ (Hooks!insert(u) \/ Hooks!insert_fails(u))
      \/ step[1] = "disconnect" /\ Hooks!disconnect(u)
      \/ Hooks!Systemctl(step) /\ hook' = [hook EXCEPT ![u] = Tail(hook[u])] /\ UNCHANGED link
  BY DEF Hooks!Hook
<1>4. ASSUME hook[u] \in {Hooks!OnConnect(u), InsertPart(u)} PROVE \E q : hook' = [hook EXCEPT ![u] = q] /\ HookMoves(u, q)
  <2>1. step[1] \in {"connect", "insert"} /\ Tail(hook[u]) = StopPart(u) /\ (step[1] = "insert" => hook[u] = InsertPart(u))
    BY <1>4, Parts
  <2>2. ~Hooks!Systemctl(step)
    BY <2>1 DEF Hooks!Systemctl
  <2>3. CASE Hooks!connect(u) \/ Hooks!insert(u)
    BY <1>4, <2>1, <2>3 DEF Hooks!connect, Hooks!insert, HookMoves
  <2>4. CASE Hooks!connect_new(u)
    BY <1>4, <2>1, <2>4 DEF Hooks!connect_new, HookMoves, InsertPart
  <2>5. CASE step[1] = "insert" /\ Hooks!insert_fails(u)
    BY <1>4, <2>1, <2>5 DEF Hooks!insert_fails, HookMoves
  <2> QED
    BY <1>3, <2>1, <2>2, <2>3, <2>4, <2>5
<1>5. ASSUME hook[u] = Hooks!OnDisconnect(u) PROVE \E q : hook' = [hook EXCEPT ![u] = q] /\ HookMoves(u, q)
  <2>1. step[1] = "disconnect" /\ Tail(hook[u]) = StartPart(u)
    BY <1>5, Parts
  <2>2. Hooks!disconnect(u)
    BY <1>3, <2>1 DEF Hooks!Systemctl
  <2> QED
    BY <1>5, <2>1, <2>2 DEF Hooks!disconnect, HookMoves
<1>6. ASSUME hook[u] \in {StopPart(u), WaitPart(u), LastPart(u), StartPart(u)}
      PROVE  \E q : hook' = [hook EXCEPT ![u] = q] /\ HookMoves(u, q)
  <2>1. step[1] \in {"stop", "wait", "start"}
    BY <1>1, <1>6, Parts
  <2>2. Hooks!Systemctl(step) /\ hook' = [hook EXCEPT ![u] = Tail(hook[u])] /\ UNCHANGED link
    BY <1>3, <2>1
  <2>3. CASE hook[u] = StopPart(u)
    <3>1. step = <<"stop", {Other(u)}>> /\ Tail(hook[u]) = WaitPart(u)
      BY <2>3, Parts
    <3> HIDE DEF step
    <3>2. Hooks!Stop({Other(u)})
      BY <2>2, <3>1, SystemctlDoes
    <3> QED
      BY <2>2, <2>3, <3>1, <3>2 DEF HookMoves
  <2>4. CASE hook[u] = WaitPart(u)
    <3>1. step = <<"wait", {Other(u)}>> /\ Tail(hook[u]) = LastPart(u)
      BY <2>4, Parts
    <3> HIDE DEF step
    <3>2. Hooks!Wait({Other(u)})
      BY <2>2, <3>1, SystemctlDoes
    <3> QED
      BY <2>2, <2>4, <3>1, <3>2 DEF HookMoves
  <2>5. CASE hook[u] = LastPart(u)
    <3>1. u = "vulnbox" /\ step = <<"start", {"players"}>> /\ Tail(hook[u]) = <<>>
      BY <1>1, <2>5, Parts
    <3> HIDE DEF step
    <3>2. Hooks!Start({"players"})
      BY <2>2, <3>1, SystemctlDoes
    <3> QED
      BY <2>2, <2>5, <3>1, <3>2 DEF HookMoves
  <2>6. CASE hook[u] = StartPart(u)
    <3>1. step = <<"start", {Other(u)}>> /\ Tail(hook[u]) = <<>>
      BY <2>6, Parts
    <3> HIDE DEF step
    <3>2. Hooks!Start({Other(u)})
      BY <2>2, <3>1, SystemctlDoes
    <3> QED
      BY <2>2, <2>6, <3>1, <3>2 DEF HookMoves
  <2> QED
    BY <1>6, <2>3, <2>4, <2>5, <2>6
<1> QED
  BY <1>1, <1>2, <1>4, <1>5, <1>6

(* What the services of the tunnels are called.                            *)
LEMMA ThreeServers ==
  /\ Hooks!Tunnels = {"self", "vulnbox"} /\ Hooks!Units = {"self", "vulnbox", "players"}
  /\ Other("self") = "players" /\ Other("vulnbox") = "self"
BY DEF Hooks!Tunnels, Hooks!Units, Other

(* A server of which nothing changed, or which was only started or stopped.*)
LEMMA ServerSame ==
  ASSUME NEW u \in Hooks!Tunnels, ServerInv(u), hook'[u] = hook[u], link'[u] = link[u],
         unit'[u] = "off" => unit[u] = "off"
  PROVE  ServerInv(u)'
BY DEF ServerInv

(* systemctl ends no server itself.                                        *)
LEMMA SystemctlUnits ==
  ASSUME HookTypes, NEW S
  PROVE  /\ Hooks!Stop(S) => \A v \in Hooks!Units :
              /\ unit'[v] = "off" <=> unit[v] = "off"
              /\ v \notin S => unit'[v] = unit[v]
              /\ v \in S => unit'[v] # "on"
              /\ unit[v] # "on" => unit'[v] = unit[v]
         /\ Hooks!Wait(S) => unit' = unit /\ \A v \in S : unit[v] # "stopping"
         /\ Hooks!Start(S) => \A v \in Hooks!Units :
              /\ unit'[v] = "off" => unit[v] = "off"
              /\ v \notin S => unit'[v] = unit[v]
              /\ v \in S => unit'[v] = "on"
              /\ unit'[v] = "stopping" => unit[v] = "stopping"
BY DEF Hooks!Stop, Hooks!Wait, Hooks!Start, HookTypes, Hooks!TypeOK

(* The steps of a hook keep what is said of the servers.                   *)
LEMMA HookKeepsServers ==
  ASSUME HookTypes, Servers, NEW u \in Hooks!Tunnels, NEW q, hook' = [hook EXCEPT ![u] = q], HookMoves(u, q)
  PROVE  Servers'
<1>1. hook'[u] = q /\ \A v \in Hooks!Tunnels \ {u} : hook'[v] = hook[v]
  BY DEF HookTypes
<1>2. ServerInv(u) /\ u \in Hooks!Units
  BY DEF Servers, Hooks!Units
<1>3. hook[u] # <<>> /\ unit[u] # "off"
  BY <1>2, PartsDiffer DEF HookMoves, ServerInv, Going
<1>4. \A v \in Hooks!Tunnels \ {u} : link'[v] = link[v] /\ (unit'[v] = "off" => unit[v] = "off")
  <2>1. \A v \in Hooks!Tunnels : v \in Hooks!Units
    BY DEF Hooks!Units
  <2> QED
    BY <2>1, SystemctlUnits DEF HookMoves, HookTypes, Hooks!TypeOK
<1>5. \A v \in Hooks!Tunnels \ {u} : ServerInv(v)'
  BY <1>1, <1>4, ServerSame DEF Servers
<1>6. ServerInv(u)'
  <2>1. CASE hook[u] = InsertPart(u) /\ q = <<>> /\ link' = [link EXCEPT ![u] = FALSE]
    <3>1. link'[u] = FALSE /\ q \notin Coming(u) /\ q \notin Going(u)
      BY <2>1, PartsDiffer DEF HookTypes, Hooks!TypeOK, Coming
    <3> QED
      BY <1>1, <2>1, <3>1 DEF ServerInv
  <2>2. ASSUME UNCHANGED link PROVE unit'[u] # "off"
    BY <1>2, <1>3, <2>2, SystemctlUnits, PartsDiffer DEF HookMoves, HookTypes, Hooks!TypeOK, ServerInv, Coming
  <2>3. CASE hook[u] \in {Hooks!OnConnect(u), InsertPart(u)} /\ q \in {InsertPart(u), StopPart(u)} /\ UNCHANGED <<unit, link>>
    <3>1. hook[u] \in Coming(u) /\ q \in Coming(u) /\ q \notin Going(u) /\ q # <<>>
      BY <2>3, PartsDiffer DEF Coming
    <3> QED
      BY <1>1, <1>2, <2>2, <2>3, <3>1 DEF ServerInv
  <2>4. CASE hook[u] = StopPart(u) /\ q = WaitPart(u) /\ UNCHANGED link
    <3>1. hook[u] \in Coming(u) /\ q \in Coming(u) /\ q \notin Going(u) /\ q # <<>>
      BY <2>4, PartsDiffer DEF Coming
    <3> QED
      BY <1>1, <1>2, <2>2, <2>4, <3>1 DEF ServerInv
  <2>5. CASE hook[u] = WaitPart(u) /\ q = LastPart(u) /\ UNCHANGED link
    <3>1. hook[u] \in Coming(u) /\ q \in Coming(u) \cup {<<>>} /\ q \notin Going(u)
      BY <2>5, PartsDiffer DEF Coming
    <3> QED
      BY <1>1, <1>2, <2>2, <2>5, <3>1 DEF ServerInv
  <2>6. CASE q = <<>> /\ UNCHANGED link
    <3>1. q \notin Going(u) /\ q \notin Coming(u)
      BY <2>6, PartsDiffer DEF Coming
    <3> QED
      BY <1>1, <1>2, <2>2, <2>6, <3>1 DEF ServerInv
  <2>7. CASE hook[u] = Hooks!OnDisconnect(u) /\ q = StartPart(u) /\ UNCHANGED <<unit, link>>
    <3>1. hook[u] \in Going(u) /\ q \in Going(u) /\ q \notin Coming(u)
      BY <2>7, PartsDiffer DEF Coming, Going
    <3> QED
      BY <1>1, <1>2, <2>2, <2>7, <3>1 DEF ServerInv
  <2> QED
    BY <2>1, <2>3, <2>4, <2>5, <2>6, <2>7 DEF HookMoves
<1> QED
  BY <1>5, <1>6 DEF Servers

(* A tunnel that comes or goes starts the hook for it.                     *)
LEMMA TunnelKeepsServers ==
  ASSUME HookTypes, Servers, NEW u \in Hooks!Tunnels,
         Hooks!TunnelUp(u) \/ Hooks!TunnelDown(u) \/ Hooks!Terminate(u)
  PROVE  Servers'
<1>1. \A v \in Hooks!Tunnels \ {u} : hook'[v] = hook[v] /\ link'[v] = link[v] /\ unit'[v] = unit[v]
  BY DEF Hooks!TunnelUp, Hooks!TunnelDown, Hooks!Terminate, HookTypes, Hooks!TypeOK, Hooks!Units
<1>2. \A v \in Hooks!Tunnels \ {u} : ServerInv(v)'
  BY <1>1, ServerSame DEF Servers
<1>3. ServerInv(u)'
  <2>1. CASE Hooks!TunnelUp(u)
    <3>1. hook'[u] = Hooks!OnConnect(u) /\ link'[u] = TRUE /\ unit'[u] # "off"
      BY <2>1 DEF Hooks!TunnelUp, HookTypes, Hooks!TypeOK
    <3>2. Hooks!OnConnect(u) \in Coming(u) /\ Hooks!OnConnect(u) \notin Going(u)
      BY PartsDiffer DEF Coming
    <3> QED
      BY <3>1, <3>2 DEF ServerInv
  <2>2. ASSUME hook'[u] = Hooks!OnDisconnect(u), link'[u] = FALSE, unit'[u] # "off" PROVE ServerInv(u)'
    <3>1. Hooks!OnDisconnect(u) \in Going(u) /\ Hooks!OnDisconnect(u) \notin Coming(u)
      BY PartsDiffer DEF Coming, Going
    <3> QED
      BY <2>2, <3>1 DEF ServerInv
  <2>3. CASE Hooks!TunnelDown(u) \/ (Hooks!Terminate(u) /\ link[u])
    BY <2>2, <2>3 DEF Hooks!TunnelDown, Hooks!Terminate, HookTypes, Hooks!TypeOK
  <2>4. CASE Hooks!Terminate(u) /\ ~link[u]
    <3>1. hook'[u] = <<>> /\ ~link'[u]
      BY <2>4 DEF Hooks!Terminate
    <3>2. <<>> \notin Coming(u) /\ <<>> \notin Going(u)
      BY PartsDiffer DEF Coming
    <3> QED
      BY <3>1, <3>2 DEF ServerInv
  <2> QED
    BY <2>1, <2>3, <2>4
<1> QED
  BY <1>2, <1>3 DEF Servers

(* What is said of the servers holds on.                                   *)
LEMMA ServersStep == HookTypes /\ Servers /\ [Hooks!Next]_(Hooks!vars) => Servers'
<1> SUFFICES ASSUME HookTypes, Servers, [Hooks!Next]_(Hooks!vars) PROVE Servers'
  OBVIOUS
<1>0. \A u \in Hooks!Tunnels : u \in Hooks!Units /\ u # "players"
  BY DEF Hooks!Units, Hooks!Tunnels
<1>1. ASSUME hook' = hook, link' = link, \A u \in Hooks!Tunnels : unit'[u] = "off" => unit[u] = "off" PROVE Servers'
  BY <1>1, ServerSame DEF Servers
<1>2. ASSUME NEW u \in Hooks!Tunnels, Hooks!Hook(u) PROVE Servers'
  BY <1>2, HookMoving, HookKeepsServers
<1>3. ASSUME NEW u \in Hooks!Tunnels, Hooks!TunnelUp(u) \/ Hooks!TunnelDown(u) \/ Hooks!Terminate(u) PROVE Servers'
  BY <1>3, TunnelKeepsServers
<1>4. CASE \/ Hooks!ClientJoins \/ Hooks!ClientInsert \/ Hooks!ClientLeaves \/ Hooks!ResetConnectionStatus
           \/ (\E c \in Commands : Hooks!Command(c)) \/ UNCHANGED Hooks!vars
  BY <1>1, <1>4 DEF Hooks!ClientJoins, Hooks!ClientInsert, Hooks!ClientLeaves, Hooks!ResetConnectionStatus, Hooks!Command, Hooks!vars
<1>5. CASE Hooks!PlayersDown
  BY <1>0, <1>1, <1>5 DEF Hooks!PlayersDown, HookTypes, Hooks!TypeOK
<1>6. CASE Hooks!Ctl
  <2>1. hook' = hook /\ link' = link /\ (Hooks!Systemctl(Head(ctl)) \/ unit' = unit)
    BY <1>6 DEF Hooks!Ctl
  <2>2. \A u \in Hooks!Tunnels : unit'[u] = "off" => unit[u] = "off"
    BY <1>0, <2>1, SystemctlUnits DEF Hooks!Systemctl
  <2> QED
    BY <1>1, <2>1, <2>2
<1>7. CASE Hooks!Reboot
  <2>1. \A u \in Hooks!Tunnels : hook'[u] = <<>> /\ ~link'[u]
    BY <1>7 DEF Hooks!Reboot
  <2>2. \A u \in Hooks!Tunnels : <<>> \notin Coming(u) /\ <<>> \notin Going(u)
    BY PartsDiffer DEF Coming
  <2> QED
    BY <2>1, <2>2 DEF Servers, ServerInv
<1> QED
  BY <1>2, <1>3, <1>4, <1>5, <1>6, <1>7 DEF Hooks!Next

(* A server that nobody disturbs.                                          *)
LEMMA StaysSwitched ==
  ASSUME NEW u \in Hooks!Tunnels, Switched(u), hook'[u] = hook[u], link'[u] => link[u],
         unit[Other(u)] # "on" => unit'[Other(u)] # "on",
         unit[Other(u)] = "off" => unit'[Other(u)] = "off",
         u = "vulnbox" /\ link[u] /\ hook[u] = <<>> /\ unit["players"] = "on" => unit'["players"] = "on"
  PROVE  Switched(u)'
BY DEF Switched

(* A step of a hook keeps both servers switched: what it starts or stops is *)
(* not what the other relies on.                                           *)
LEMMA HookSwitches ==
  ASSUME HookTypes, Servers, \A u \in Hooks!Tunnels : Switched(u),
         NEW u \in Hooks!Tunnels, NEW q, hook' = [hook EXCEPT ![u] = q], HookMoves(u, q)
  PROVE  \A v \in Hooks!Tunnels : Switched(v)'
<1>0. /\ hook'[u] = q /\ \A v \in Hooks!Tunnels \ {u} : hook'[v] = hook[v]
      /\ unit \in [Hooks!Units -> {"on", "off", "stopping"}] /\ link \in [Hooks!Tunnels -> BOOLEAN]
  BY DEF HookTypes, Hooks!TypeOK
<1>1. CASE hook[u] \in {Hooks!OnConnect(u), InsertPart(u)} /\ q \in {InsertPart(u), StopPart(u)} /\ UNCHANGED <<unit, link>>
  <2>1. Switched(u)'
    BY <1>0, <1>1, PartsDiffer DEF Switched
  <2>2. \A v \in Hooks!Tunnels \ {u} : Switched(v)'
    BY <1>0, <1>1, StaysSwitched
  <2> QED
    BY <2>1, <2>2
<1>2. CASE /\ hook[u] = InsertPart(u) /\ q = <<>>
           /\ link' = [link EXCEPT ![u] = FALSE] /\ unit' = [unit EXCEPT ![u] = "off"]
  <2>1. Switched(u)'
    BY <1>0, <1>2 DEF Switched
  <2>2. ASSUME NEW v \in Hooks!Tunnels \ {u} PROVE Switched(v)'
    <3>1. hook'[v] = hook[v] /\ link'[v] = link[v] /\ unit'["players"] = unit["players"]
      BY <1>0, <1>2, ThreeServers
    <3>2. unit'[Other(v)] = unit[Other(v)] \/ unit'[Other(v)] = "off"
      BY <1>0, <1>2, ThreeServers
    <3> QED
      BY <3>1, <3>2, StaysSwitched
  <2> QED
    BY <2>1, <2>2
<1>3. CASE hook[u] = StopPart(u) /\ q = WaitPart(u) /\ Hooks!Stop({Other(u)}) /\ UNCHANGED link
  <2>0. Other(u) \in Hooks!Units /\ \A v \in Hooks!Tunnels : Other(v) \in Hooks!Units
    BY ThreeServers
  <2>1. Switched(u)'
    <3>1. unit'[Other(u)] # "on"
      BY <1>3, <2>0, SystemctlUnits
    <3> QED
      BY <1>0, <1>3, <3>1, PartsDiffer DEF Switched
  <2>2. ASSUME NEW v \in Hooks!Tunnels \ {u} PROVE Switched(v)'
    <3>1. unit'[Other(v)] = unit[Other(v)]
      <4>1. Other(v) \notin {Other(u)}
        BY ThreeServers
      <4> QED
        BY <1>3, <2>0, <4>1, SystemctlUnits
    <3>2. ~(v = "vulnbox" /\ link[v] /\ hook[v] = <<>>)
      <4> SUFFICES ASSUME v = "vulnbox", link[v], hook[v] = <<>> PROVE FALSE
        OBVIOUS
      <4>1. u = "self" /\ Other(v) = "self"
        BY ThreeServers
      <4>2. unit["self"] = "off"
        BY <4>1 DEF Switched
      <4>3. hook["self"] = <<>>
        BY <4>1, <4>2 DEF Servers, ServerInv
      <4> QED
        BY <1>3, <4>1, <4>3, PartsDiffer
    <3> QED
      BY <1>0, <1>3, <3>1, <3>2, StaysSwitched
  <2> QED
    BY <2>1, <2>2
<1>4. CASE hook[u] = WaitPart(u) /\ q = LastPart(u) /\ Hooks!Wait({Other(u)}) /\ UNCHANGED link
  <2>0. unit' = unit /\ unit[Other(u)] # "stopping" /\ Other(u) \in Hooks!Units
    BY <1>4, SystemctlUnits, ThreeServers
  <2>1. Switched(u)'
    <3>1. link[u] => unit[Other(u)] # "on"
      BY <1>4 DEF Switched
    <3>2. link[u] => unit[Other(u)] = "off"
      BY <1>0, <2>0, <3>1
    <3>3. u = "vulnbox" => q # <<>>
      BY <1>4, PartsDiffer
    <3> QED
      BY <1>0, <1>4, <2>0, <3>2, <3>3 DEF Switched
  <2>2. \A v \in Hooks!Tunnels \ {u} : Switched(v)'
    BY <1>0, <1>4, <2>0, StaysSwitched
  <2> QED
    BY <2>1, <2>2
<1>5. CASE u = "vulnbox" /\ hook[u] = LastPart(u) /\ q = <<>> /\ Hooks!Start({"players"}) /\ UNCHANGED link
  <2>0. unit'["players"] = "on" /\ unit'["self"] = unit["self"]
    BY <1>5, SystemctlUnits, ThreeServers
  <2>1. unit["self"] = "off" /\ link[u]
    <3>1. hook[u] \in Coming(u)
      BY <1>5, PartsDiffer DEF Coming
    <3>2. link[u]
      BY <3>1 DEF Servers, ServerInv
    <3> QED
      BY <1>5, <3>2, ThreeServers DEF Switched
  <2>2. ~link["self"]
    BY <2>1, ThreeServers DEF Servers, ServerInv
  <2>3. Switched("self")'
    BY <1>5, <2>2 DEF Switched
  <2>4. Switched(u)'
    <3>1. Other(u) = "self" /\ q # WaitPart(u)
      BY <1>5, ThreeServers, PartsDiffer
    <3> QED
      BY <1>0, <1>5, <2>0, <2>1, <3>1 DEF Switched
  <2> QED
    BY <1>5, <2>3, <2>4, ThreeServers
<1>6. CASE hook[u] = Hooks!OnDisconnect(u) /\ q = StartPart(u) /\ UNCHANGED <<unit, link>>
  <2>1. Switched(u)'
    <3>1. hook[u] \in Going(u)
      BY <1>6 DEF Going
    <3>2. ~link[u]
      BY <3>1 DEF Servers, ServerInv
    <3> QED
      BY <1>6, <3>2 DEF Switched
  <2>2. \A v \in Hooks!Tunnels \ {u} : Switched(v)'
    BY <1>0, <1>6, StaysSwitched
  <2> QED
    BY <2>1, <2>2
<1>7. CASE hook[u] = StartPart(u) /\ q = <<>> /\ Hooks!Start({Other(u)}) /\ UNCHANGED link
  <2>0. Other(u) \in Hooks!Units /\ \A v \in Hooks!Tunnels : Other(v) \in Hooks!Units /\ "players" \in Hooks!Units
    BY ThreeServers
  <2>1. Switched(u)'
    <3>1. hook[u] \in Going(u)
      BY <1>7 DEF Going
    <3>2. ~link[u]
      BY <3>1 DEF Servers, ServerInv
    <3> QED
      BY <1>7, <3>2 DEF Switched
  <2>2. ASSUME NEW v \in Hooks!Tunnels \ {u} PROVE Switched(v)'
    <3>1. unit'[Other(v)] = unit[Other(v)]
      <4>1. Other(v) \notin {Other(u)}
        BY ThreeServers
      <4> QED
        BY <1>7, <2>0, <4>1, SystemctlUnits
    <3>2. unit["players"] = "on" => unit'["players"] = "on"
      BY <1>7, <2>0, SystemctlUnits
    <3> QED
      BY <1>0, <1>7, <3>1, <3>2, StaysSwitched
  <2> QED
    BY <2>1, <2>2
<1> QED
  BY <1>1, <1>2, <1>3, <1>4, <1>5, <1>6, <1>7 DEF HookMoves

(* A hook that runs beside an orderly command is that of the self-hosted   *)
(* network which a reset ends.                                             *)
LEMMA HookKeepsCtl ==
  ASSUME HookTypes, Servers, CtlInv, NEW u \in Hooks!Tunnels, NEW q, hook' = [hook EXCEPT ![u] = q],
         HookMoves(u, q), ctl' = ctl
  PROVE  CtlInv'
<1>1. hook[u] # <<>>
  BY PartsDiffer DEF HookMoves, Going
<1>2. CASE ctl = <<>>
  BY <1>2 DEF CtlInv
<1>3. CASE ctl # <<>>
  <2>1. hook["vulnbox"] = <<>> /\ ~link["vulnbox"] /\ u = "self" /\ ctl = ResetLeft(3) /\ unit["self"] # "on"
    BY <1>1, <1>3, ThreeServers DEF CtlInv
  <2>2. hook'["vulnbox"] = <<>> /\ ~link'["vulnbox"]
    BY <2>1, ThreeServers DEF HookMoves, HookTypes, Hooks!TypeOK
  <2>3. unit'["self"] # "on"
    <3>1. "self" \in Hooks!Units /\ Other(u) = "players" /\ "self" \notin {"players"} /\ u # "vulnbox"
      BY <2>1, ThreeServers
    <3> QED
      BY <2>1, <3>1, SystemctlUnits DEF HookMoves, HookTypes, Hooks!TypeOK
  <2>4. ResetLeft(3)' = ResetLeft(3)
    BY DEF ResetLeft
  <2> QED
    BY <2>1, <2>2, <2>3, <2>4 DEF CtlInv
<1> QED
  BY <1>2, <1>3

(* Two pairs in a row.                                                     *)
LEMMA TwoAndTwo ==
  ASSUME NEW S, NEW a \in S, NEW b \in S, NEW c \in S, NEW e \in S
  PROVE  <<a, b>> \o <<c, e>> = <<a, b, c, e>>
<1> DEFINE w == <<a, b>> \o <<c, e>>
<1>1. <<a, b>> \in Seq(S) /\ <<c, e>> \in Seq(S) /\ <<a, b, c, e>> \in Seq(S) /\ w \in Seq(S)
  OBVIOUS
<1>2. Len(w) = 4 /\ Len(<<a, b, c, e>>) = 4
  BY <1>1
<1>3. w[1] = a /\ w[2] = b /\ w[3] = c /\ w[4] = e
  BY <1>1
<1>4. \A i \in 1..4 : w[i] = <<a, b, c, e>>[i]
  BY <1>3
<1> HIDE DEF w
<1>5. w = <<a, b, c, e>>
  BY <1>1, <1>2, <1>4
<1> QED
  BY <1>5 DEF w

(* A reset, step by step.                                                  *)
LEMMA ResetSteps ==
  /\ Hooks!ResetProgram = ResetLeft(4)
  /\ Head(ResetLeft(4)) = <<"stop", Hooks!Units>> /\ Tail(ResetLeft(4)) = ResetLeft(3)
  /\ Head(ResetLeft(3)) = <<"wait", Hooks!Units>> /\ Tail(ResetLeft(3)) = ResetLeft(2)
  /\ Head(ResetLeft(2)) = <<"reset", {}>> /\ Tail(ResetLeft(2)) = ResetLeft(1)
  /\ Head(ResetLeft(1)) = <<"start", Hooks!Units>> /\ Tail(ResetLeft(1)) = <<>>
<1> DEFINE A == <<"stop", Hooks!Units>>
           B == <<"wait", Hooks!Units>>
           C == <<"reset", {}>>
           E == <<"start", Hooks!Units>>
<1>1. ResetLeft(4) = <<A, B, C, E>> /\ ResetLeft(3) = <<B, C, E>> /\ ResetLeft(2) = <<C, E>> /\ ResetLeft(1) = <<E>>
  BY DEF ResetLeft
<1>2. Hooks!ResetProgram = <<A, B>> \o <<C, E>>
  BY DEF Hooks!ResetProgram, Hooks!StopAll
<1> HIDE DEF A, B, C, E
<1>3. PICK S : S = {A, B, C, E}
  OBVIOUS
<1>4. <<A, B>> \o <<C, E>> = <<A, B, C, E>>
  BY <1>3, TwoAndTwo
<1>5. /\ Head(<<A, B, C, E>>) = A /\ Tail(<<A, B, C, E>>) = <<B, C, E>> /\ Head(<<B, C, E>>) = B /\ Tail(<<B, C, E>>) = <<C, E>>
      /\ Head(<<C, E>>) = C /\ Tail(<<C, E>>) = <<E>> /\ Head(<<E>>) = E /\ Tail(<<E>>) = <<>>
  OBVIOUS
<1>6. A = <<"stop", Hooks!Units>> /\ B = <<"wait", Hooks!Units>> /\ C = <<"reset", {}>> /\ E = <<"start", Hooks!Units>>
  BY DEF A, B, C, E
<1> QED
  BY <1>1, <1>2, <1>4, <1>5, <1>6

(* A command that begins in order reads the right status, so it is         *)
(* harmless or a reset without vulnbox.                                    *)
LEMMA CommandInOrder ==
  ASSUME HooksInv, Servers, \A u \in Hooks!Tunnels : Switched(u), NEW c, Hooks!Command(c), orderly'
  PROVE  CtlInv'
<1> DEFINE s == Hooks!Status
           f == Hooks!FromStatus(s)
           Steps == {"start", "stop", "wait"} \X SUBSET Hooks!Units
<1>1. /\ Hooks!Quiet /\ c \in {"startup", "fix"} /\ stale \cap Hooks!Tunnels = {}
      /\ ctl' = Hooks!Program(c) /\ unit' = unit /\ link' = link /\ hook' = hook
  BY DEF Hooks!Command
<1>2. /\ \A u \in Hooks!Tunnels : hook[u] = <<>> /\ unit[u] # "stopping" /\ (Told(u) <=> link[u])
      /\ link \in [Hooks!Tunnels -> BOOLEAN] /\ unit \in [Hooks!Units -> {"on", "off", "stopping"}]
  <2>1. \A u \in Hooks!Tunnels : hook[u] = <<>> /\ unit[u] # "stopping"
    BY <1>1 DEF Hooks!Quiet, Hooks!Units
  <2>2. \A u \in Hooks!Tunnels : At(u) = "rest" /\ u \notin stale
    BY <1>1, <2>1 DEF At
  <2> QED
    BY <2>1, <2>2 DEF HooksInv, TunnelInv, HookTypes, Hooks!TypeOK
<1>3. s.self = link["self"] /\ s.vulnbox = link["vulnbox"] /\ s.active = {u \in Hooks!Units : unit[u] = "on"}
  <2>1. row = Hooks!None \/ (row.self \in BOOLEAN /\ row.vulnbox \in BOOLEAN)
    BY DEF HooksInv, HookTypes, Hooks!TypeOK, Hooks!Row
  <2>2. Told("self") <=> (row # Hooks!None /\ row.self)
    BY DEF Told
  <2>3. Told("vulnbox") <=> (row # Hooks!None /\ row.vulnbox)
    BY DEF Told
  <2>4. s.self = (row # Hooks!None /\ row.self) /\ s.vulnbox = (row # Hooks!None /\ row.vulnbox)
    BY DEF Hooks!Status
  <2>5. s.active = {u \in Hooks!Units : unit[u] = "on"}
    BY DEF Hooks!Status
  <2>6. (Told("self") <=> link["self"]) /\ (Told("vulnbox") <=> link["vulnbox"]) /\ link["self"] \in BOOLEAN /\ link["vulnbox"] \in BOOLEAN
    BY <1>2, ThreeServers
  <2> QED
    BY <2>1, <2>2, <2>3, <2>4, <2>5, <2>6
<1> HIDE DEF s
<1>4. /\ link["vulnbox"] => unit["self"] # "on" /\ ~link["self"]
      /\ link["self"] => unit["players"] # "on"
  <2>1. link["vulnbox"] => unit["self"] = "off"
    BY <1>2, ThreeServers DEF Switched
  <2>2. link["self"] => unit["players"] = "off"
    BY <1>2, ThreeServers DEF Switched
  <2> QED
    BY <2>1, <2>2, ThreeServers DEF Servers, ServerInv
<1>5. /\ f.start \subseteq Hooks!Units /\ f.stop = {}
      /\ link["vulnbox"] => f.start \subseteq {"players"} /\ ~f.reset
      /\ link["self"] => f.start \subseteq {"vulnbox"}
      /\ f.reset => ~link["vulnbox"]
  <2>1. CASE link["vulnbox"]
    <3>1. /\ f.start = IF {"vulnbox", "players"} \subseteq s.active THEN {} ELSE {"players"}
          /\ f.stop = s.active \cap {"self"} /\ f.reset = s.self
      BY <1>3, <2>1 DEF Hooks!FromStatus
    <3>2. s.active \cap {"self"} = {} /\ ~s.self
      BY <1>3, <1>4, <2>1
    <3> QED
      BY <1>4, <2>1, <3>1, <3>2, ThreeServers
  <2>2. CASE ~link["vulnbox"] /\ link["self"]
    <3>1. f.start = {"vulnbox"} \ s.active /\ f.stop = s.active \cap {"players"}
      BY <1>3, <2>2 DEF Hooks!FromStatus
    <3>2. s.active \cap {"players"} = {}
      BY <1>3, <1>4, <2>2
    <3> QED
      BY <2>2, <3>1, <3>2, ThreeServers
  <2>3. CASE ~link["vulnbox"] /\ ~link["self"]
    <3>1. f.start = Hooks!Units \ s.active /\ f.stop = {}
      BY <1>3, <2>3 DEF Hooks!FromStatus
    <3> QED
      BY <2>3, <3>1
  <2> QED
    BY <2>1, <2>2, <2>3
<1>6. Hooks!Program(c) \in {<<<<"start", f.start>>>>, <<<<"start", f.start>>, <<"stop", f.stop>>, <<"wait", f.stop>>>>}
      \/ (Hooks!Program(c) = Hooks!ResetProgram /\ f.reset)
  <2>1. CASE c = "startup"
    BY <2>1 DEF Hooks!Program, s
  <2>2. CASE c = "fix"
    <3>1. Hooks!Program(c) = Hooks!Fix(f)
      BY <2>2 DEF Hooks!Program, s
    <3> HIDE DEF f
    <3> QED
      BY <3>1 DEF Hooks!Fix
  <2> QED
    BY <1>1, <2>1, <2>2
<1> HIDE DEF f
<1>7. Harmless(<<"start", f.start>>) /\ Harmless(<<"stop", f.stop>>) /\ Harmless(<<"wait", f.stop>>)
  BY <1>5 DEF Harmless
<1>8. <<"start", f.start>> \in Steps /\ <<"stop", f.stop>> \in Steps /\ <<"wait", f.stop>> \in Steps
  BY <1>5
<1>9. \A w : Harmless(w)' <=> Harmless(w)
  BY <1>1 DEF Harmless
<1>10. CASE ctl' = Hooks!ResetProgram /\ f.reset
  BY <1>1, <1>2, <1>5, <1>10, ResetSteps, ThreeServers DEF CtlInv, ResetLeft
<1>11. ASSUME NEW w \in Seq(Steps), ctl' = w, \A i \in 1..Len(w) : Harmless(w[i]) PROVE CtlInv'
  BY <1>1, <1>2, <1>9, <1>11 DEF CtlInv
<1>12. CASE ctl' = <<<<"start", f.start>>>>
  <2>1. PICK a \in Steps : a = <<"start", f.start>> /\ Harmless(a)
    BY <1>7, <1>8
  <2>2. <<a>> \in Seq(Steps) /\ \A i \in 1..Len(<<a>>) : <<a>>[i] = a
    OBVIOUS
  <2> QED
    BY <1>11, <1>12, <2>1, <2>2
<1>13. CASE ctl' = <<<<"start", f.start>>, <<"stop", f.stop>>, <<"wait", f.stop>>>>
  <2>1. PICK a \in Steps, b \in Steps, e \in Steps :
          /\ a = <<"start", f.start>> /\ b = <<"stop", f.stop>> /\ e = <<"wait", f.stop>>
          /\ Harmless(a) /\ Harmless(b) /\ Harmless(e)
    BY <1>7, <1>8
  <2>2. <<a, b, e>> \in Seq(Steps) /\ \A i \in 1..Len(<<a, b, e>>) : <<a, b, e>>[i] \in {a, b, e}
    OBVIOUS
  <2> QED
    BY <1>11, <1>13, <2>1, <2>2
<1> QED
  BY <1>1, <1>6, <1>10, <1>12, <1>13

(* A step of an orderly command.                                           *)
LEMMA CtlInOrder ==
  ASSUME HookTypes, Servers, \A u \in Hooks!Tunnels : Switched(u), CtlInv, Hooks!Ctl
  PROVE  (\A u \in Hooks!Tunnels : Switched(u)') /\ CtlInv'
<1> DEFINE Steps == {"start", "stop", "wait"} \X SUBSET Hooks!Units
<1>1. ctl # <<>> /\ ctl' = Tail(ctl) /\ hook' = hook /\ link' = link
  BY DEF Hooks!Ctl
<1>2. Hooks!Systemctl(Head(ctl)) \/ (Head(ctl)[1] = "reset" /\ unit' = unit)
  BY DEF Hooks!Ctl
<1>3. /\ unit \in [Hooks!Units -> {"on", "off", "stopping"}] /\ \A u \in Hooks!Tunnels : Other(u) \in Hooks!Units
      /\ "players" \in Hooks!Units /\ \A u \in Hooks!Tunnels : u \in Hooks!Units
  BY ThreeServers DEF HookTypes, Hooks!TypeOK
<1>4. \A w : Harmless(w)' <=> Harmless(w)
  BY <1>1 DEF Harmless
<1>5. \A n : ResetLeft(n)' = ResetLeft(n)
  BY DEF ResetLeft
<1>6. ASSUME \A u \in Hooks!Tunnels : hook[u] = <<>> /\ unit[u] # "stopping",
             ctl \in Seq(Steps), \A i \in 1..Len(ctl) : Harmless(ctl[i])
      PROVE  (\A u \in Hooks!Tunnels : Switched(u)') /\ CtlInv'
  <2>1. Head(ctl) \in Steps /\ Harmless(Head(ctl))
    <3>1. Head(ctl) = ctl[1] /\ 1 \in 1..Len(ctl) /\ Head(ctl) \in Steps
      BY <1>1, <1>6
    <3> QED
      BY <1>6, <3>1
  <2>2. PICK w \in Seq(Steps) : w = ctl' /\ \A i \in 1..Len(w) : Harmless(w[i])
    <3>1. PICK q \in Seq(Steps) : q = ctl /\ q # <<>>
      BY <1>1, <1>6
    <3>2. Tail(q) \in Seq(Steps) /\ \A i \in 1..Len(Tail(q)) : Tail(q)[i] = q[i + 1] /\ i + 1 \in 1..Len(q)
      BY <3>1
    <3> QED
      BY <1>1, <1>6, <3>1, <3>2
  <2>3. PICK e \in {"start", "stop", "wait"}, T \in SUBSET Hooks!Units : Head(ctl) = <<e, T>>
    BY <2>1
  <2>4. Head(ctl)[1] = e /\ Head(ctl)[2] = T
    BY <2>3
  <2>5. Hooks!Systemctl(<<e, T>>)
    BY <1>2, <2>3, <2>4
  <2>6. \/ unit' = unit
        \/ /\ Hooks!Start(T)
           /\ link["vulnbox"] => T \subseteq {"players"}
           /\ link["self"] => T \subseteq {"vulnbox"}
    <3>1. CASE e = "start"
      BY <2>1, <2>4, <2>5, <3>1, SystemctlDoes DEF Harmless
    <3>2. CASE e = "stop"
      <4>1. T = {} /\ Hooks!Stop(T)
        BY <2>1, <2>4, <2>5, <3>2, SystemctlDoes DEF Harmless
      <4> QED
        BY <1>3, <4>1 DEF Hooks!Stop
    <3>3. CASE e = "wait"
      BY <2>5, <3>3, SystemctlDoes, SystemctlUnits
    <3> QED
      BY <3>1, <3>2, <3>3
  <2>7. \A u \in Hooks!Tunnels : unit'[u] # "stopping"
    BY <1>3, <1>6, <2>6, SystemctlUnits
  <2>8. ASSUME NEW u \in Hooks!Tunnels PROVE Switched(u)'
    <3>1. CASE unit' = unit \/ ~link[u]
      BY <1>1, <3>1, StaysSwitched DEF Switched
    <3>2. CASE Hooks!Start(T) /\ link[u]
      <4>0. CASE unit' = unit
        BY <3>1, <4>0
      <4>1. CASE unit' # unit
        <5>1. T \subseteq (IF u = "vulnbox" THEN {"players"} ELSE {"vulnbox"}) /\ Other(u) \in {"players", "self"}
          BY <2>6, <3>2, <4>1, ThreeServers
        <5>2. Other(u) \notin T
          BY <5>1, ThreeServers
        <5>3. unit'[Other(u)] = unit[Other(u)] /\ (unit["players"] = "on" => unit'["players"] = "on")
          BY <1>3, <3>2, <5>2, SystemctlUnits
        <5> QED
          BY <1>1, <5>3, StaysSwitched
      <4> QED
        BY <4>0, <4>1
    <3> QED
      BY <2>6, <3>1, <3>2
  <2>9. CtlInv'
    BY <1>1, <1>4, <1>6, <2>2, <2>7 DEF CtlInv
  <2> QED
    BY <2>8, <2>9
<1>7. ASSUME ~link["vulnbox"], hook["vulnbox"] = <<>>, ctl = ResetLeft(4), hook["self"] = <<>>
      PROVE  (\A u \in Hooks!Tunnels : Switched(u)') /\ CtlInv'
  <2>1. Head(ctl) = <<"stop", Hooks!Units>> /\ ctl' = ResetLeft(3) /\ Head(ctl)[1] # "reset"
    BY <1>1, <1>7, ResetSteps
  <2>2. Hooks!Stop(Hooks!Units)
    BY <1>2, <2>1, SystemctlDoes
  <2>3. unit'["self"] # "on" /\ (unit["players"] = "off" => unit'["players"] = "off")
    BY <1>3, <2>2, ThreeServers, SystemctlUnits
  <2>4. Switched("vulnbox")'
    BY <1>1, <1>7 DEF Switched
  <2>5. Switched("self")'
    <3>1. link["self"] => unit["players"] = "off"
      BY <1>7, ThreeServers DEF Switched
    <3>2. hook'["self"] # WaitPart("self") /\ Other("self") = "players"
      BY <1>1, <1>7, ThreeServers, PartsDiffer
    <3> QED
      BY <1>1, <1>7, <2>3, <3>1, <3>2 DEF Switched
  <2>6. CtlInv'
    BY <1>1, <1>5, <1>7, <2>1, <2>3 DEF CtlInv
  <2> QED
    BY <2>4, <2>5, <2>6, ThreeServers
<1>8. ASSUME ~link["vulnbox"], hook["vulnbox"] = <<>>, ctl = ResetLeft(3), unit["self"] # "on"
      PROVE  (\A u \in Hooks!Tunnels : Switched(u)') /\ CtlInv'
  <2>1. Head(ctl) = <<"wait", Hooks!Units>> /\ ctl' = ResetLeft(2) /\ Head(ctl)[1] # "reset"
    BY <1>1, <1>8, ResetSteps
  <2>2. unit' = unit /\ \A v \in Hooks!Units : unit[v] # "stopping"
    BY <1>2, <2>1, SystemctlDoes, SystemctlUnits
  <2>3. unit["self"] = "off"
    BY <1>3, <1>8, <2>2, ThreeServers
  <2>4. ~link["self"] /\ hook["self"] = <<>>
    BY <2>3, ThreeServers DEF Servers, ServerInv
  <2>5. \A u \in Hooks!Tunnels : Switched(u)'
    BY <1>1, <1>8, <2>4, ThreeServers DEF Switched
  <2> QED
    BY <1>1, <1>5, <1>8, <2>1, <2>4, <2>5 DEF CtlInv
<1>9. ASSUME ~link["vulnbox"], hook["vulnbox"] = <<>>, ctl \in {ResetLeft(2), ResetLeft(1)}, ~link["self"], hook["self"] = <<>>
      PROVE  (\A u \in Hooks!Tunnels : Switched(u)') /\ CtlInv'
  <2>1. ctl' = ResetLeft(1) \/ ctl' = <<>>
    BY <1>1, <1>9, ResetSteps
  <2>2. \A u \in Hooks!Tunnels : Switched(u)'
    BY <1>1, <1>9, ThreeServers DEF Switched
  <2> QED
    BY <1>1, <1>5, <1>9, <2>1, <2>2 DEF CtlInv
<1> QED
  BY <1>1, <1>6, <1>7, <1>8, <1>9 DEF CtlInv

(* A tunnel that comes, or goes, without a command at work.                *)
LEMMA TunnelInOrder ==
  ASSUME HookTypes, \A u \in Hooks!Tunnels : Switched(u), NEW u \in Hooks!Tunnels,
         Hooks!TunnelUp(u) \/ Hooks!TunnelDown(u), orderly'
  PROVE  (\A v \in Hooks!Tunnels : Switched(v)') /\ CtlInv'
<1>1. ctl' = <<>> /\ unit' = unit
  BY DEF Hooks!TunnelUp, Hooks!TunnelDown, Hooks!Undisturbed
<1>2. \A v \in Hooks!Tunnels \ {u} : Switched(v)'
  <2>1. \A v \in Hooks!Tunnels \ {u} : hook'[v] = hook[v] /\ link'[v] = link[v]
    BY DEF Hooks!TunnelUp, Hooks!TunnelDown, HookTypes, Hooks!TypeOK
  <2> QED
    BY <1>1, <2>1, StaysSwitched
<1>3. Switched(u)'
  <2>1. CASE Hooks!TunnelUp(u)
    <3>1. hook'[u] = Hooks!OnConnect(u)
      BY <2>1 DEF Hooks!TunnelUp, HookTypes
    <3> QED
      BY <3>1, PartsDiffer DEF Switched
  <2>2. CASE Hooks!TunnelDown(u)
    <3>1. ~link'[u]
      BY <2>2 DEF Hooks!TunnelDown, HookTypes, Hooks!TypeOK
    <3> QED
      BY <3>1 DEF Switched
  <2> QED
    BY <2>1, <2>2
<1> QED
  BY <1>1, <1>2, <1>3 DEF CtlInv

(* A service that stops: of the tunnels, only one that a reset ends.       *)
LEMMA TerminateInOrder ==
  ASSUME HookTypes, \A u \in Hooks!Tunnels : Switched(u), CtlInv, NEW u \in Hooks!Tunnels, Hooks!Terminate(u)
  PROVE  (\A v \in Hooks!Tunnels : Switched(v)') /\ CtlInv'
<1>1. /\ unit[u] = "stopping" /\ hook[u] = <<>> /\ ctl' = ctl
      /\ \A v \in Hooks!Tunnels \ {u} : hook'[v] = hook[v] /\ link'[v] = link[v]
      /\ unit' = unit \/ unit' = [unit EXCEPT ![u] = "off"]
      /\ ~link'[u] /\ (~link[u] => hook'[u] = <<>>)
  BY DEF Hooks!Terminate, HookTypes, Hooks!TypeOK
<1>2. unit \in [Hooks!Units -> {"on", "off", "stopping"}]
  BY DEF HookTypes, Hooks!TypeOK
<1>3. ASSUME NEW v \in Hooks!Tunnels \ {u} PROVE Switched(v)'
  <2>1. unit'["players"] = unit["players"] /\ (unit'[Other(v)] = unit[Other(v)] \/ unit'[Other(v)] = "off")
    BY <1>1, <1>2, ThreeServers
  <2> QED
    BY <1>1, <2>1, StaysSwitched
<1>4. Switched(u)'
  BY <1>1 DEF Switched
<1>5. CtlInv'
  <2>1. CASE ctl = <<>>
    BY <1>1, <2>1 DEF CtlInv
  <2>2. CASE ctl # <<>>
    <3>1. /\ ~link["vulnbox"] /\ hook["vulnbox"] = <<>>
          /\ \/ ctl = ResetLeft(4) /\ u = "vulnbox" /\ hook["self"] = <<>> /\ unit["self"] # "stopping"
             \/ ctl = ResetLeft(3) /\ unit["self"] # "on"
             \/ ctl \in {ResetLeft(2), ResetLeft(1)} /\ ~link["self"] /\ hook["self"] = <<>>
      BY <1>1, <2>2, ThreeServers DEF CtlInv
    <3>2. ~link'["vulnbox"] /\ hook'["vulnbox"] = <<>>
      BY <1>1, <3>1, ThreeServers
    <3>3. \A n : ResetLeft(n)' = ResetLeft(n)
      BY DEF ResetLeft
    <3>4. CASE ctl = ResetLeft(4) /\ u = "vulnbox" /\ hook["self"] = <<>> /\ unit["self"] # "stopping"
      <4>1. hook'["self"] = <<>> /\ unit'["self"] # "stopping"
        BY <1>1, <1>2, <3>4, ThreeServers
      <4> QED
        BY <1>1, <3>2, <3>3, <3>4, <4>1 DEF CtlInv
    <3>5. CASE ctl = ResetLeft(3) /\ unit["self"] # "on"
      <4>1. unit'["self"] # "on"
        BY <1>1, <1>2, <3>5, ThreeServers
      <4> QED
        BY <1>1, <3>2, <3>3, <3>5, <4>1 DEF CtlInv
    <3>6. CASE ctl \in {ResetLeft(2), ResetLeft(1)} /\ ~link["self"] /\ hook["self"] = <<>>
      <4>1. ~link'["self"] /\ hook'["self"] = <<>>
        BY <1>1, <3>6, ThreeServers
      <4> QED
        BY <1>1, <3>2, <3>3, <3>6, <4>1 DEF CtlInv
    <3> QED
      BY <3>1, <3>4, <3>5, <3>6
  <2> QED
    BY <2>1, <2>2
<1> QED
  BY <1>3, <1>4, <1>5

(* As long as all commands are orderly, every server stays switched.       *)
LEMMA ModesStep == HooksInv /\ Servers /\ Modes /\ [Hooks!Next]_(Hooks!vars) => Modes'
<1> SUFFICES ASSUME HooksInv, Servers, Modes, [Hooks!Next]_(Hooks!vars), orderly'
             PROVE  (\A u \in Hooks!Tunnels : Switched(u)') /\ CtlInv'
  BY DEF Modes
<1>1. orderly /\ HookTypes
  BY DEF Hooks!Next, Hooks!Hook, Hooks!TunnelUp, Hooks!TunnelDown, Hooks!Terminate, Hooks!ClientJoins, Hooks!ClientInsert,
     Hooks!ClientLeaves, Hooks!PlayersDown, Hooks!Command, Hooks!Ctl, Hooks!ResetConnectionStatus, Hooks!Reboot, Hooks!vars, HooksInv
<1>2. (\A u \in Hooks!Tunnels : Switched(u)) /\ CtlInv
  BY <1>1 DEF Modes
<1>3. ASSUME hook' = hook, link' = link, unit' = unit, ctl' = ctl PROVE (\A u \in Hooks!Tunnels : Switched(u)') /\ CtlInv'
  <2>1. \A w : Harmless(w)' <=> Harmless(w)
    BY <1>3 DEF Harmless
  <2> QED
    BY <1>2, <1>3, <2>1 DEF Switched, CtlInv, ResetLeft
<1>4. ASSUME NEW u \in Hooks!Tunnels, Hooks!Hook(u) PROVE (\A v \in Hooks!Tunnels : Switched(v)') /\ CtlInv'
  <2>1. PICK q : hook' = [hook EXCEPT ![u] = q] /\ HookMoves(u, q) /\ UNCHANGED <<ctl, orderly>>
    BY <1>1, <1>4, HookMoving
  <2> QED
    BY <1>1, <1>2, <2>1, HookSwitches, HookKeepsCtl
<1>5. ASSUME NEW u \in Hooks!Tunnels, Hooks!TunnelUp(u) \/ Hooks!TunnelDown(u) \/ Hooks!Terminate(u)
      PROVE  (\A v \in Hooks!Tunnels : Switched(v)') /\ CtlInv'
  BY <1>1, <1>2, <1>5, TunnelInOrder, TerminateInOrder
<1>6. CASE Hooks!ClientJoins \/ Hooks!ClientInsert \/ Hooks!ClientLeaves \/ Hooks!ResetConnectionStatus \/ UNCHANGED Hooks!vars
  BY <1>3, <1>6 DEF Hooks!ClientJoins, Hooks!ClientInsert, Hooks!ClientLeaves, Hooks!ResetConnectionStatus, Hooks!vars
<1>7. CASE Hooks!PlayersDown
  <2>1. /\ hook' = hook /\ link' = link /\ ctl' = ctl /\ unit["players"] = "stopping"
        /\ unit'["players"] = "off" /\ \A u \in Hooks!Tunnels : unit'[u] = unit[u]
    BY <1>1, <1>7, ThreeServers DEF Hooks!PlayersDown, HookTypes, Hooks!TypeOK
  <2>2. \A w : Harmless(w)' <=> Harmless(w)
    BY <2>1 DEF Harmless
  <2>3. CtlInv'
    BY <1>2, <2>1, <2>2, ThreeServers DEF CtlInv, ResetLeft
  <2>4. ASSUME NEW u \in Hooks!Tunnels PROVE Switched(u)'
    <3>1. unit'[Other(u)] = unit[Other(u)] \/ unit'[Other(u)] = "off"
      BY <2>1, ThreeServers
    <3> QED
      BY <1>2, <2>1, <3>1, StaysSwitched
  <2> QED
    BY <2>3, <2>4
<1>8. ASSUME NEW c, Hooks!Command(c) PROVE (\A u \in Hooks!Tunnels : Switched(u)') /\ CtlInv'
  <2>1. \A u \in Hooks!Tunnels : Switched(u)'
    BY <1>2, <1>8 DEF Hooks!Command, Switched
  <2> QED
    BY <1>2, <1>8, <2>1, CommandInOrder
<1>9. CASE Hooks!Ctl
  BY <1>1, <1>2, <1>9, CtlInOrder
<1>10. CASE Hooks!Reboot
  <2>1. ctl' = <<>> /\ \A u \in Hooks!Tunnels : ~link'[u]
    BY <1>10 DEF Hooks!Reboot
  <2> QED
    BY <2>1 DEF Switched, CtlInv
<1> QED
  BY <1>4, <1>5, <1>6, <1>7, <1>8, <1>9, <1>10 DEF Hooks!Next

(* The component by itself.                                               *)
LEMMA ModesAlone ==
  ASSUME MaxClients \in Nat
  PROVE  Hooks!Spec => [](Hooks!TypeOK /\ Hooks!ModesExclusive)
<1>1. Hooks!Init => HooksInv
  BY HooksInit
<1>2. Hooks!Init => Servers /\ Modes
  <2> SUFFICES ASSUME Hooks!Init PROVE Servers /\ Modes
    OBVIOUS
  <2>1. ctl = <<>> /\ \A u \in Hooks!Tunnels : hook[u] = <<>> /\ link[u] = FALSE
    BY DEF Hooks!Init
  <2>2. \A u \in Hooks!Tunnels : <<>> \notin Coming(u) /\ <<>> \notin Going(u)
    BY PartsDiffer DEF Coming
  <2> QED
    BY <2>1, <2>2 DEF Servers, ServerInv, Modes, Switched, CtlInv
<1>3. HooksInv /\ Servers /\ [Hooks!Next]_(Hooks!vars) => Servers'
  BY ServersStep DEF HooksInv
<1>4. HooksInv /\ Modes => Hooks!TypeOK /\ Hooks!ModesExclusive
  <2> SUFFICES ASSUME HooksInv, Modes PROVE Hooks!TypeOK /\ Hooks!ModesExclusive
    OBVIOUS
  <2>1. ASSUME Hooks!Quiet, orderly
        PROVE  /\ link["vulnbox"] => unit["self"] = "off" /\ unit["players"] = "on"
               /\ link["self"] => unit["players"] = "off"
    <3>1. \A u \in Hooks!Tunnels : hook[u] = <<>> /\ Switched(u)
      BY <2>1 DEF Hooks!Quiet, Modes
    <3> QED
      BY <3>1, ThreeServers DEF Switched
  <2> QED
    BY <2>1 DEF HooksInv, HookTypes, Hooks!ModesExclusive
<1> QED
  BY <1>1, <1>2, <1>3, <1>4, HooksStep, ModesStep, PTL DEF Hooks!Spec

(* A vulnbox in the cloud has its players' server and no self-hosted       *)
(* network beside it, and a self-hosted network no players' server,        *)
(* whichever tunnels come and go at the same time, for any number of       *)
(* players, events, orderly commands and reboots (on-connect.sh,           *)
(* on-disconnect.sh, vpnctl.py).                                           *)
THEOREM ModesCorrect == Spec => []ModesExclusive
<1> DEFINE Chosen == component = "hooks"
<1>1. Hooks!Spec => [](Hooks!TypeOK /\ Hooks!ModesExclusive)
  BY ModesAlone, ToolsAssumption
<1>2. Init /\ Chosen => Hooks!Init
  BY DEF Init
<1>3. Chosen /\ [Next]_tools => Chosen' /\ [Hooks!Next]_(Hooks!vars)
  BY OneComponent DEF Next, tools, Hooks!vars
<1>4. ~Chosen /\ [Next]_tools => ~Chosen'
  BY OneComponent
<1> QED
  BY <1>1, <1>2, <1>3, <1>4, PTL DEF Spec, Hooks!Spec, ModesExclusive

-----------------------------------------------------------------------------
(* The daemon of the VPN board.                                            *)

(* The names of its variables.                                              *)
mode == v1
wg == v2
status == v3
d == v4
board == v5
net == v6
thr == v7
queue == v8
count == v9
calm == v10
USE DEF mode, wg, status, d, board, net, thr, queue, count, calm

NetStates == {"unset", "off", "team", "on"}
BoardMessage == ({"state"} \X NetStates) \cup ({"ban", "unban"} \X BoardTeams)
BoardRows == [BoardTeams -> Board!Row]

BoardTypes ==
  /\ wg \in [BoardTeams -> [Board!Peers -> Board!Peer] \cup {Board!None}]
  /\ status \in BoardRows
  /\ d \in [Board!Daemons -> [pc: {"idle", "loaded", "committed"}, rows: BoardRows, open: BOOLEAN]]
  /\ net \in [state: NetStates, banned: SUBSET BoardTeams]
  /\ thr \in [pc: {"connect", "subscribe", "listen"}, open: BOOLEAN, banned: SUBSET BoardTeams]
  /\ calm \in [rows: SUBSET Board!Daemons, orders: BOOLEAN]
  /\ queue \in Seq(BoardMessage) /\ (queue # <<>> => thr.pc = "listen")

(* A row says what an interface with these peers is.                       *)
Shows(r, p) ==
  p # Board!None =>
    /\ r.vulnbox <=> p["vulnbox"] = "fresh"
    /\ r.boxes <=> \E b \in Board!Boxes : p[b] = "fresh"
    /\ r.count = Board!Cardinality({c \in Board!Peers : p[c] = "fresh"})

RoundInv ==
  \A x \in calm.rows :
    /\ d[x].pc = "loaded" => d[x].rows = status
    /\ d[x].pc = "committed" /\ Board!ChecksWg(x) => \A t \in BoardTeams : Shows(status[t], wg[t])

(* The last message in q from K says whether something is so (if it is in  *)
(* P); without one, c does.                                                *)
YesNo(b) == IF b THEN "yes" ELSE "no"
Settled(q, K, P, c, v) ==
  \/ (\A i \in 1..Len(q) : q[i] \notin K) /\ c = v
  \/ \E i \in 1..Len(q) : q[i] \in K /\ (\A j \in (i + 1)..Len(q) : q[j] \notin K) /\ v = YesNo(q[i] \in P)

AboutState == {"state"} \X NetStates
SaysOpen == {"state"} \X {"on", "team"}
AboutTeam(t) == {<<"ban", t>>, <<"unban", t>>}

(* The thread and the messages on their way lead to what is in Redis.      *)
OrderlyInv ==
  calm.orders =>
    /\ thr.pc = "connect" => thr.banned \subseteq net.banned
    /\ thr.pc = "subscribe" => thr.open = Board!Opened(net.state) /\ thr.banned = net.banned
    /\ thr.pc = "listen" =>
         /\ Settled(queue, AboutState, SaysOpen, YesNo(thr.open), YesNo(Board!Opened(net.state)))
         /\ \A t \in BoardTeams :
              Settled(queue, AboutTeam(t), {<<"ban", t>>}, YesNo(t \in thr.banned), YesNo(t \in net.banned))

BoardInv == BoardTypes /\ RoundInv /\ OrderlyInv

(* A message about something settles it, any other leaves it settled.      *)
LEMMA SettledAppend ==
  ASSUME NEW q \in Seq(BoardMessage), NEW m \in BoardMessage, NEW K, NEW P, NEW c, NEW v, NEW w,
         m \in K => w = YesNo(m \in P),
         m \notin K => Settled(q, K, P, c, v) /\ w = v
  PROVE  Settled(Append(q, m), K, P, c, w)
<1> DEFINE r == Append(q, m)
<1>1. /\ Len(r) = Len(q) + 1 /\ Len(q) \in Nat /\ r[Len(q) + 1] = m
      /\ \A i \in 1..Len(q) : r[i] = q[i]
  OBVIOUS
<1> HIDE DEF r
<1>2. CASE m \in K
  <2>1. Len(q) + 1 \in 1..Len(r) /\ \A j \in (Len(q) + 1 + 1)..Len(r) : r[j] \notin K
    BY <1>1
  <2>2. \E i \in 1..Len(r) : r[i] \in K /\ (\A j \in (i + 1)..Len(r) : r[j] \notin K) /\ w = YesNo(r[i] \in P)
    BY <1>1, <1>2, <2>1
  <2> QED
    BY <2>2 DEF Settled, r
<1>3. CASE m \notin K /\ (\A i \in 1..Len(q) : q[i] \notin K) /\ c = v
  <2>1. \A i \in 1..Len(r) : r[i] \notin K
    <3> SUFFICES ASSUME NEW i \in 1..Len(r) PROVE r[i] \notin K
      OBVIOUS
    <3>1. i \in 1..Len(q) \/ i = Len(q) + 1
      BY <1>1
    <3> QED
      BY <1>1, <1>3, <3>1
  <2> QED
    BY <1>3, <2>1 DEF Settled, r
<1>4. ASSUME m \notin K, NEW i \in 1..Len(q), q[i] \in K, \A j \in (i + 1)..Len(q) : q[j] \notin K, v = YesNo(q[i] \in P)
      PROVE  Settled(Append(q, m), K, P, c, w)
  <2>1. i \in 1..Len(r) /\ r[i] = q[i] /\ w = v
    BY <1>1, <1>4
  <2>2. \A j \in (i + 1)..Len(r) : r[j] \notin K
    <3> SUFFICES ASSUME NEW j \in (i + 1)..Len(r) PROVE r[j] \notin K
      OBVIOUS
    <3>1. (j \in (i + 1)..Len(q) /\ j \in 1..Len(q)) \/ j = Len(q) + 1
      BY <1>1
    <3> QED
      BY <1>1, <1>4, <3>1
  <2>3. \E k \in 1..Len(r) : r[k] \in K /\ (\A j \in (k + 1)..Len(r) : r[j] \notin K) /\ w = YesNo(r[k] \in P)
    BY <1>4, <2>1, <2>2
  <2> QED
    BY <2>3 DEF Settled, r
<1> QED
  BY <1>2, <1>3, <1>4 DEF Settled

(* Hearing the first message leaves it settled.                            *)
LEMMA SettledHear ==
  ASSUME NEW q \in Seq(BoardMessage), q # <<>>, NEW K, NEW P, NEW c, NEW v, NEW e, Settled(q, K, P, c, v),
         Head(q) \in K => e = YesNo(Head(q) \in P),
         Head(q) \notin K => e = c
  PROVE  Settled(Tail(q), K, P, e, v)
<1> DEFINE r == Tail(q)
<1>1. /\ Len(r) = Len(q) - 1 /\ Len(q) \in Nat \ {0} /\ Head(q) = q[1]
      /\ \A i \in 1..Len(r) : r[i] = q[i + 1]
  OBVIOUS
<1> HIDE DEF r
<1>2. CASE (\A i \in 1..Len(q) : q[i] \notin K) /\ c = v
  <2>1. (\A i \in 1..Len(r) : r[i] \notin K) /\ e = v
    BY <1>1, <1>2
  <2> QED
    BY <2>1 DEF Settled, r
<1>3. ASSUME NEW i \in 1..Len(q), q[i] \in K, \A j \in (i + 1)..Len(q) : q[j] \notin K, v = YesNo(q[i] \in P)
      PROVE  Settled(Tail(q), K, P, e, v)
  <2>1. CASE i = 1
    <3>1. (\A j \in 1..Len(r) : r[j] \notin K) /\ e = v
      BY <1>1, <1>3, <2>1
    <3> QED
      BY <3>1 DEF Settled, r
  <2>2. CASE i # 1
    <3>1. PICK k \in 1..Len(r) : k = i - 1 /\ r[k] = q[i]
      BY <1>1, <2>2
    <3>2. \A j \in (k + 1)..Len(r) : r[j] \notin K
      BY <1>1, <1>3, <3>1
    <3>3. \E l \in 1..Len(r) : r[l] \in K /\ (\A j \in (l + 1)..Len(r) : r[j] \notin K) /\ v = YesNo(r[l] \in P)
      BY <1>3, <3>1, <3>2
    <3> QED
      BY <3>3 DEF Settled, r
  <2> QED
    BY <2>1, <2>2
<1> QED
  BY <1>2, <1>3 DEF Settled


(* A row has these columns.                                                *)
LEMMA BoardColumns ==
  ASSUME NEW r \in Board!Row
  PROVE  DOMAIN r = {"vulnbox", "boxes", "count", "ever"}
  BY DEF Board!Row

(* The instance counts as the library does.                                *)
LEMMA SameCount ==
  ASSUME NEW S
  PROVE  Board!Cardinality(S) = Cardinality(S)
  BY Zenon DEF Board!Cardinality, Cardinality

(* There are finitely many peers.                                          *)
LEMMA PeersCounted == IsFiniteSet(Board!Peers) /\ Board!Cardinality(Board!Peers) \in Nat
<1>1. Board!Peers = {"vulnbox", "testbox", "player"}
  BY DEF Board!Peers, Board!Boxes
<1>2. /\ IsFiniteSet({"vulnbox"}) /\ IsFiniteSet({"vulnbox"} \cup {"testbox"})
      /\ IsFiniteSet(({"vulnbox"} \cup {"testbox"}) \cup {"player"})
  BY FS_Singleton, FS_Union
<1>3. ({"vulnbox"} \cup {"testbox"}) \cup {"player"} = {"vulnbox", "testbox", "player"}
  OBVIOUS
<1>4. IsFiniteSet(Board!Peers)
  BY <1>1, <1>2, <1>3
<1> QED
  BY <1>4, FS_CardinalityType, SameCount

(* The number of connected peers fits its column.                          *)
LEMMA ConnectionsFit ==
  ASSUME NEW p
  PROVE  Board!Cardinality({c \in Board!Peers : p[c] = "fresh"}) \in 0..Board!Cardinality(Board!Peers)
<1> DEFINE S == {c \in Board!Peers : p[c] = "fresh"}
<1>1. S \subseteq Board!Peers
  OBVIOUS
<1> HIDE DEF S
<1>2. IsFiniteSet(S) /\ Cardinality(S) <= Cardinality(Board!Peers)
  BY <1>1, PeersCounted, FS_Subset
<1>3. Cardinality(S) \in Nat /\ Cardinality(Board!Peers) \in Nat
  BY <1>2, PeersCounted, FS_CardinalityType
<1>4. Cardinality(S) \in 0..Cardinality(Board!Peers)
  BY <1>2, <1>3
<1> QED
  BY <1>4, SameCount DEF S

(* What update_team_wireguard_status makes of a row.                       *)
LEMMA FetchedRow ==
  ASSUME NEW x, NEW r \in Board!Row, NEW p \in [Board!Peers -> Board!Peer] \cup {Board!None}
  PROVE  /\ Board!update_team_wireguard_status(x, r, p) \in Board!Row
         /\ Shows(Board!update_team_wireguard_status(x, r, p), p)
<1> DEFINE N == Board!Cardinality({c \in Board!Peers : p[c] = "fresh"})
           V == Board!VulnboxStatus(r, p["vulnbox"])
           B == \E b \in Board!Boxes : p[b] = "fresh"
           E == r.ever \/ (~r.vulnbox /\ p["vulnbox"] = "fresh")
<1>1. N \in 0..Board!Cardinality(Board!Peers) /\ Board!Cardinality(Board!Peers) \in Nat
  BY ConnectionsFit, PeersCounted
<1>2. CASE p = Board!None
  <2>1. 0 \in 0..Board!Cardinality(Board!Peers)
    BY <1>1
  <2>2. [r EXCEPT !.boxes = FALSE, !.vulnbox = FALSE, !.count = 0] \in Board!Row
    BY <2>1 DEF Board!Row
  <2> QED
    BY <1>2, <2>2 DEF Board!update_team_wireguard_status, Shows
<1>3. CASE p # Board!None
  <2>1. V \in BOOLEAN /\ (V <=> p["vulnbox"] = "fresh")
    BY <1>3 DEF Board!VulnboxStatus, Board!IsConnected, Board!Row
  <2>2. E \in BOOLEAN /\ B \in BOOLEAN
    BY DEF Board!Row
  <2>3. Board!update_team_wireguard_status(x, r, p) = [vulnbox |-> V, ever |-> E, boxes |-> B, count |-> N]
    BY <1>3 DEF Board!update_team_wireguard_status, Board!IsConnected, Board!connection_count
  <2> HIDE DEF N, V, B, E
  <2>4. [vulnbox |-> V, ever |-> E, boxes |-> B, count |-> N] \in Board!Row
    BY <1>1, <2>1, <2>2 DEF Board!Row
  <2> QED
    BY <1>3, <2>1, <2>3, <2>4 DEF N, B, Shows
<1> QED
  BY <1>2, <1>3

(* What ends up in the table.                                              *)
LEMMA WrittenRow ==
  ASSUME NEW old \in Board!Row, NEW new \in Board!Row, NEW now \in Board!Row
  PROVE  Board!Written(old, new, now) \in Board!Row
<1> DEFINE w == Board!Written(old, new, now)
<1>1. DOMAIN w = {"vulnbox", "boxes", "count", "ever"} /\ w = [f \in DOMAIN w |-> w[f]]
      /\ \A f \in DOMAIN w : w[f] = new[f] \/ w[f] = now[f]
  BY BoardColumns DEF Board!Written
<1>2. w.vulnbox \in BOOLEAN /\ w.boxes \in BOOLEAN /\ w.ever \in BOOLEAN /\ w.count \in 0..Board!Cardinality(Board!Peers)
  BY <1>1 DEF Board!Row
<1> HIDE DEF w
<1>3. w = [vulnbox |-> w.vulnbox, boxes |-> w.boxes, count |-> w.count, ever |-> w.ever]
  BY <1>1
<1>4. w \in Board!Row
  BY <1>2, <1>3 DEF Board!Row
<1> QED
  BY <1>4 DEF w

(* If the row is still as it was loaded, it becomes the new one.           *)
LEMMA WrittenNew ==
  ASSUME NEW old \in Board!Row, NEW new \in Board!Row
  PROVE  Board!Written(old, new, old) = new
<1>1. DOMAIN old = DOMAIN new /\ new = [f \in DOMAIN new |-> new[f]]
  BY BoardColumns DEF Board!Row
<1>2. Board!Written(old, new, old) = [f \in DOMAIN new |-> new[f]]
  BY <1>1 DEF Board!Written
<1> QED
  BY <1>1, <1>2


-----------------------------------------------------------------------------
(* The rounds of the daemons.                                              *)

(* The daemons know nothing at first.                                      *)
LEMMA BoardStarts == Board!Init => BoardInv
<1> SUFFICES ASSUME Board!Init PROVE BoardInv
  OBVIOUS
<1>1. Board!NoRow \in Board!Row
  BY PeersCounted DEF Board!NoRow, Board!Row
<1>2. status \in BoardRows /\ [t \in BoardTeams |-> Board!NoRow] \in BoardRows
  BY <1>1 DEF Board!Init, BoardRows
<1>3. BoardTypes
  BY <1>2 DEF Board!Init, BoardTypes, Board!Idle, NetStates
<1>4. RoundInv
  BY DEF Board!Init, RoundInv
<1>5. OrderlyInv
  BY DEF Board!Init, OrderlyInv
<1> QED
  BY <1>3, <1>4, <1>5 DEF BoardInv

(* A round that did not see the last change of a row or a peer is not      *)
(* relied upon.                                                            *)
LEMMA BoardChanges ==
  ASSUME BoardInv,
         \/ \E t \in BoardTeams : Board!Interface(t) \/ Board!ResetStatus(t)
         \/ \E t \in BoardTeams, p \in Board!Peers, s \in Board!Peer : Board!PeerChanges(t, p, s)
  PROVE  BoardInv'
<1>1. /\ UNCHANGED <<mode, d, net, thr, queue>>
      /\ calm' = [calm EXCEPT !.rows = {}]
  BY DEF Board!Interface, Board!ResetStatus, Board!PeerChanges
<1>2. calm' \in [rows: SUBSET Board!Daemons, orders: BOOLEAN] /\ calm'.rows = {} /\ calm'.orders = calm.orders
  BY <1>1 DEF BoardInv, BoardTypes
<1>3. wg' \in [BoardTeams -> [Board!Peers -> Board!Peer] \cup {Board!None}] /\ status' \in BoardRows
  <2>1. ASSUME NEW t \in BoardTeams, Board!Interface(t)
        PROVE  <1>3!1 /\ <1>3!2
    <3>1. [p \in Board!Peers |-> "old"] \in [Board!Peers -> Board!Peer]
      BY DEF Board!Peer
    <3>2. PICK w \in [Board!Peers -> Board!Peer] \cup {Board!None} : wg' = [wg EXCEPT ![t] = w]
      BY <2>1, <3>1 DEF Board!Interface, BoardInv, BoardTypes
    <3> QED
      BY <2>1, <3>2 DEF Board!Interface, BoardInv, BoardTypes
  <2>2. ASSUME NEW t \in BoardTeams, NEW p \in Board!Peers, NEW s \in Board!Peer, Board!PeerChanges(t, p, s)
        PROVE  <1>3!1 /\ <1>3!2
    <3>1. wg[t] \in [Board!Peers -> Board!Peer]
      BY <2>2 DEF Board!PeerChanges, BoardInv, BoardTypes
    <3>2. [wg[t] EXCEPT ![p] = s] \in [Board!Peers -> Board!Peer]
      BY <3>1
    <3>3. wg' = [wg EXCEPT ![t] = [wg[t] EXCEPT ![p] = s]]
      BY <2>2 DEF Board!PeerChanges
    <3>4. wg' \in [BoardTeams -> [Board!Peers -> Board!Peer] \cup {Board!None}]
      BY <3>2, <3>3 DEF BoardInv, BoardTypes
    <3> QED
      BY <2>2, <3>4 DEF Board!PeerChanges, BoardInv, BoardTypes
  <2>3. ASSUME NEW t \in BoardTeams, Board!ResetStatus(t)
        PROVE  <1>3!1 /\ <1>3!2
    <3>1. PICK r \in Board!Row : r = status[t]
      BY DEF BoardInv, BoardTypes, BoardRows
    <3>2. [r EXCEPT !.vulnbox = FALSE, !.boxes = FALSE] \in Board!Row
      BY DEF Board!Row
    <3>3. status' = [status EXCEPT ![t] = [r EXCEPT !.vulnbox = FALSE, !.boxes = FALSE]]
      BY <2>3, <3>1 DEF Board!ResetStatus, BoardInv, BoardTypes, BoardRows
    <3>4. status' \in BoardRows
      BY <3>2, <3>3 DEF BoardInv, BoardTypes, BoardRows
    <3> QED
      BY <2>3, <3>4 DEF Board!ResetStatus, BoardInv, BoardTypes
  <2> QED
    BY <2>1, <2>2, <2>3
<1>4. BoardTypes'
  BY <1>1, <1>2, <1>3 DEF BoardInv, BoardTypes
<1>5. RoundInv'
  BY <1>2 DEF RoundInv
<1>6. OrderlyInv'
  BY <1>1, <1>2 DEF BoardInv, OrderlyInv
<1> QED
  BY <1>4, <1>5, <1>6 DEF BoardInv

(* A round begins with the rows of the table.                              *)
LEMMA BoardLoads ==
  ASSUME BoardInv, NEW x \in Board!Daemons, Board!Load(x)
  PROVE  BoardInv'
<1>1. UNCHANGED <<mode, wg, status, net, thr, queue>>
  BY DEF Board!Load
<1>2. d'[x] = [pc |-> "loaded", rows |-> status, open |-> thr.open] /\ \A y \in Board!Daemons \ {x} : d'[y] = d[y]
  BY DEF Board!Load, BoardInv, BoardTypes
<1>3. /\ calm' \in [rows: SUBSET Board!Daemons, orders: BOOLEAN]
      /\ calm'.rows = calm.rows \cup {x} /\ calm'.orders = calm.orders
  BY DEF Board!Load, BoardInv, BoardTypes
<1>4. BoardTypes'
  BY <1>1, <1>3 DEF Board!Load, BoardInv, BoardTypes
<1>5. RoundInv'
  <2> SUFFICES ASSUME NEW y \in calm'.rows
               PROVE  /\ d'[y].pc = "loaded" => d'[y].rows = status'
                      /\ d'[y].pc = "committed" /\ Board!ChecksWg(y)' => \A t \in BoardTeams : Shows(status[t], wg[t])'
    BY DEF RoundInv
  <2>1. CASE y = x
    BY <1>1, <1>2, <2>1
  <2>2. CASE y # x
    <3>1. y \in calm.rows /\ d'[y] = d[y]
      BY <1>2, <1>3, <2>2 DEF BoardInv, BoardTypes
    <3> QED
      BY <1>1, <3>1 DEF BoardInv, RoundInv, Board!ChecksWg
  <2> QED
    BY <2>1, <2>2
<1>6. OrderlyInv'
  BY <1>1, <1>3 DEF BoardInv, OrderlyInv
<1> QED
  BY <1>4, <1>5, <1>6 DEF BoardInv

(* The transaction of a round that nothing disturbed leaves the table as   *)
(* the interfaces are.                                                     *)
LEMMA BoardCommits ==
  ASSUME BoardInv, NEW x \in Board!Daemons, Board!Commit(x)
  PROVE  BoardInv'
<1>1. UNCHANGED <<mode, wg, net, thr, queue>>
  BY DEF Board!Commit
<1>2. PICK F : F = Board!Fetched(x)
  OBVIOUS
<1>3. ASSUME NEW t \in BoardTeams
      PROVE  /\ F[t] \in Board!Row
             /\ Board!ChecksWg(x) => Shows(F[t], wg[t])
  <2>1. PICK r \in Board!Row : r = d[x].rows[t]
    BY DEF BoardInv, BoardTypes, BoardRows
  <2>2. PICK p \in [Board!Peers -> Board!Peer] \cup {Board!None} : p = wg[t]
    BY DEF BoardInv, BoardTypes
  <2>3. F[t] = IF Board!ChecksWg(x) THEN Board!update_team_wireguard_status(x, r, p) ELSE r
    BY <1>2, <2>1, <2>2 DEF Board!Fetched
  <2> QED
    BY <2>1, <2>2, <2>3, FetchedRow
<1>4. F \in BoardRows
  BY <1>2, <1>3 DEF Board!Fetched, BoardRows
<1>5. \A t \in BoardTeams : status'[t] = Board!Written(d[x].rows[t], F[t], status[t])
  BY <1>2 DEF Board!Commit
<1>6. status' \in BoardRows
  <2>1. ASSUME NEW t \in BoardTeams PROVE Board!Written(d[x].rows[t], F[t], status[t]) \in Board!Row
    <3>1. PICK old \in Board!Row : old = d[x].rows[t]
      BY DEF BoardInv, BoardTypes, BoardRows
    <3>2. PICK new \in Board!Row : new = F[t]
      BY <1>3
    <3>3. PICK now \in Board!Row : now = status[t]
      BY DEF BoardInv, BoardTypes, BoardRows
    <3> QED
      BY <3>1, <3>2, <3>3, WrittenRow
  <2> QED
    BY <1>2, <2>1 DEF Board!Commit, BoardRows
<1>7. /\ d'[x].pc = "committed" /\ d'[x].rows = F /\ \A y \in Board!Daemons \ {x} : d'[y] = d[y]
      /\ d' \in [Board!Daemons -> [pc: {"idle", "loaded", "committed"}, rows: BoardRows, open: BOOLEAN]]
  BY <1>2, <1>4 DEF Board!Commit, BoardInv, BoardTypes
<1>8. /\ calm' \in [rows: SUBSET Board!Daemons, orders: BOOLEAN] /\ calm'.orders = calm.orders
      /\ calm'.rows \subseteq calm.rows
      /\ status' # status => calm'.rows \subseteq {x}
  BY DEF Board!Commit, BoardInv, BoardTypes
<1>9. BoardTypes'
  BY <1>1, <1>6, <1>7, <1>8 DEF BoardInv, BoardTypes
<1>10. RoundInv'
  <2> SUFFICES ASSUME NEW y \in calm'.rows
               PROVE  /\ d'[y].pc = "loaded" => d'[y].rows = status'
                      /\ d'[y].pc = "committed" /\ Board!ChecksWg(y)' => \A t \in BoardTeams : Shows(status[t], wg[t])'
    BY DEF RoundInv
  <2>1. CASE y = x
    <3>1. d[x].rows = status
      BY <1>8, <2>1 DEF Board!Commit, BoardInv, RoundInv
    <3>2. ASSUME NEW t \in BoardTeams PROVE status'[t] = F[t]
      <4>1. PICK old \in Board!Row : old = status[t]
        BY DEF BoardInv, BoardTypes, BoardRows
      <4>2. PICK new \in Board!Row : new = F[t]
        BY <1>3
      <4> QED
        BY <1>5, <3>1, <4>1, <4>2, WrittenNew
    <3>3. Board!ChecksWg(y)' => \A t \in BoardTeams : Shows(status[t], wg[t])'
      BY <1>1, <1>3, <2>1, <3>2 DEF Board!ChecksWg
    <3> QED
      BY <1>7, <2>1, <3>3
  <2>2. CASE y # x
    <3>1. y \in calm.rows /\ d'[y] = d[y] /\ status' = status
      BY <1>7, <1>8, <2>2 DEF BoardInv, BoardTypes
    <3> QED
      BY <1>1, <3>1 DEF BoardInv, RoundInv, Board!ChecksWg
  <2> QED
    BY <2>1, <2>2
<1>11. OrderlyInv'
  BY <1>1, <1>8 DEF BoardInv, OrderlyInv
<1> QED
  BY <1>9, <1>10, <1>11 DEF BoardInv

(* A round that ends or fails.                                             *)
LEMMA BoardEnds ==
  ASSUME BoardInv, NEW x \in Board!Daemons, Board!RoundFails(x) \/ Board!EndRound(x)
  PROVE  BoardInv'
<1>1. UNCHANGED <<mode, wg, status, net, thr, queue, calm>> /\ d' = [d EXCEPT ![x] = Board!Idle]
  BY DEF Board!RoundFails, Board!EndRound
<1>2. Board!NoRow \in Board!Row
  BY PeersCounted DEF Board!NoRow, Board!Row
<1>3. Board!Idle \in [pc: {"idle", "loaded", "committed"}, rows: BoardRows, open: BOOLEAN] /\ Board!Idle.pc = "idle"
  BY <1>2 DEF Board!Idle, BoardRows
<1>4. BoardTypes'
  BY <1>1, <1>3 DEF BoardInv, BoardTypes
<1>5. RoundInv'
  <2> SUFFICES ASSUME NEW y \in calm'.rows
               PROVE  /\ d'[y].pc = "loaded" => d'[y].rows = status'
                      /\ d'[y].pc = "committed" /\ Board!ChecksWg(y)' => \A t \in BoardTeams : Shows(status[t], wg[t])'
    BY DEF RoundInv
  <2>1. y \in Board!Daemons /\ (d'[y].pc = "idle" \/ d'[y] = d[y])
    BY <1>1, <1>3 DEF BoardInv, BoardTypes
  <2> QED
    BY <1>1, <2>1 DEF BoardInv, RoundInv, Board!ChecksWg
<1>6. OrderlyInv'
  BY <1>1 DEF BoardInv, OrderlyInv
<1> QED
  BY <1>4, <1>5, <1>6 DEF BoardInv


-----------------------------------------------------------------------------
(* What the thread of the daemon knows.                                    *)

(* The orders do not touch the rounds.                                     *)
LEMMA OrdersOnly ==
  ASSUME BoardInv, UNCHANGED <<mode, wg, status, d>>, calm'.rows = calm.rows
  PROVE  RoundInv'
  BY DEF BoardInv, RoundInv, Board!ChecksWg

(* The network is opened or closed.                                        *)
LEMMA BoardHearsState ==
  ASSUME BoardInv, NEW s \in {"off", "team", "on"}, Board!SetState(s)
  PROVE  BoardInv'
<1> DEFINE m == <<"state", s>>
<1>1. /\ UNCHANGED <<mode, wg, status, d, thr>>
      /\ net' = [net EXCEPT !.state = s]
      /\ queue' = IF thr.pc = "listen" THEN Append(queue, m) ELSE queue
  BY DEF Board!SetState, Board!Send
<1>2. /\ calm' \in [rows: SUBSET Board!Daemons, orders: BOOLEAN]
      /\ calm'.rows = calm.rows /\ (calm'.orders => calm.orders /\ thr.pc \in {"connect", "listen"})
  BY DEF Board!SetState, Board!Missed, BoardInv, BoardTypes
<1>3. m \in BoardMessage /\ m \in AboutState /\ (m \in SaysOpen <=> Board!Opened(s)) /\ \A t \in BoardTeams : m \notin AboutTeam(t)
  BY DEF BoardMessage, NetStates, AboutState, SaysOpen, AboutTeam, Board!Opened
<1>4. net' \in [state: NetStates, banned: SUBSET BoardTeams] /\ net'.state = s /\ net'.banned = net.banned
  BY <1>1 DEF BoardInv, BoardTypes, NetStates
<1> HIDE DEF m
<1>5. queue' \in Seq(BoardMessage) /\ (queue' # <<>> => thr.pc = "listen")
  BY <1>1, <1>3 DEF BoardInv, BoardTypes
<1>6. BoardTypes'
  BY <1>1, <1>2, <1>4, <1>5 DEF BoardInv, BoardTypes
<1>7. OrderlyInv'
  <2>1. CASE calm'.orders /\ thr.pc = "connect"
    BY <1>1, <1>2, <1>4, <2>1 DEF BoardInv, OrderlyInv
  <2>2. CASE calm'.orders /\ thr.pc = "listen"
    <3>1. PICK q \in Seq(BoardMessage) : q = queue
      BY DEF BoardInv, BoardTypes
    <3>2. Settled(Append(q, m), AboutState, SaysOpen, YesNo(thr.open), YesNo(Board!Opened(s)))
      <4>1. YesNo(Board!Opened(s)) = YesNo(m \in SaysOpen)
        BY <1>3 DEF YesNo
      <4>2. PICK c, w : c = YesNo(thr.open) /\ w = YesNo(Board!Opened(s))
        OBVIOUS
      <4>3. Settled(Append(q, m), AboutState, SaysOpen, c, w)
        BY <1>3, <4>1, <4>2, SettledAppend
      <4> QED
        BY <4>2, <4>3
    <3>3. ASSUME NEW t \in BoardTeams
          PROVE  Settled(Append(q, m), AboutTeam(t), {<<"ban", t>>}, YesNo(t \in thr.banned), YesNo(t \in net.banned))
      <4>1. PICK c, w : c = YesNo(t \in thr.banned) /\ w = YesNo(t \in net.banned)
        OBVIOUS
      <4>2. Settled(q, AboutTeam(t), {<<"ban", t>>}, c, w)
        BY <1>2, <2>2, <3>1, <4>1 DEF BoardInv, OrderlyInv
      <4>3. Settled(Append(q, m), AboutTeam(t), {<<"ban", t>>}, c, w)
        BY <1>3, <4>2, SettledAppend
      <4> QED
        BY <4>1, <4>3
    <3> QED
      BY <1>1, <1>4, <2>2, <3>1, <3>2, <3>3 DEF OrderlyInv
  <2> QED
    BY <1>2, <2>1, <2>2 DEF OrderlyInv
<1> QED
  BY <1>1, <1>2, <1>6, <1>7, OrdersOnly DEF BoardInv

(* A team is banned or its ban ends.                                       *)
LEMMA BoardHearsBan ==
  ASSUME BoardInv, NEW t \in BoardTeams, Board!SetBan(t)
  PROVE  BoardInv'
<1>1. PICK m : m = <<IF t \in net.banned THEN "unban" ELSE "ban", t>>
  OBVIOUS
<1>2. /\ UNCHANGED <<mode, wg, status, d, thr>>
      /\ net' = [net EXCEPT !.banned = IF t \in net.banned THEN net.banned \ {t} ELSE net.banned \cup {t}]
      /\ queue' = IF thr.pc = "listen" THEN Append(queue, m) ELSE queue
  BY <1>1 DEF Board!SetBan, Board!Send
<1>3. /\ calm' \in [rows: SUBSET Board!Daemons, orders: BOOLEAN]
      /\ calm'.rows = calm.rows
      /\ calm'.orders => calm.orders /\ (thr.pc = "listen" \/ (thr.pc = "connect" /\ t \notin net.banned))
  BY DEF Board!SetBan, Board!Missed, BoardInv, BoardTypes
<1>4. /\ m \in BoardMessage /\ m \notin AboutState /\ m \in AboutTeam(t)
      /\ m = <<"ban", t>> <=> t \notin net.banned
      /\ \A u \in BoardTeams \ {t} : m \notin AboutTeam(u)
  BY <1>1 DEF BoardMessage, AboutState, AboutTeam
<1>5. /\ net' \in [state: NetStates, banned: SUBSET BoardTeams] /\ net'.state = net.state
      /\ t \in net'.banned <=> t \notin net.banned
      /\ \A u \in BoardTeams \ {t} : u \in net'.banned <=> u \in net.banned
      /\ t \notin net.banned => net.banned \subseteq net'.banned
  BY <1>2 DEF BoardInv, BoardTypes
<1>6. queue' \in Seq(BoardMessage) /\ (queue' # <<>> => thr.pc = "listen")
  BY <1>2, <1>4 DEF BoardInv, BoardTypes
<1>7. BoardTypes'
  BY <1>2, <1>3, <1>5, <1>6 DEF BoardInv, BoardTypes
<1>8. OrderlyInv'
  <2>1. CASE calm'.orders /\ thr.pc = "connect"
    BY <1>2, <1>3, <1>5, <2>1 DEF BoardInv, OrderlyInv
  <2>2. CASE calm'.orders /\ thr.pc = "listen"
    <3>1. PICK q \in Seq(BoardMessage) : q = queue
      BY DEF BoardInv, BoardTypes
    <3>2. Settled(Append(q, m), AboutState, SaysOpen, YesNo(thr.open), YesNo(Board!Opened(net.state)))
      <4>1. PICK c, w : c = YesNo(thr.open) /\ w = YesNo(Board!Opened(net.state))
        OBVIOUS
      <4>2. Settled(q, AboutState, SaysOpen, c, w)
        BY <1>3, <2>2, <3>1, <4>1 DEF BoardInv, OrderlyInv
      <4>3. Settled(Append(q, m), AboutState, SaysOpen, c, w)
        BY <1>4, <4>2, SettledAppend
      <4> QED
        BY <4>1, <4>3
    <3>3. ASSUME NEW u \in BoardTeams
          PROVE  Settled(Append(q, m), AboutTeam(u), {<<"ban", u>>}, YesNo(u \in thr.banned), YesNo(u \in net.banned)')
      <4>1. PICK c, v : c = YesNo(u \in thr.banned) /\ v = YesNo(u \in net.banned)
        OBVIOUS
      <4>2. PICK w : w = YesNo(u \in net.banned)'
        OBVIOUS
      <4>3. Settled(q, AboutTeam(u), {<<"ban", u>>}, c, v)
        BY <1>3, <2>2, <3>1, <4>1 DEF BoardInv, OrderlyInv
      <4>4. m \in AboutTeam(u) => w = YesNo(m \in {<<"ban", u>>})
        BY <1>4, <1>5, <4>2 DEF YesNo
      <4>5. m \notin AboutTeam(u) => w = v
        BY <1>4, <1>5, <4>1, <4>2 DEF YesNo
      <4>6. Settled(Append(q, m), AboutTeam(u), {<<"ban", u>>}, c, w)
        BY <1>4, <4>3, <4>4, <4>5, SettledAppend
      <4> QED
        BY <4>1, <4>2, <4>6
    <3> QED
      BY <1>2, <1>5, <2>2, <3>1, <3>2, <3>3 DEF OrderlyInv
  <2> QED
    BY <1>3, <2>1, <2>2 DEF OrderlyInv
<1> QED
  BY <1>2, <1>3, <1>7, <1>8, OrdersOnly DEF BoardInv

(* The thread connects.                                                    *)
LEMMA BoardConnects ==
  ASSUME BoardInv, Board!WatchRedis \/ Board!Subscribe
  PROVE  BoardInv'
<1>1. UNCHANGED <<mode, wg, status, d, queue, calm>> /\ queue = <<>>
  BY DEF Board!WatchRedis, Board!Subscribe, BoardInv, BoardTypes
<1>2. BoardTypes'
  <2>1. net' \in [state: NetStates, banned: SUBSET BoardTeams]
    BY DEF Board!WatchRedis, Board!Subscribe, BoardInv, BoardTypes, NetStates
  <2>2. Board!Opened(net.state) \in BOOLEAN
    BY DEF Board!Opened
  <2>3. thr' \in [pc: {"connect", "subscribe", "listen"}, open: BOOLEAN, banned: SUBSET BoardTeams]
    BY <2>2 DEF Board!WatchRedis, Board!Subscribe, BoardInv, BoardTypes
  <2> QED
    BY <1>1, <2>1, <2>3 DEF BoardInv, BoardTypes
<1>3. OrderlyInv'
  <2>1. CASE Board!WatchRedis
    <3>1. thr'.pc = "subscribe" /\ thr'.open = Board!Opened(net.state) /\ thr'.banned = thr.banned \cup net.banned
      BY <2>1 DEF Board!WatchRedis
    <3>2. net'.banned = net.banned /\ Board!Opened(net'.state) = Board!Opened(net.state)
      BY <2>1 DEF Board!WatchRedis, Board!Opened, BoardInv, BoardTypes
    <3>3. calm.orders => thr.banned \subseteq net.banned
      BY <2>1 DEF Board!WatchRedis, BoardInv, OrderlyInv
    <3>4. calm.orders => thr'.banned = net'.banned
      BY <3>1, <3>2, <3>3
    <3>5. thr'.open = Board!Opened(net'.state)
      BY <3>1, <3>2
    <3> QED
      BY <1>1, <3>1, <3>4, <3>5 DEF OrderlyInv
  <2>2. CASE Board!Subscribe
    <3>1. thr'.pc = "listen" /\ thr'.open = thr.open /\ thr'.banned = thr.banned /\ net' = net /\ queue' = <<>>
      BY <1>1, <2>2 DEF Board!Subscribe, BoardInv, BoardTypes
    <3>2. calm.orders => thr.open = Board!Opened(net.state) /\ thr.banned = net.banned
      BY <2>2 DEF Board!Subscribe, BoardInv, OrderlyInv
    <3>3. Len(<<>>) = 0 /\ \A i \in 1..0 : FALSE
      OBVIOUS
    <3>4. \A K, P, c : Settled(<<>>, K, P, c, c)
      BY <3>3 DEF Settled
    <3>5. calm.orders => Settled(queue', AboutState, SaysOpen, YesNo(thr'.open), YesNo(Board!Opened(net'.state)))
      BY <3>1, <3>2, <3>4
    <3>6. calm.orders => \A t \in BoardTeams :
            Settled(queue', AboutTeam(t), {<<"ban", t>>}, YesNo(t \in thr'.banned), YesNo(t \in net'.banned))
      BY <3>1, <3>2, <3>4
    <3> QED
      BY <1>1, <3>1, <3>5, <3>6 DEF OrderlyInv
  <2> QED
    BY <2>1, <2>2
<1> QED
  BY <1>1, <1>2, <1>3, OrdersOnly DEF BoardInv

(* The thread hears a message.                                             *)
LEMMA BoardHears ==
  ASSUME BoardInv, Board!Hear
  PROVE  BoardInv'
<1>1. PICK q \in Seq(BoardMessage) : q = queue /\ q # <<>>
  BY DEF Board!Hear, BoardInv, BoardTypes
<1>2. PICK m \in BoardMessage : m = Head(q)
  BY <1>1
<1>3. /\ UNCHANGED <<mode, wg, status, d, net, calm>> /\ queue' = Tail(q) /\ thr' = Board!OnMessage(m)
      /\ thr.pc = "listen"
  BY <1>1, <1>2 DEF Board!Hear, BoardInv, BoardTypes
<1>4. /\ thr' \in [pc: {"connect", "subscribe", "listen"}, open: BOOLEAN, banned: SUBSET BoardTeams]
      /\ thr'.pc = "listen"
      /\ m \in AboutState => (thr'.open <=> m \in SaysOpen)
      /\ m \notin AboutState => thr'.open = thr.open
      /\ \A t \in BoardTeams : m \in AboutTeam(t) => (t \in thr'.banned <=> m = <<"ban", t>>)
      /\ \A t \in BoardTeams : m \notin AboutTeam(t) => (t \in thr'.banned <=> t \in thr.banned)
  <2>1. CASE m \in {"state"} \X NetStates
    <3>1. PICK s \in NetStates : m = <<"state", s>>
      BY <2>1
    <3>2. thr' = [thr EXCEPT !.open = Board!Opened(s)]
      BY <1>3, <3>1 DEF Board!OnMessage
    <3>3. Board!Opened(s) \in BOOLEAN /\ (Board!Opened(s) <=> m \in SaysOpen) /\ \A t \in BoardTeams : m \notin AboutTeam(t)
      BY <3>1 DEF Board!Opened, SaysOpen, AboutTeam
    <3> QED
      BY <1>3, <2>1, <3>2, <3>3 DEF BoardInv, BoardTypes, AboutState
  <2>2. CASE m \in {"ban", "unban"} \X BoardTeams
    <3>1. PICK k \in {"ban", "unban"}, u \in BoardTeams : m = <<k, u>>
      BY <2>2
    <3>2. thr' = [thr EXCEPT !.banned = IF k = "ban" THEN thr.banned \cup {u} ELSE thr.banned \ {u}]
      BY <1>3, <3>1 DEF Board!OnMessage
    <3>3. m \notin AboutState /\ m \in AboutTeam(u) /\ (\A t \in BoardTeams \ {u} : m \notin AboutTeam(t))
          /\ (m = <<"ban", u>> <=> k = "ban")
      BY <3>1 DEF AboutState, AboutTeam
    <3> QED
      BY <1>3, <3>2, <3>3 DEF BoardInv, BoardTypes
  <2> QED
    BY <2>1, <2>2 DEF BoardMessage
<1>5. BoardTypes'
  BY <1>1, <1>3, <1>4 DEF BoardInv, BoardTypes
<1>6. ASSUME calm.orders
      PROVE  Settled(queue', AboutState, SaysOpen, YesNo(thr.open)', YesNo(Board!Opened(net.state)))
  <2>1. PICK c, v : c = YesNo(thr.open) /\ v = YesNo(Board!Opened(net.state))
    OBVIOUS
  <2>2. PICK e : e = YesNo(thr.open)'
    OBVIOUS
  <2>3. Settled(q, AboutState, SaysOpen, c, v)
    BY <1>1, <1>3, <1>6, <2>1 DEF BoardInv, OrderlyInv
  <2>4. (m \in AboutState => e = YesNo(m \in SaysOpen)) /\ (m \notin AboutState => e = c)
    BY <1>4, <2>1, <2>2 DEF YesNo
  <2>5. Settled(Tail(q), AboutState, SaysOpen, e, v)
    BY <1>1, <1>2, <2>3, <2>4, SettledHear
  <2> QED
    BY <1>3, <2>1, <2>2, <2>5
<1>7. ASSUME calm.orders, NEW t \in BoardTeams
      PROVE  Settled(queue', AboutTeam(t), {<<"ban", t>>}, YesNo(t \in thr.banned)', YesNo(t \in net.banned))
  <2>1. PICK c, v : c = YesNo(t \in thr.banned) /\ v = YesNo(t \in net.banned)
    OBVIOUS
  <2>2. PICK e : e = YesNo(t \in thr.banned)'
    OBVIOUS
  <2>3. Settled(q, AboutTeam(t), {<<"ban", t>>}, c, v)
    BY <1>1, <1>3, <1>7, <2>1 DEF BoardInv, OrderlyInv
  <2>4. (m \in AboutTeam(t) => e = YesNo(m \in {<<"ban", t>>})) /\ (m \notin AboutTeam(t) => e = c)
    BY <1>4, <2>1, <2>2 DEF YesNo
  <2>5. Settled(Tail(q), AboutTeam(t), {<<"ban", t>>}, e, v)
    BY <1>1, <1>2, <2>3, <2>4, SettledHear
  <2> QED
    BY <1>3, <2>1, <2>2, <2>5
<1>8. OrderlyInv'
  BY <1>3, <1>4, <1>6, <1>7 DEF OrderlyInv
<1> QED
  BY <1>3, <1>5, <1>8, OrdersOnly DEF BoardInv

(* The connection is lost and with it the messages on their way.           *)
LEMMA BoardLosesRedis ==
  ASSUME BoardInv, Board!LoseRedis
  PROVE  BoardInv'
<1>1. UNCHANGED <<mode, wg, status, d, net>> /\ queue' = <<>> /\ thr' = [thr EXCEPT !.pc = "connect"] /\ thr.pc # "connect"
  BY DEF Board!LoseRedis
<1>2. /\ calm' \in [rows: SUBSET Board!Daemons, orders: BOOLEAN] /\ calm'.rows = calm.rows
      /\ calm'.orders => calm.orders /\ \A i \in DOMAIN queue : queue[i][1] # "unban"
  BY DEF Board!LoseRedis, BoardInv, BoardTypes
<1>3. BoardTypes'
  <2>1. thr' \in [pc: {"connect", "subscribe", "listen"}, open: BOOLEAN, banned: SUBSET BoardTeams]
    BY <1>1 DEF BoardInv, BoardTypes
  <2>2. queue' \in Seq(BoardMessage)
    BY <1>1
  <2> QED
    BY <1>1, <1>2, <2>1, <2>2 DEF BoardInv, BoardTypes
<1>4. ASSUME calm'.orders, NEW t \in thr.banned PROVE t \in net.banned
  <2>1. CASE thr.pc = "subscribe"
    BY <1>2, <1>4, <2>1 DEF BoardInv, OrderlyInv
  <2>2. CASE thr.pc = "listen"
    <3>1. t \in BoardTeams
      BY DEF BoardInv, BoardTypes
    <3>2. PICK q \in Seq(BoardMessage) : q = queue
      BY DEF BoardInv, BoardTypes
    <3>3. PICK c, v : c = YesNo(t \in thr.banned) /\ v = YesNo(t \in net.banned)
      OBVIOUS
    <3>4. Settled(q, AboutTeam(t), {<<"ban", t>>}, c, v)
      BY <1>2, <1>4, <2>2, <3>1, <3>2, <3>3 DEF BoardInv, OrderlyInv
    <3>5. \A i \in 1..Len(q) : q[i] # <<"unban", t>>
      <4>1. \A i \in 1..Len(q) : i \in DOMAIN q
        OBVIOUS
      <4> QED
        BY <1>2, <1>4, <3>2, <4>1
    <3>6. v = "yes"
      BY <1>4, <3>3, <3>4, <3>5 DEF Settled, YesNo, AboutTeam
    <3> QED
      BY <3>3, <3>6 DEF YesNo
  <2> QED
    BY <1>1, <2>1, <2>2 DEF BoardInv, BoardTypes
<1>5. thr'.pc = "connect" /\ thr'.banned = thr.banned
  BY <1>1 DEF BoardInv, BoardTypes
<1>6. OrderlyInv'
  BY <1>1, <1>4, <1>5 DEF OrderlyInv
<1> QED
  BY <1>1, <1>2, <1>3, <1>6, OrdersOnly DEF BoardInv

(* Every step keeps BoardInv.                                              *)
LEMMA BoardStep ==
  ASSUME BoardInv, [Board!Next]_Board!vars
  PROVE  BoardInv'
<1>1. CASE UNCHANGED Board!vars
  <2>1. UNCHANGED <<mode, wg, status, d, net, thr, queue, calm>>
    BY <1>1 DEF Board!vars
  <2>2. BoardTypes' /\ RoundInv' /\ OrderlyInv'
    BY <2>1 DEF BoardInv, BoardTypes, RoundInv, OrderlyInv, Board!ChecksWg
  <2> QED
    BY <2>2 DEF BoardInv
<1>2. CASE Board!Next
  BY <1>2, BoardChanges, BoardLoads, BoardCommits, BoardEnds, BoardHearsState, BoardHearsBan, BoardConnects, BoardHears,
     BoardLosesRedis DEF Board!Next
<1> QED
  BY <1>1, <1>2

(* What the board is made from is right.                                   *)
LEMMA BoardInvSays == BoardInv => Board!TypeOK /\ Board!BoardFollows
<1> SUFFICES ASSUME BoardInv PROVE Board!TypeOK /\ Board!BoardFollows
  OBVIOUS
<1>1. Board!TypeOK
  BY DEF BoardInv, BoardTypes, BoardRows, Board!TypeOK
<1>2. Board!StatusSettles
  BY DEF BoardInv, RoundInv, Shows, Board!StatusSettles
<1>3. Board!OrdersKnown
  <2> SUFFICES ASSUME thr.pc = "listen", queue = <<>>, calm.orders
               PROVE  thr.open = Board!Opened(net.state) /\ thr.banned = net.banned
    BY DEF Board!OrdersKnown
  <2>1. Len(queue) = 0 /\ \A i \in 1..0 : FALSE
    OBVIOUS
  <2>2. YesNo(thr.open) = YesNo(Board!Opened(net.state))
    BY <2>1 DEF BoardInv, OrderlyInv, Settled
  <2>3. thr.open \in BOOLEAN /\ Board!Opened(net.state) \in BOOLEAN
    BY DEF BoardInv, BoardTypes, Board!Opened
  <2>4. \A t \in BoardTeams : YesNo(t \in thr.banned) = YesNo(t \in net.banned)
    BY <2>1 DEF BoardInv, OrderlyInv, Settled
  <2>5. \A t \in BoardTeams : t \in thr.banned <=> t \in net.banned
    BY <2>4 DEF YesNo
  <2>6. thr.banned \subseteq BoardTeams /\ net.banned \subseteq BoardTeams
    BY DEF BoardInv, BoardTypes
  <2> QED
    BY <2>2, <2>3, <2>5, <2>6 DEF YesNo
<1> QED
  BY <1>1, <1>2, <1>3 DEF Board!BoardFollows

(* The component by itself.                                               *)
LEMMA BoardAlone == Board!Spec => [](Board!TypeOK /\ Board!BoardFollows)
<1>1. Board!Spec => []BoardInv
  BY BoardStarts, BoardStep, PTL DEF Board!Spec
<1> QED
  BY <1>1, BoardInvSays, PTL

(* What the VPN board is made from is right for any number of teams: after *)
(* an undisturbed round the table has the status of every interface, and   *)
(* the thread that heard every message knows the network's state and the   *)
(* bans, also after lost connections (vpn_status_daemon.py).               *)
THEOREM BoardCorrect == Spec => []BoardFollows
<1> DEFINE Chosen == component = "vpn board"
<1>1. Board!Spec => [](Board!TypeOK /\ Board!BoardFollows)
  BY BoardAlone, ToolsAssumption
<1>2. Init /\ Chosen => Board!Init
  BY DEF Init
<1>3. Chosen /\ [Next]_tools => Chosen' /\ [Board!Next]_(Board!vars)
  BY OneComponent DEF Next, tools, Board!vars
<1>4. ~Chosen /\ [Next]_tools => ~Chosen'
  BY OneComponent
<1> QED
  BY <1>1, <1>2, <1>3, <1>4, PTL DEF Spec, Board!Spec, BoardFollows

-----------------------------------------------------------------------------
(* The clock that is rebuilt from the table of ticks.                      *)

(* The names of its variables.                                              *)
game == v1
clock == v2
ticks == v3
threads == v4
errors == v5
losses == v6
begun == v7
done == v8
again == v9
excused == v10
outlived == v11
USE DEF game, clock, ticks, threads, errors, losses, begun, done, again,
        excused, outlived

Instants == Nat \cup {Rec!NULL}
Writes == [tick: Rec!Ticks, field: {"start", "end"}, ts: Nat, failed: Nat]

ClockTypes ==
  /\ game \in [state: {"RUNNING", "STOPPED", "SUSPENDED", "lost"}, tick: 0..MaxTick, time: Int]
  /\ game.state = "RUNNING" => game.tick \in Rec!Ticks
  /\ clock \in Nat
  /\ ticks \in [Rec!Ticks -> [start: Instants, end: Instants]]
  /\ threads \subseteq Writes
  /\ begun \subseteq Rec!Ticks /\ done \subseteq Rec!Ticks
  /\ outlived \in BOOLEAN

(* An instant that is in the table or about to be written there.           *)
Holds(n, f, v) ==
  \/ v # Rec!NULL /\ ticks[n][f] = v
  \/ \E w \in threads : w.tick = n /\ w.field = f /\ w.ts = v

(* What ended is a beginning of the game; what the table has, happened;    *)
(* and what comes again is excused.                                        *)
OrderInv ==
  /\ \A n \in done : 1..n \subseteq done
  /\ 1..(game.tick - 1) \subseteq done
  /\ game.state \in {"STOPPED", "SUSPENDED"} => 1..game.tick \subseteq done
  /\ \A n \in Rec!Ticks, v \in Nat : Holds(n, "end", v) => n \in done
  /\ \A n \in Rec!Ticks, v \in Nat : Holds(n, "start", v) => n \in begun
  /\ game.state # "lost" => \A n \in begun : n > game.tick => n \in excused
  /\ again \subseteq excused
  /\ done \subseteq begun /\ (game.state = "RUNNING" => game.tick \in begun)

(* Until a tick is played again, the instants of a tick are a tick time    *)
(* apart.                                                                  *)
TimeInv ==
  /\ game.time = TickTime
  /\ \A n \in Rec!Ticks, s \in Nat, e \in Nat :
       Holds(n, "start", s) /\ Holds(n, "end", e) => e - s \in TickTime..(TickTime + 2)
  /\ game.state = "RUNNING" =>
       /\ game.tick \notin done
       /\ \A s \in Nat : Holds(game.tick, "start", s) => s = clock

ClockInv == ClockTypes /\ (~outlived => OrderInv /\ (again = {} => TimeInv))

(* A set of ticks has a last one.                                          *)
LEMMA LastTick ==
  ASSUME MaxTick \in Nat, NEW S \in SUBSET (1..MaxTick), S # {}
  PROVE  Rec!Max(S) \in S /\ \A n \in S : n <= Rec!Max(S)
<1> DEFINE T == {MaxTick - n : n \in S}
           R == OpToRel(<, Nat)
<1>1. T \subseteq Nat /\ T # {}
  <2>1. \A n \in S : MaxTick - n \in Nat
    OBVIOUS
  <2>2. PICK n \in S : TRUE
    OBVIOUS
  <2>3. MaxTick - n \in T
    OBVIOUS
  <2> QED
    BY <2>1, <2>3
<1>2. IsWellFoundedOn(R, Nat)
  BY NatLessThanWellFounded
<1>3. \A x \in Nat, y \in Nat : y < x => <<y, x>> \in R
  BY DEF OpToRel
<1> HIDE DEF T, R
<1>4. PICK x \in T : \A y \in T : ~(<<y, x>> \in R)
  BY <1>1, <1>2, WFMin
<1>5. \A y \in T : ~(y < x)
  BY <1>1, <1>3, <1>4
<1>6. PICK m \in S : x = MaxTick - m
  BY <1>4 DEF T
<1>7. \A n \in S : MaxTick - n \in T
  BY DEF T
<1>8. \A n \in S : m >= n
  BY <1>5, <1>6, <1>7
<1>9. Rec!Max(S) \in S /\ \A n \in S : Rec!Max(S) >= n
  BY <1>8 DEF Rec!Max
<1> QED
  BY <1>9

(* The estimate is right.                                                  *)
LEMMA EstimateRight ==
  ASSUME RegularTicks, NEW s \in Nat, NEW e \in Nat, e - s \in TickTime..(TickTime + 2)
  PROVE  ((e - s + 2) \div 5) * 5 = TickTime
  BY DEF RegularTicks

(* What the next thread to begin will write.                               *)
LEMMA HoldsMore ==
  ASSUME ClockTypes, NEW S \in SUBSET Writes, threads' = threads \cup S, ticks' = ticks,
         NEW n, NEW f, NEW v, Holds(n, f, v)'
  PROVE  Holds(n, f, v) \/ \E w \in S : w.tick = n /\ w.field = f /\ w.ts = v
  BY DEF Holds

(* Steps that change neither the clock nor its history.                    *)
LEMMA HoldsLess ==
  ASSUME ClockInv, ClockTypes', UNCHANGED <<clock, begun, done, again, excused, outlived>>,
         \/ UNCHANGED game
         \/ game' = [game EXCEPT !.state = "lost"],
         \A n \in Rec!Ticks, f \in {"start", "end"}, v \in Nat : Holds(n, f, v)' => Holds(n, f, v)
  PROVE  ClockInv'
<1>1. game'.tick = game.tick /\ game'.time = game.time /\ game'.state \in {game.state, "lost"}
  BY DEF ClockInv, ClockTypes
<1> SUFFICES ASSUME ~outlived' PROVE OrderInv' /\ ((again = {})' => TimeInv')
  BY DEF ClockInv
<1>2. OrderInv
  BY DEF ClockInv
<1>3. OrderInv'
  BY <1>1, <1>2 DEF OrderInv
<1>4. ASSUME again = {} PROVE TimeInv'
  <2>1. TimeInv
    BY <1>4 DEF ClockInv
  <2>2. game.state = "RUNNING" => game.tick \in Rec!Ticks
    BY DEF ClockInv, ClockTypes
  <2> QED
    BY <1>1, <2>1, <2>2 DEF TimeInv
<1> QED
  BY <1>3, <1>4

(* A write ends.                                                           *)
LEMMA ClockWrites ==
  ASSUME ClockInv, NEW w \in threads, Rec!Write(w) \/ Rec!WriteFails(w)
  PROVE  ClockInv'
<1>1. UNCHANGED <<game, clock, begun, done, again, excused, outlived>> /\ w \in Writes
  BY DEF Rec!Write, Rec!WriteFails, ClockInv, ClockTypes
<1>2. CASE Rec!Write(w)
  <2>1. ticks' = [ticks EXCEPT ![w.tick] = [ticks[w.tick] EXCEPT ![w.field] = w.ts]] /\ threads' = threads \ {w}
    BY <1>2 DEF Rec!Write, Rec!_set
  <2>2. w.tick \in Rec!Ticks /\ w.field \in {"start", "end"} /\ w.ts \in Nat
    BY <1>1 DEF Writes
  <2>3. ticks[w.tick] \in [start: Instants, end: Instants]
    BY <2>2 DEF ClockInv, ClockTypes
  <2>4. [ticks[w.tick] EXCEPT ![w.field] = w.ts] \in [start: Instants, end: Instants]
    BY <2>2, <2>3 DEF Instants
  <2>5. ticks' \in [Rec!Ticks -> [start: Instants, end: Instants]]
    BY <2>1, <2>4 DEF ClockInv, ClockTypes
  <2>6. ClockTypes'
    BY <1>1, <2>1, <2>5 DEF ClockInv, ClockTypes
  <2>7. ASSUME NEW n \in Rec!Ticks, NEW f \in {"start", "end"}, NEW v \in Nat, Holds(n, f, v)'
        PROVE  Holds(n, f, v)
    <3>1. CASE ticks'[n][f] = v
      <4>1. CASE n = w.tick /\ f = w.field
        <5>1. v = w.ts
          BY <2>1, <2>2, <2>3, <3>1, <4>1 DEF ClockInv, ClockTypes
        <5> QED
          BY <4>1, <5>1 DEF Holds
      <4>2. CASE ~(n = w.tick /\ f = w.field)
        <5>1. ticks[n][f] = v
          BY <2>1, <2>2, <2>3, <3>1, <4>2 DEF ClockInv, ClockTypes
        <5>2. v # Rec!NULL
          BY DEF Rec!NULL
        <5> QED
          BY <5>1, <5>2 DEF Holds
      <4> QED
        BY <4>1, <4>2
    <3>2. CASE \E x \in threads' : x.tick = n /\ x.field = f /\ x.ts = v
      BY <2>1, <3>2 DEF Holds
    <3> QED
      BY <2>7, <3>1, <3>2 DEF Holds
  <2> QED
    BY <1>1, <2>6, <2>7, HoldsLess
<1>3. CASE Rec!WriteFails(w)
  <2>1. ticks' = ticks
    BY <1>3 DEF Rec!WriteFails
  <2>2. PICK x : x = [w EXCEPT !.failed = w.failed + 1]
    OBVIOUS
  <2>3. x \in Writes /\ x.tick = w.tick /\ x.field = w.field /\ x.ts = w.ts
    BY <1>1, <2>2 DEF Writes
  <2>4. threads' \subseteq threads \cup {x}
    BY <1>3, <2>2 DEF Rec!WriteFails
  <2>5. ClockTypes'
    BY <1>1, <2>1, <2>3, <2>4 DEF ClockInv, ClockTypes
  <2>6. ASSUME NEW n \in Rec!Ticks, NEW f \in {"start", "end"}, NEW v \in Nat, Holds(n, f, v)'
        PROVE  Holds(n, f, v)
    BY <2>1, <2>3, <2>4, <2>6 DEF Holds
  <2> QED
    BY <1>1, <2>5, <2>6, HoldsLess
<1> QED
  BY <1>2, <1>3

(* Redis loses its data.                                                   *)
LEMMA ClockLost ==
  ASSUME ClockInv, NEW kill, Rec!LoseRedis(kill)
  PROVE  ClockInv'
<1>1. /\ UNCHANGED <<clock, ticks, begun, done, again, excused, outlived>>
      /\ game' = [game EXCEPT !.state = "lost"] /\ threads' \subseteq threads
  BY DEF Rec!LoseRedis
<1>2. ClockTypes'
  BY <1>1 DEF ClockInv, ClockTypes
<1>3. \A n \in Rec!Ticks, f \in {"start", "end"}, v \in Nat : Holds(n, f, v)' => Holds(n, f, v)
  BY <1>1 DEF Holds
<1> QED
  BY <1>1, <1>2, <1>3, HoldsLess

(* Nothing has happened before the game, and nothing is left of it after a *)
(* reset that nothing outlived.                                            *)
LEMMA ClockFresh ==
  ASSUME RegularTicks
  PROVE  Rec!Init => ClockInv
<1> SUFFICES ASSUME Rec!Init PROVE ClockInv
  OBVIOUS
<1>1. ClockTypes
  <2>1. game \in [state: {"RUNNING", "STOPPED", "SUSPENDED", "lost"}, tick: 0..MaxTick, time: Int] /\ game.state = "STOPPED"
    BY DEF Rec!Init, Rec!Stopped, RegularTicks
  <2>2. ticks \in [Rec!Ticks -> [start: Instants, end: Instants]]
    BY DEF Rec!Init, Rec!Empty, Instants
  <2> QED
    BY <2>1, <2>2 DEF Rec!Init, ClockTypes
<1>2. \A n \in Rec!Ticks, f \in {"start", "end"}, v \in Nat : ~Holds(n, f, v)
  BY DEF Rec!Init, Holds, Rec!Empty, Rec!NULL
<1>3. game.tick = 0 /\ game.state = "STOPPED" /\ game.time = TickTime
  BY DEF Rec!Init, Rec!Stopped
<1>4. OrderInv
  BY <1>2, <1>3 DEF Rec!Init, OrderInv, RegularTicks
<1>5. TimeInv
  BY <1>2, <1>3 DEF TimeInv
<1> QED
  BY <1>1, <1>4, <1>5 DEF ClockInv

(* Resetting the game clears ticks and history alike.                      *)
LEMMA ClockReset ==
  ASSUME RegularTicks, ClockInv, Rec!reset_ctf
  PROVE  ClockInv'
<1>1. /\ game' = Rec!Stopped /\ ticks' = Rec!Empty /\ clock' = clock /\ threads' = threads
      /\ begun' = {} /\ done' = {} /\ again' = {} /\ excused' = {} /\ outlived' = (outlived \/ threads # {})
  BY DEF Rec!reset_ctf
<1>2. ClockTypes'
  BY <1>1 DEF ClockInv, ClockTypes, Rec!Stopped, Rec!Empty, Instants, RegularTicks
<1>3. game'.tick = 0 /\ game'.state = "STOPPED" /\ game'.time = TickTime
  BY <1>1 DEF Rec!Stopped
<1> SUFFICES ASSUME ~outlived' PROVE OrderInv' /\ TimeInv'
  BY <1>2 DEF ClockInv
<1>4. \A n \in Rec!Ticks, f \in {"start", "end"}, v \in Nat : ~Holds(n, f, v)'
  <2>1. threads' = {}
    BY <1>1
  <2>2. \A n \in Rec!Ticks, f \in {"start", "end"} : ticks'[n][f] = Rec!NULL
    BY <1>1 DEF Rec!Empty
  <2> QED
    BY <2>1, <2>2 DEF Holds
<1>5. OrderInv'
  BY <1>1, <1>3, <1>4 DEF OrderInv, RegularTicks
<1>6. TimeInv'
  BY <1>3, <1>4 DEF TimeInv
<1> QED
  BY <1>5, <1>6

(* A tick begins: what is held of it is new, if it never began before.     *)
LEMMA ClockStarts ==
  ASSUME RegularTicks, ClockInv, NEW pause \in Pauses, Rec!StartCtf(pause)
  PROVE  ClockInv'
<1>1. PICK n, x : n = game.tick + 1 /\ x = [tick |-> n, field |-> "start", ts |-> clock', failed |-> 0]
  OBVIOUS
<1>2. /\ game.state \in {"STOPPED", "SUSPENDED"} /\ clock' = clock + pause
      /\ game' = [game EXCEPT !.state = "RUNNING", !.tick = n]
      /\ again' = (IF n \in begun THEN again \cup {n} ELSE again) /\ begun' = begun \cup {n}
      /\ threads' = threads \cup {x}
      /\ UNCHANGED <<ticks, done, excused, outlived>>
  BY <1>1 DEF Rec!StartCtf, Rec!Begin, Rec!Record
<1>3. n \in Rec!Ticks /\ n = game.tick + 1 /\ game.tick \in Nat
  BY <1>1 DEF Rec!StartCtf, Rec!Ticks, ClockInv, ClockTypes, RegularTicks
<1>4. clock' \in Nat /\ x \in Writes
  BY <1>1, <1>2, <1>3 DEF RegularTicks, ClockInv, ClockTypes, Writes
<1>5. /\ game' \in [state: {"RUNNING", "STOPPED", "SUSPENDED", "lost"}, tick: 0..MaxTick, time: Int]
      /\ game'.state = "RUNNING" /\ game'.tick = n /\ game'.time = game.time
  <2>1. game' = [state |-> "RUNNING", tick |-> n, time |-> game.time] /\ game.time \in Int
    BY <1>2 DEF ClockInv, ClockTypes
  <2>2. n \in 0..MaxTick
    BY <1>3 DEF Rec!Ticks, RegularTicks
  <2> QED
    BY <2>1, <2>2
<1>6. ClockTypes'
  BY <1>2, <1>3, <1>4, <1>5 DEF ClockInv, ClockTypes
<1> SUFFICES ASSUME ~outlived PROVE OrderInv' /\ ((again = {})' => TimeInv')
  BY <1>2, <1>6 DEF ClockInv
<1>7. OrderInv
  BY DEF ClockInv
<1>8. ASSUME NEW m \in Rec!Ticks, NEW f \in {"start", "end"}, NEW v \in Nat, Holds(m, f, v)'
      PROVE  Holds(m, f, v) \/ (m = n /\ f = "start" /\ v = clock')
  BY <1>1, <1>2, <1>8 DEF Holds
<1>9. OrderInv'
  <2>1. 1..(n - 1) \subseteq done
    BY <1>2, <1>3, <1>7 DEF OrderInv
  <2>2. again' \subseteq excused'
    BY <1>2, <1>3, <1>7 DEF OrderInv
  <2>3. \A m \in begun' : m > n => m \in excused'
    BY <1>2, <1>3, <1>7 DEF OrderInv, ClockInv, ClockTypes, Rec!Ticks
  <2>4. \A m \in Rec!Ticks, v \in Nat : Holds(m, "end", v)' => m \in done'
    BY <1>2, <1>7, <1>8 DEF OrderInv
  <2>5. \A m \in Rec!Ticks, v \in Nat : Holds(m, "start", v)' => m \in begun'
    BY <1>2, <1>7, <1>8 DEF OrderInv
  <2>6. (\A m \in done' : 1..m \subseteq done') /\ done' \subseteq begun'
    BY <1>2, <1>7 DEF OrderInv
  <2> QED
    BY <1>2, <1>5, <2>1, <2>2, <2>3, <2>4, <2>5, <2>6 DEF OrderInv
<1>10. ASSUME again' = {} PROVE TimeInv'
  <2>1. n \notin begun /\ again = {}
    BY <1>2, <1>10
  <2>2. TimeInv
    BY <2>1 DEF ClockInv
  <2>3. \A v \in Nat : ~Holds(n, "start", v) /\ ~Holds(n, "end", v)
    BY <1>3, <1>7, <2>1 DEF OrderInv
  <2>4. n \notin done
    BY <1>7, <2>1 DEF OrderInv
  <2>5. ASSUME NEW m \in Rec!Ticks, NEW s \in Nat, NEW e \in Nat, Holds(m, "start", s)', Holds(m, "end", e)'
        PROVE  e - s \in TickTime..(TickTime + 2)
    <3>1. Holds(m, "end", e)
      BY <1>8, <2>5
    <3>2. m # n
      BY <2>3, <3>1
    <3>3. Holds(m, "start", s)
      BY <1>8, <2>5, <3>2
    <3> QED
      BY <2>2, <3>1, <3>3 DEF TimeInv
  <2>6. \A s \in Nat : Holds(n, "start", s)' => s = clock'
    BY <1>3, <1>8, <2>3
  <2>7. game'.time = TickTime
    BY <1>5, <2>2 DEF TimeInv
  <2>8. game'.tick \notin done' /\ \A s \in Nat : Holds(game.tick, "start", s)' => s = clock'
    BY <1>2, <1>5, <2>4, <2>6
  <2> QED
    BY <2>5, <2>7, <2>8 DEF TimeInv
<1> QED
  BY <1>9, <1>10

(* A tick ends, and the next one begins or the game is over.               *)
LEMMA ClockTicks ==
  ASSUME RegularTicks, ClockInv, NEW late \in Lates, Rec!EndTick(late)
  PROVE  ClockInv'
<1>1. PICK k, n : k = game.tick /\ n = k + 1
  OBVIOUS
<1>2. PICK x, y : /\ x = [tick |-> k, field |-> "end", ts |-> clock', failed |-> 0]
                  /\ y = [tick |-> n, field |-> "start", ts |-> clock', failed |-> 0]
  OBVIOUS
<1>3. /\ game.state = "RUNNING" /\ clock' = clock + TickTime + late /\ done' = done \cup {k}
      /\ UNCHANGED <<ticks, excused, outlived>>
  BY <1>1 DEF Rec!EndTick
<1>4. \/ /\ k < MaxTick /\ game' = [game EXCEPT !.tick = n] /\ threads' = threads \cup {x, y}
         /\ again' = (IF n \in begun THEN again \cup {n} ELSE again) /\ begun' = begun \cup {n}
      \/ /\ k >= MaxTick /\ game' = [game EXCEPT !.state = "STOPPED"] /\ threads' = threads \cup {x}
         /\ UNCHANGED <<begun, again>>
  BY <1>1, <1>2 DEF Rec!EndTick, Rec!Begin, Rec!Record, ClockInv, ClockTypes, Rec!Ticks, RegularTicks
<1>5. MaxTick \in Nat /\ k \in Rec!Ticks /\ k \in Nat /\ k >= 1 /\ k <= MaxTick /\ n = k + 1 /\ (k < MaxTick => n \in Rec!Ticks)
  BY <1>1, <1>3 DEF ClockInv, ClockTypes, Rec!Ticks, RegularTicks
<1>6. clock \in Nat /\ clock' \in Nat /\ clock' - clock \in TickTime..(TickTime + 2)
  BY <1>3 DEF RegularTicks, ClockInv, ClockTypes
<1>7. x \in Writes /\ (k < MaxTick => y \in Writes)
  BY <1>2, <1>5, <1>6 DEF Writes
<1>8. /\ game' \in [state: {"RUNNING", "STOPPED", "SUSPENDED", "lost"}, tick: 0..MaxTick, time: Int]
      /\ game'.time = game.time
      /\ k < MaxTick => game'.state = "RUNNING" /\ game'.tick = n
      /\ k = MaxTick => game'.state = "STOPPED" /\ game'.tick = k
  BY <1>1, <1>3, <1>4, <1>5 DEF ClockInv, ClockTypes, Rec!Ticks, RegularTicks
<1>9. ClockTypes'
  <2>1. threads' \subseteq Writes /\ begun' \subseteq Rec!Ticks /\ done' \subseteq Rec!Ticks
    BY <1>3, <1>4, <1>5, <1>7 DEF ClockInv, ClockTypes
  <2>2. game'.state = "RUNNING" => game'.tick \in Rec!Ticks
    BY <1>5, <1>8
  <2> QED
    BY <1>3, <1>6, <1>8, <2>1, <2>2 DEF ClockInv, ClockTypes
<1> SUFFICES ASSUME ~outlived PROVE OrderInv' /\ ((again = {})' => TimeInv')
  BY <1>3, <1>9 DEF ClockInv
<1>10. OrderInv
  BY DEF ClockInv
<1>11. ASSUME NEW m \in Rec!Ticks, NEW f \in {"start", "end"}, NEW v \in Nat, Holds(m, f, v)'
       PROVE  \/ Holds(m, f, v)
              \/ m = k /\ f = "end" /\ v = clock'
              \/ k < MaxTick /\ m = n /\ f = "start" /\ v = clock'
  BY <1>2, <1>3, <1>4, <1>11 DEF Holds
<1>12. 1..k \subseteq done'
  BY <1>1, <1>3, <1>5, <1>10 DEF OrderInv
<1>13. OrderInv'
  <2>1. 1..(game'.tick - 1) \subseteq done' /\ (game'.state \in {"STOPPED", "SUSPENDED"} => 1..game'.tick \subseteq done')
    BY <1>5, <1>8, <1>12
  <2>2. again' \subseteq excused'
    BY <1>1, <1>3, <1>4, <1>5, <1>10 DEF OrderInv
  <2>3. \A m \in begun' : m > game'.tick => m \in excused'
    BY <1>1, <1>3, <1>4, <1>5, <1>8, <1>10 DEF OrderInv, ClockInv, ClockTypes, Rec!Ticks
  <2>4. \A m \in Rec!Ticks, v \in Nat : Holds(m, "end", v)' => m \in done'
    BY <1>3, <1>10, <1>11 DEF OrderInv
  <2>5. \A m \in Rec!Ticks, v \in Nat : Holds(m, "start", v)' => m \in begun'
    BY <1>4, <1>5, <1>10, <1>11 DEF OrderInv
  <2>6. \A m \in done' : 1..m \subseteq done'
    BY <1>3, <1>10, <1>12 DEF OrderInv
  <2>7. done' \subseteq begun' /\ (game'.state = "RUNNING" => game'.tick \in begun')
    BY <1>1, <1>3, <1>4, <1>5, <1>8, <1>10 DEF OrderInv
  <2> QED
    BY <2>1, <2>2, <2>3, <2>4, <2>5, <2>6, <2>7 DEF OrderInv
<1>14. ASSUME again' = {} PROVE TimeInv'
  <2>1. again = {} /\ (k < MaxTick => n \notin begun)
    BY <1>4, <1>5, <1>14
  <2>2. TimeInv
    BY <2>1 DEF ClockInv
  <2>3. k < MaxTick => \A v \in Nat : ~Holds(n, "start", v) /\ ~Holds(n, "end", v)
    BY <1>5, <1>10, <2>1 DEF OrderInv
  <2>4. k \notin done /\ \A s \in Nat : Holds(k, "start", s) => s = clock
    BY <1>1, <1>3, <2>2 DEF TimeInv
  <2>5. \A v \in Nat : ~Holds(k, "end", v)
    BY <1>5, <1>10, <2>4 DEF OrderInv
  <2>6. ASSUME NEW m \in Rec!Ticks, NEW s \in Nat, NEW e \in Nat, Holds(m, "start", s)', Holds(m, "end", e)'
        PROVE  e - s \in TickTime..(TickTime + 2)
    <3>1. CASE m = k
      <4>1. e = clock'
        BY <1>11, <2>5, <2>6, <3>1
      <4>2. Holds(k, "start", s)
        BY <1>5, <1>11, <2>6, <3>1
      <4>3. s = clock
        BY <2>4, <4>2
      <4> QED
        BY <1>6, <4>1, <4>3
    <3>2. CASE m # k
      <4>1. Holds(m, "end", e)
        BY <1>11, <2>6, <3>2
      <4>2. ~(k < MaxTick /\ m = n)
        BY <2>3, <4>1
      <4>3. Holds(m, "start", s)
        BY <1>11, <2>6, <4>2
      <4> QED
        BY <2>2, <4>1, <4>3 DEF TimeInv
    <3> QED
      BY <3>1, <3>2
  <2>7. k < MaxTick => n \notin done'
    BY <1>3, <1>5, <1>10, <2>1 DEF OrderInv
  <2>8. k < MaxTick => \A s \in Nat : Holds(n, "start", s)' => s = clock'
    BY <1>5, <1>11, <2>3
  <2>9. game'.time = TickTime
    BY <1>8, <2>2 DEF TimeInv
  <2>10. game'.state = "RUNNING" => game'.tick = n /\ k < MaxTick
    BY <1>5, <1>8
  <2>11. game'.state = "RUNNING" => game'.tick \notin done' /\ \A s \in Nat : Holds(game.tick, "start", s)' => s = clock'
    BY <2>7, <2>8, <2>10
  <2> QED
    BY <2>6, <2>9, <2>11 DEF TimeInv
<1> QED
  BY <1>13, <1>14

(* The clock is rebuilt: the last tick of the table that ended did end, so *)
(* did all before it, and what comes after it is not in the table.         *)
LEMMA ClockRebuilt ==
  ASSUME RegularTicks, ClockInv, Rec!reconstruct_redis
  PROVE  ClockInv'
<1>1. PICK l : l = Rec!LastCompleted
  OBVIOUS
<1>2. /\ game' = [state |-> IF l < Rec!Max(Rec!Known) THEN "SUSPENDED" ELSE "STOPPED",
                  tick |-> l, time |-> Rec!EstimatedTime(l)]
      /\ excused' = excused \cup (Rec!Ticks \ Rec!Completed)
      /\ UNCHANGED <<clock, ticks, threads, begun, done, again, outlived>>
      /\ ticks[l].start # Rec!NULL
  BY <1>1 DEF Rec!reconstruct_redis
<1>3. l \in Rec!Completed /\ \A m \in Rec!Completed : m <= l
  <2>1. PICK C \in SUBSET (1..MaxTick) : C = Rec!Completed /\ C # {}
    BY DEF Rec!reconstruct_redis, Rec!Completed, Rec!Ticks
  <2>2. l = Rec!Max(C)
    BY <1>1, <2>1 DEF Rec!LastCompleted
  <2> QED
    BY <2>1, <2>2, LastTick DEF RegularTicks
<1>4. l \in Rec!Ticks /\ ticks[l].end # Rec!NULL /\ l \in 0..MaxTick /\ l \in Nat
  BY <1>3 DEF Rec!Completed, Rec!Ticks, RegularTicks
<1>5. ticks[l].start \in Nat /\ ticks[l].end \in Nat
  BY <1>2, <1>4 DEF ClockInv, ClockTypes, Instants
<1>6. Rec!EstimatedTime(l) = ((ticks[l].end - ticks[l].start + 2) \div 5) * 5
  BY DEF Rec!EstimatedTime
<1>7. ClockTypes'
  <2>1. ((ticks[l].end - ticks[l].start + 2) \div 5) * 5 \in Int
    BY <1>5
  <2> QED
    BY <1>2, <1>4, <1>6, <2>1 DEF ClockInv, ClockTypes
<1>8. game'.tick = l /\ game'.time = Rec!EstimatedTime(l) /\ game'.state \in {"STOPPED", "SUSPENDED"}
  BY <1>2
<1> SUFFICES ASSUME ~outlived PROVE OrderInv' /\ ((again = {})' => TimeInv')
  BY <1>2, <1>7 DEF ClockInv
<1>9. OrderInv
  BY DEF ClockInv
<1>10. Holds(l, "start", ticks[l].start) /\ Holds(l, "end", ticks[l].end)
  BY <1>2, <1>4 DEF Holds
<1>11. l \in done
  BY <1>4, <1>5, <1>9, <1>10 DEF OrderInv
<1>12. \A m \in Rec!Ticks, f \in {"start", "end"}, v \in Nat : Holds(m, f, v)' <=> Holds(m, f, v)
  BY <1>2 DEF Holds
<1>13. OrderInv'
  <2>1. 1..l \subseteq done
    BY <1>9, <1>11 DEF OrderInv
  <2>2. \A m \in begun : m > l => m \in excused'
    BY <1>2, <1>3, <1>4 DEF ClockInv, ClockTypes, Rec!Ticks
  <2> QED
    BY <1>2, <1>4, <1>8, <1>9, <1>12, <2>1, <2>2 DEF OrderInv
<1>14. ASSUME again' = {} PROVE TimeInv'
  <2>1. TimeInv
    BY <1>2, <1>14 DEF ClockInv
  <2>2. ticks[l].end - ticks[l].start \in TickTime..(TickTime + 2)
    BY <1>4, <1>5, <1>10, <2>1 DEF TimeInv
  <2>3. PICK s \in Nat, e \in Nat : s = ticks[l].start /\ e = ticks[l].end
    BY <1>5
  <2>4. game'.time = TickTime
    BY <1>6, <1>8, <2>2, <2>3, EstimateRight
  <2> QED
    BY <1>8, <1>12, <2>1, <2>4 DEF TimeInv
<1> QED
  BY <1>13, <1>14

(* Every step keeps ClockInv.                                              *)
LEMMA ClockStep ==
  ASSUME RegularTicks, ClockInv, [Rec!Next]_Rec!cvars
  PROVE  ClockInv'
<1>1. CASE UNCHANGED Rec!cvars
  <2>1. UNCHANGED <<game, clock, ticks, threads, begun, done, again, excused, outlived>>
    BY <1>1 DEF Rec!cvars
  <2>2. ClockTypes' /\ \A n \in Rec!Ticks, f \in {"start", "end"}, v \in Nat : Holds(n, f, v)' => Holds(n, f, v)
    BY <2>1 DEF ClockInv, ClockTypes, Holds
  <2> QED
    BY <2>1, <2>2, HoldsLess
<1>2. CASE Rec!Next
  BY <1>2, ClockStarts, ClockTicks, ClockWrites, ClockLost, ClockRebuilt, ClockReset DEF Rec!Next
<1> QED
  BY <1>1, <1>2

(* The component by itself.                                               *)
LEMMA RecAlone ==
  ASSUME RegularTicks
  PROVE  Rec!Spec => [](Rec!TypeOK /\ Rec!GoesOn)
<1>1. Rec!Init => ClockInv
  BY ClockFresh
<1>2. ClockInv /\ [Rec!Next]_Rec!cvars => ClockInv'
  BY ClockStep
<1>3. ClockInv => Rec!TypeOK /\ Rec!GoesOn
  <2> SUFFICES ASSUME ClockInv PROVE Rec!TypeOK /\ Rec!GoesOn
    OBVIOUS
  <2>1. \A i \in Instants : i >= Rec!NULL
    BY DEF Instants, Rec!NULL
  <2>2. \A n \in Rec!Ticks : ticks[n].start \in Instants /\ ticks[n].end \in Instants
    BY DEF ClockInv, ClockTypes
  <2>3. Rec!TypeOK
    BY <2>1, <2>2 DEF ClockInv, ClockTypes, Rec!TypeOK
  <2>4. Rec!GoesOn
    BY DEF ClockInv, OrderInv, TimeInv, Rec!GoesOn
  <2> QED
    BY <2>3, <2>4
<1> QED
  BY <1>1, <1>2, <1>3, PTL DEF Rec!Spec

(* A rebuilt clock goes on where the game was, for any number of ticks,    *)
(* errors, losses and pending writes: no tick is left out, one is played   *)
(* again only if its end was not in the table, and until one is the tick   *)
(* time is the one the game had (reconstruct_redis, DatabaseTickRecording).*)
THEOREM RecoveryCorrect == Spec => []GoesOn
<1> DEFINE Chosen == component = "recovery"
<1>1. Rec!Spec => [](Rec!TypeOK /\ Rec!GoesOn)
  BY RecAlone, ToolsAssumption
<1>2. Init /\ Chosen => Rec!Init
  BY DEF Init
<1>3. Chosen /\ [Next]_tools => Chosen' /\ [Rec!Next]_(Rec!cvars)
  BY OneComponent DEF Next, tools, Rec!cvars
<1>4. ~Chosen /\ [Next]_tools => ~Chosen'
  BY OneComponent
<1> QED
  BY <1>1, <1>2, <1>3, <1>4, PTL DEF Spec, Rec!Spec, GoesOn

-----------------------------------------------------------------------------
(* The checker runs spread over a tick.                                    *)

(* The names of its variables.                                              *)
spread == v1
order == v2
timing == v3
tasks == v4
USE DEF spread, order, timing, tasks

(* The runs of a service before the ith.                                   *)
Earlier(q, x, i) == {k \in 1..(i - 1) : q[k] = x}

PlainTask(i) == tasks[i].service = order[i] /\ tasks[i].delay = <<0, 1>>
SpreadTask(i) == tasks[i].service = order[i] /\ tasks[i].delay = Spread!Delay(order[i], i)

TasksInv ==
  /\ order \in Seq(Services) /\ tasks \in Seq([service: Services, delay: Int \X Int])
  /\ spread \in {"shuffle", "plain", "delayed", "done"} /\ timing.end \in Int
  /\ Len(tasks) <= Len(order) /\ (spread = "shuffle" => tasks = <<>>)
  /\ spread = "plain" => \A i \in 1..Len(tasks) : PlainTask(i)
  /\ spread = "delayed" => \A i \in 1..Len(tasks) : SpreadTask(i)
  /\ spread = "done" => (\A i \in 1..Len(tasks) : PlainTask(i)) \/ (\A i \in 1..Len(tasks) : SpreadTask(i))

(* The instance counts as the library does.                                *)
LEMMA SameCountOfTasks ==
  ASSUME NEW S
  PROVE  Spread!Cardinality(S) = Cardinality(S)
  BY Zenon DEF Spread!Cardinality, Cardinality

(* Every run of a service has more before it than the one before.          *)
LEMMA EarlierGrows ==
  ASSUME NEW q, NEW x, NEW i \in Nat, NEW j \in 1..(i - 1), q[j] = x
  PROVE  /\ Cardinality(Earlier(q, x, j)) \in Nat /\ Cardinality(Earlier(q, x, i)) \in Nat
         /\ Cardinality(Earlier(q, x, j)) + 1 <= Cardinality(Earlier(q, x, i))
<1> DEFINE A == Earlier(q, x, j)
           B == Earlier(q, x, i)
<1>1. IsFiniteSet(1..(i - 1)) /\ IsFiniteSet(1..(j - 1))
  BY FS_Interval
<1>2. B \subseteq 1..(i - 1) /\ A \subseteq 1..(j - 1) /\ A \cup {j} \subseteq B /\ j \notin A
  BY DEF Earlier
<1> HIDE DEF A, B
<1>3. IsFiniteSet(A) /\ IsFiniteSet(B)
  BY <1>1, <1>2, FS_Subset
<1>4. IsFiniteSet(A \cup {j}) /\ Cardinality(A \cup {j}) = Cardinality(A) + 1
  BY <1>2, <1>3, FS_AddElement
<1>5. Cardinality(A \cup {j}) <= Cardinality(B)
  BY <1>2, <1>3, FS_Subset
<1>6. Cardinality(A) \in Nat /\ Cardinality(B) \in Nat
  BY <1>3, FS_CardinalityType
<1> QED
  BY <1>4, <1>5, <1>6 DEF A, B

(* What the model counts.                                                  *)
LEMMA CountIsEarlier ==
  ASSUME NEW q \in Seq(Services), NEW x, NEW i \in 1..Len(q)
  PROVE  /\ Spread!Count(x, q) = Cardinality(Earlier(q, x, Len(q) + 1))
         /\ Spread!Count(x, SubSeq(q, 1, i - 1)) = Cardinality(Earlier(q, x, i))
<1>1. Len(q) \in Nat /\ i \in Int /\ 1..((Len(q) + 1) - 1) = 1..Len(q)
  OBVIOUS
<1>2. Spread!Count(x, q) = Cardinality(Earlier(q, x, Len(q) + 1))
  BY <1>1, SameCountOfTasks DEF Spread!Count, Earlier
<1>3. PICK p : p = SubSeq(q, 1, i - 1)
  OBVIOUS
<1>4. Len(p) = i - 1 /\ \A k \in 1..(i - 1) : p[k] = q[k]
  BY <1>3
<1>5. {k \in 1..Len(p) : p[k] = x} = Earlier(q, x, i)
  BY <1>4 DEF Earlier
<1>6. Spread!Count(x, p) = Cardinality(Earlier(q, x, i))
  BY <1>5, SameCountOfTasks DEF Spread!Count
<1> QED
  BY <1>2, <1>3, <1>6

(* A larger share of a longer time.                                        *)
LEMMA Shares ==
  ASSUME NEW F \in Int, NEW a \in Nat, NEW b \in Nat, a <= b
  PROVE  /\ F * a \in Int /\ F * b \in Int
         /\ F >= 0 => F * a <= F * b
         /\ F > 0 /\ a < b => F * a < F * b
         /\ F <= 0 => F * a <= 0
  BY SMTT(60)

(* A share of what is left of the tick leaves time for the run.            *)
LEMMA TimeLeft ==
  ASSUME NEW F \in Int, NEW end \in Int, NEW timeout \in Int, NEW r \in {10, 15}, F = end - timeout - r, F >= 0,
         NEW c \in Nat, NEW n \in Nat, c <= n
  PROVE  F * c + n * (timeout + 10) <= n * end
<1>1. F * c <= F * n /\ F * n \in Int /\ F * c \in Int
  BY Shares
<1>2. n * end = n * (F + timeout + r)
  OBVIOUS
<1>3. n * (F + timeout + r) = F * n + n * timeout + r * n
  BY SMTT(60)
<1>4. n * (timeout + 10) = n * timeout + 10 * n
  BY SMTT(60)
<1>5. 10 * n <= r * n
  OBVIOUS
<1>6. n * timeout \in Int /\ r * n \in Int /\ 10 * n \in Int
  OBVIOUS
<1> QED
  BY <1>1, <1>2, <1>3, <1>4, <1>5, <1>6

Before(i) == Cardinality(Earlier(order, order[i], i))
Runs(i) == Spread!Count(order[i], order)

(* The delay of a run, with the numbers of runs before it and of all runs. *)
LEMMA DelayIs ==
  ASSUME ServicesTimed, order \in Seq(Services), timing.end \in Int, NEW i \in 1..Len(order)
  PROVE  /\ Spread!Factor(order[i]) \in Int /\ Before(i) \in Nat /\ Runs(i) \in Nat /\ Before(i) < Runs(i)
         /\ order[i].timeout \in Int
         /\ \/ Spread!Factor(order[i]) = timing.end - order[i].timeout - 10
            \/ Spread!Factor(order[i]) = timing.end - order[i].timeout - 15
         /\ Spread!Delay(order[i], i) = IF Spread!Factor(order[i]) * Before(i) < 3 * Runs(i) THEN <<0, Runs(i)>>
                                        ELSE <<Spread!Factor(order[i]) * Before(i), Runs(i)>>
<1>1. PICK q \in Seq(Services) : q = order
  OBVIOUS
<1>2. PICK x \in Services : x = q[i]
  BY <1>1
<1>3. x.timeout \in Int /\ x.sub \in BOOLEAN
  BY DEF ServicesTimed
<1>4. PICK r \in {10, 15} : r = IF x.sub THEN 15 ELSE 10
  OBVIOUS
<1>5. PICK F \in Int : F = timing.end - x.timeout - r
  BY <1>3
<1>6. i \in Nat /\ Len(q) + 1 \in Nat /\ i \in 1..((Len(q) + 1) - 1)
  BY <1>1
<1>7. PICK c \in Nat, n \in Nat : c = Cardinality(Earlier(q, x, i)) /\ n = Cardinality(Earlier(q, x, Len(q) + 1)) /\ c + 1 <= n
  BY <1>2, <1>6, EarlierGrows
<1>8. Spread!Count(x, q) = n /\ Spread!Count(x, SubSeq(q, 1, i - 1)) = c
  BY <1>1, <1>7, CountIsEarlier
<1>9. Spread!Factor(x) = F
  BY <1>4, <1>5 DEF Spread!Factor
<1>10. Spread!Delay(x, i) = IF F * c < 3 * n THEN <<0, n>> ELSE <<F * c, n>>
  BY <1>1, <1>8, <1>9 DEF Spread!Delay
<1>11. order[i] = x /\ Before(i) = c /\ Runs(i) = n
  BY <1>1, <1>2, <1>7, <1>8 DEF Before, Runs
<1>12. F = timing.end - x.timeout - 10 \/ F = timing.end - x.timeout - 15
  BY <1>4, <1>5
<1>13. c < n
  BY <1>7
<1> QED
  BY <1>3, <1>7, <1>9, <1>10, <1>11, <1>12, <1>13

(* Every step keeps TasksInv.                                              *)
LEMMA TasksStep ==
  ASSUME ServicesTimed, TasksInv, [Spread!Next]_Spread!svars
  PROVE  TasksInv'
<1>1. CASE UNCHANGED Spread!svars
  <2>1. UNCHANGED <<spread, order, timing, tasks>>
    BY <1>1 DEF Spread!svars
  <2>2. \A i : (PlainTask(i)' <=> PlainTask(i)) /\ (SpreadTask(i)' <=> SpreadTask(i))
    BY <2>1 DEF PlainTask, SpreadTask, Spread!Delay, Spread!Factor
  <2> QED
    BY <2>1, <2>2 DEF TasksInv
<1>2. ASSUME NEW v \in Services, Spread!Combine(v)
      PROVE  TasksInv'
  <2>1. spread = "shuffle" /\ UNCHANGED <<spread, timing, tasks>> /\ order' = Append(order, v) /\ tasks = <<>>
    BY <1>2 DEF Spread!Combine, TasksInv
  <2>2. order' \in Seq(Services) /\ Len(tasks') = 0 /\ Len(order') \in Nat
    BY <2>1 DEF TasksInv
  <2> QED
    BY <2>1, <2>2 DEF TasksInv
<1>3. CASE Spread!Dispatch
  <2>1. UNCHANGED <<order, timing, tasks>> /\ tasks = <<>> /\ spread' \in {"plain", "delayed"}
    BY <1>3 DEF Spread!Dispatch, TasksInv
  <2>2. \A i \in 1..Len(tasks') : FALSE
    BY <2>1
  <2> QED
    BY <2>1, <2>2 DEF TasksInv
<1>4. CASE Spread!Task
  <2>1. PICK i \in 1..Len(order) : i = Len(tasks) + 1
    BY <1>4 DEF Spread!Task, TasksInv
  <2>2. PICK t : t = [service |-> order[i], delay |-> IF spread = "plain" THEN <<0, 1>> ELSE Spread!Delay(order[i], i)]
    OBVIOUS
  <2>3. UNCHANGED <<spread, order, timing>> /\ tasks' = Append(tasks, t) /\ spread \in {"plain", "delayed"}
    BY <1>4, <2>1, <2>2 DEF Spread!Task
  <2>4. Spread!Delay(order[i], i) \in Int \X Int
    <3>1. PICK F \in Int, c \in Nat, n \in Nat : F = Spread!Factor(order[i]) /\ c = Before(i) /\ n = Runs(i)
      BY DelayIs DEF TasksInv
    <3>2. F * c \in Int
      BY Shares
    <3>3. Spread!Delay(order[i], i) = IF F * c < 3 * n THEN <<0, n>> ELSE <<F * c, n>>
      BY <3>1, DelayIs DEF TasksInv
    <3> QED
      BY <3>2, <3>3
  <2>5. t \in [service: Services, delay: Int \X Int]
    BY <2>2, <2>4 DEF TasksInv
  <2>6. /\ tasks' \in Seq([service: Services, delay: Int \X Int]) /\ Len(tasks') = i /\ tasks'[i] = t
        /\ \A k \in 1..(i - 1) : tasks'[k] = tasks[k] /\ k \in 1..Len(tasks)
    BY <2>1, <2>3, <2>5 DEF TasksInv
  <2>7. \A k \in 1..(i - 1) : (PlainTask(k) => PlainTask(k)') /\ (SpreadTask(k) => SpreadTask(k)')
    BY <2>3, <2>6 DEF PlainTask, SpreadTask, Spread!Delay, Spread!Factor
  <2>8. (spread = "plain" => PlainTask(i)') /\ (spread = "delayed" => SpreadTask(i)')
    BY <2>2, <2>3, <2>6 DEF PlainTask, SpreadTask, Spread!Delay, Spread!Factor
  <2>9. \A k \in 1..Len(tasks') : k \in 1..(i - 1) \/ k = i
    BY <2>1, <2>6
  <2>10. /\ spread' = "plain" => \A k \in 1..Len(tasks') : PlainTask(k)'
         /\ spread' = "delayed" => \A k \in 1..Len(tasks') : SpreadTask(k)'
    BY <2>3, <2>6, <2>7, <2>8, <2>9 DEF TasksInv
  <2>11. Len(tasks') <= Len(order')
    BY <2>1, <2>3, <2>6 DEF TasksInv
  <2> QED
    BY <2>3, <2>6, <2>10, <2>11 DEF TasksInv
<1>5. CASE Spread!Apply
  <2>1. UNCHANGED <<order, timing, tasks>> /\ spread' = "done" /\ spread \in {"plain", "delayed"}
    BY <1>5 DEF Spread!Apply
  <2>2. \A i : (PlainTask(i)' <=> PlainTask(i)) /\ (SpreadTask(i)' <=> SpreadTask(i))
    BY <2>1 DEF PlainTask, SpreadTask, Spread!Delay, Spread!Factor
  <2> QED
    BY <2>1, <2>2 DEF TasksInv
<1> QED
  BY <1>1, <1>2, <1>3, <1>4, <1>5 DEF Spread!Next

(* Two runs of a service.                                                  *)
LEMMA TasksInOrder ==
  ASSUME ServicesTimed, TasksInv, NEW i \in 1..Len(tasks), NEW j \in 1..(i - 1), SpreadTask(i), SpreadTask(j),
         order[j] = order[i]
  PROVE  /\ tasks[j].delay[1] <= tasks[i].delay[1]
         /\ tasks[j].delay[1] = tasks[i].delay[1] => tasks[i].delay[1] = 0
<1>1. i \in 1..Len(order) /\ j \in 1..Len(order) /\ i \in Nat
  BY DEF TasksInv
<1>2. PICK F \in Int, c \in Nat, n \in Nat : F = Spread!Factor(order[i]) /\ c = Before(i) /\ n = Runs(i) /\ c < n
  BY <1>1, DelayIs DEF TasksInv
<1>3. PICK b \in Nat : b = Before(j)
  BY <1>1, DelayIs DEF TasksInv
<1>4. Spread!Delay(order[i], i) = IF F * c < 3 * n THEN <<0, n>> ELSE <<F * c, n>>
  BY <1>1, <1>2, DelayIs DEF TasksInv
<1>5. Runs(j) = n /\ Spread!Factor(order[j]) = F
  BY <1>2 DEF Runs
<1>6. Spread!Delay(order[j], j) = IF F * b < 3 * n THEN <<0, n>> ELSE <<F * b, n>>
  BY <1>1, <1>3, <1>5, DelayIs DEF TasksInv
<1>7. b + 1 <= c
  <2>1. PICK q, x : q = order /\ x = order[i]
    OBVIOUS
  <2>2. Cardinality(Earlier(q, x, j)) + 1 <= Cardinality(Earlier(q, x, i))
    BY <1>1, <2>1, EarlierGrows
  <2> QED
    BY <1>2, <1>3, <2>1, <2>2 DEF Before
<1>8. /\ F * b \in Int /\ F * c \in Int /\ (F >= 0 => F * b <= F * c)
      /\ (F > 0 => F * b < F * c) /\ (F <= 0 => F * b <= 0 /\ F * c <= 0)
  BY <1>7, Shares
<1>9. /\ tasks[i].delay[1] = IF F * c < 3 * n THEN 0 ELSE F * c
      /\ tasks[j].delay[1] = IF F * b < 3 * n THEN 0 ELSE F * b
  BY <1>4, <1>6 DEF SpreadTask
<1> QED
  BY <1>2, <1>7, <1>8, <1>9

(* A delayed run has its time.                                             *)
LEMMA TaskHasTime ==
  ASSUME ServicesTimed, TasksInv, NEW i \in 1..Len(tasks), SpreadTask(i)
  PROVE  /\ tasks[i].delay[1] >= 0
         /\ tasks[i].delay[1] > 0 =>
              tasks[i].delay[1] + tasks[i].delay[2] * (tasks[i].service.timeout + 10) <= tasks[i].delay[2] * timing.end
<1>1. i \in 1..Len(order)
  BY DEF TasksInv
<1>2. PICK F \in Int, c \in Nat, n \in Nat : F = Spread!Factor(order[i]) /\ c = Before(i) /\ n = Runs(i) /\ c < n
  BY <1>1, DelayIs DEF TasksInv
<1>3. PICK end \in Int, timeout \in Int : end = timing.end /\ timeout = order[i].timeout
  BY <1>1, DelayIs DEF TasksInv
<1>4. PICK r \in {10, 15} : F = end - timeout - r
  BY <1>1, <1>2, <1>3, DelayIs DEF TasksInv
<1>5. Spread!Delay(order[i], i) = IF F * c < 3 * n THEN <<0, n>> ELSE <<F * c, n>>
  BY <1>1, <1>2, DelayIs DEF TasksInv
<1>6. tasks[i].delay[1] = (IF F * c < 3 * n THEN 0 ELSE F * c) /\ tasks[i].delay[2] = n /\ tasks[i].service.timeout = timeout
  BY <1>3, <1>5 DEF SpreadTask
<1>7. F * c \in Int /\ (F <= 0 => F * c <= 0)
  BY Shares
<1>8. F >= 0 => F * c + n * (timeout + 10) <= n * end
  <2>1. c <= n
    BY <1>2
  <2> QED
    BY <1>4, <2>1, TimeLeft, Zenon
<1> QED
  BY <1>2, <1>3, <1>6, <1>7, <1>8

(* The component by itself.                                               *)
LEMMA SpreadAlone ==
  ASSUME ServicesTimed
  PROVE  Spread!Spec => [](Spread!TypeOK /\ Spread!SpreadFits)
<1>1. Spread!Init => TasksInv
  <2> SUFFICES ASSUME Spread!Init PROVE TasksInv
    OBVIOUS
  <2>1. order = <<>> /\ tasks = <<>> /\ Len(<<>>) = 0 /\ spread = "shuffle" /\ timing.end \in Int
    BY DEF Spread!Init, ServicesTimed
  <2> QED
    BY <2>1 DEF TasksInv
<1>2. TasksInv /\ [Spread!Next]_Spread!svars => TasksInv'
  BY TasksStep
<1>3. TasksInv => Spread!TypeOK /\ Spread!SpreadFits
  <2> SUFFICES ASSUME TasksInv PROVE Spread!TypeOK /\ Spread!SpreadFits
    OBVIOUS
  <2>1. Spread!TypeOK
    BY DEF TasksInv, Spread!TypeOK
  <2>2. CASE \A i \in 1..Len(tasks) : PlainTask(i)
    <3>1. \A i \in 1..Len(tasks) : tasks[i].delay[1] = 0 /\ \A j \in 1..(i - 1) : tasks[j].delay[1] = 0
      <4> SUFFICES ASSUME NEW i \in 1..Len(tasks) PROVE tasks[i].delay[1] = 0 /\ \A j \in 1..(i - 1) : tasks[j].delay[1] = 0
        OBVIOUS
      <4>1. \A j \in 1..(i - 1) : j \in 1..Len(tasks)
        BY DEF TasksInv
      <4> QED
        BY <2>2, <4>1 DEF PlainTask
    <3> QED
      BY <2>1, <3>1 DEF Spread!SpreadFits
  <2>3. CASE \A i \in 1..Len(tasks) : SpreadTask(i)
    <3>1. ASSUME NEW i \in 1..Len(tasks), NEW j \in 1..(i - 1), tasks[j].service = tasks[i].service
          PROVE  /\ tasks[j].delay[1] <= tasks[i].delay[1]
                 /\ tasks[j].delay[1] = tasks[i].delay[1] => tasks[i].delay[1] = 0
      <4>1. j \in 1..Len(tasks)
        BY DEF TasksInv
      <4>2. SpreadTask(i) /\ SpreadTask(j)
        BY <2>3, <4>1
      <4>3. order[j] = order[i]
        BY <3>1, <4>2 DEF SpreadTask
      <4> QED
        BY <4>2, <4>3, TasksInOrder
    <3> QED
      BY <2>1, <2>3, <3>1, TaskHasTime DEF Spread!SpreadFits
  <2>4. (\A i \in 1..Len(tasks) : PlainTask(i)) \/ (\A i \in 1..Len(tasks) : SpreadTask(i))
    <3>1. spread = "shuffle" => \A i \in 1..Len(tasks) : FALSE
      BY DEF TasksInv
    <3> QED
      BY <3>1 DEF TasksInv
  <2> QED
    BY <2>2, <2>3, <2>4
<1> QED
  BY <1>1, <1>2, <1>3, PTL DEF Spread!Spec

(* The runs of a tick fit into it for any services, tick length and number *)
(* of runs: a delayed run has its whole timeout and ten seconds more       *)
(* before the tick ends, and the runs of a service start in their order    *)
(* (DelayingCeleryDispatcher._dispatch).                                   *)
THEOREM SpreadCorrect == Spec => []SpreadFits
<1> DEFINE Chosen == component = "spread"
<1>1. Spread!Spec => [](Spread!TypeOK /\ Spread!SpreadFits)
  BY SpreadAlone, ToolsAssumption
<1>2. Init /\ Chosen => Spread!Init
  BY DEF Init
<1>3. Chosen /\ [Next]_tools => Chosen' /\ [Spread!Next]_(Spread!svars)
  BY OneComponent DEF Next, tools, Spread!svars
<1>4. ~Chosen /\ [Next]_tools => ~Chosen'
  BY OneComponent
<1> QED
  BY <1>1, <1>2, <1>3, <1>4, PTL DEF Spec, Spread!Spec, SpreadFits

-----------------------------------------------------------------------------
(* scoreboard.py and those who call it.                                    *)

(* The names of its variables; its state is that of the timer.             *)
tick == v1
timer == v2
scored == v3
files == v4
job == v5
master == v6
daemon == v7
tool == v9
trouble == v10
past == v11
USE DEF tick, timer, scored, files, job, master, daemon, tool, trouble, past

(* The values that its variables have.                                     *)
BoardFile ==
  [rounds: [Score!Ticks -> Score!Round \cup {NotThere}], team: Seq(Score!Ticks),
   stat: Seq(Score!Ticks \cup {Hidden, NoOne}), current: Score!Ticks \cup {NotThere}]
TimerTypes ==
  /\ tick \in 0..MaxScoredTick /\ timer \in {"STOPPED", "RUNNING", "SUSPENDED"} /\ scored \in 0..MaxScoredTick
  /\ trouble \in Trouble \cup {"none"} /\ queue \in Seq(Score!Ticks)
MasterTypes == master \in [tick: 0..MaxScoredTick, board: 0..2, pc: {"idle", "score", "create", "before", "dead"}]
DaemonTypes ==
  daemon \in [pc: {"off", "first", "prepare", "listen"}, board: 1..2, current: -1..(MaxScoredTick + 1),
              until: Score!Ticks, started: BOOLEAN]
ToolTypes == tool \in [pc: {"off", "run"}, board: 1..2, rn: -1..(MaxScoredTick + 1)]
FileTypes == files \in [Score!Board -> BoardFile]
JobTypes ==
  /\ job \in [Score!Processes -> Score!Job \cup {NotThere}]
  /\ past \in [early: BOOLEAN, rebuilt: BOOLEAN]
ScoreTypes == TimerTypes /\ MasterTypes /\ DaemonTypes /\ ToolTypes

(* The last tick that is over, and how the timer and its end thread follow *)
(* each other: a thread ends one tick after the other.                     *)
Over == IF master.pc = "score" THEN master.tick ELSE scored
InTime ==
  /\ tick = IF timer = "RUNNING" THEN Over + 1 ELSE Over
  /\ timer = "SUSPENDED" => tick < MaxScoredTick
  /\ tick = 0 => master.pc = "idle" /\ job["master"] = NotThere
  /\ master.pc = "score" => master.tick = scored + 1
  /\ master.pc \in {"create", "before"} => master.tick = scored /\ master.board \in 1..2

(* The rows of a board: those of teams and services are equally long, and  *)
(* have the values of their ticks.                                         *)
RowsOf(f, b) ==
  \A i \in 1..Len(f.team) :
    /\ f.team[i] = IF Score!is_frozen(i - 1, b) THEN Freeze ELSE i - 1
    /\ f.stat[i] = IF Score!is_frozen(i - 1, b) THEN Hidden ELSE i - 1
RowsInv ==
  \A b \in Score!Board : Len(files[b].team) = Len(files[b].stat) /\ (~past.rebuilt => RowsOf(files[b], b))

(* What was read and written is final, if nobody asked too early.          *)
FinalInv ==
  ~past.early =>
    /\ \A p \in Score!Processes : job[p] # NotThere => job[p].final
    /\ \A b \in Score!Board, t \in Score!Ticks : files[b].rounds[t] # NotThere => files[b].rounds[t].final

(* The tick of scoreboard_current.json has its file.                       *)
ShownInv ==
  \A b \in Score!Board :
    files[b].current \notin {NotThere, -1} => files[b].rounds[files[b].current] # NotThere

(* What is true of the files, whoever writes them.                         *)
FilesInv == FileTypes /\ JobTypes /\ RowsInv /\ Score!RoundsFrozen /\ FinalInv /\ ShownInv

(* The end thread has written the file of a tick or is about to.  Between  *)
(* two boards, and between two threads, at most the last tick is without,  *)
(* and only after a thread died: the one after it will find this out.      *)
Comes(b, t) ==
  files[b].rounds[t] # NotThere \/ (job["master"] # NotThere /\ job["master"].board = b /\ job["master"].tick = t)
Whole(b, n) == \A t \in 0..n : Comes(b, t)
WholeButLast(b, n) == Whole(b, n - 1) /\ (n >= 0 => Comes(b, n) \/ trouble = "none")
CompleteInv ==
  /\ master.pc = "idle" /\ (tick > 0 \/ timer = "SUSPENDED") => \A b \in Score!Board : Whole(b, scored)
  /\ master.pc \in {"score", "dead"} => \A b \in Score!Board : WholeButLast(b, scored)
  /\ master.pc \in {"create", "before"} =>
       /\ WholeButLast(Score!Boards[master.board], scored - 1)
       /\ IF master.board = 1 THEN WholeButLast("internal", scored - 1) ELSE Whole("public", scored)
  /\ master.pc = "before" => Comes(Score!Boards[master.board], scored)

(* The thread that will die does so when the tick itself is to be written. *)
OneCrash ==
  trouble = "crash" /\ job["master"] # NotThere =>
    master.pc = "before" /\ job["master"].tick = scored /\ job["master"].board = Score!Boards[master.board]

ThreadInv == InTime /\ CompleteInv /\ OneCrash
ScoreInv == ScoreTypes /\ FilesInv /\ ThreadInv

(* The boards are two.                                                     *)
LEMMA TwoBoards ==
  /\ Score!Boards[1] = "public" /\ Score!Boards[2] = "internal"
  /\ \A i \in 1..2 : Score!Boards[i] \in Score!Board
BY DEF Score!Boards, Score!Board

(* What a cell that is changed or appended does to a row.                  *)
LEMMA FastRows ==
  ASSUME NEW S, NEW cells \in Seq(S), NEW t \in Nat, NEW value \in S, Len(cells) >= t
  PROVE  /\ Score!FastRow(cells, t, value) \in Seq(S)
         /\ Len(Score!FastRow(cells, t, value)) = IF Len(cells) > t THEN Len(cells) ELSE t + 1
         /\ \A i \in 1..Len(Score!FastRow(cells, t, value)) :
              Score!FastRow(cells, t, value)[i] = IF i = t + 1 THEN value ELSE cells[i]
<1>1. CASE Len(cells) > t
  <2>1. PICK new : new = [cells EXCEPT ![t + 1] = value]
    OBVIOUS
  <2>2. new \in Seq(S) /\ Len(new) = Len(cells) /\ \A i \in 1..Len(cells) : new[i] = IF i = t + 1 THEN value ELSE cells[i]
    BY <1>1, <2>1
  <2>3. Score!FastRow(cells, t, value) = new
    BY <1>1, <2>1 DEF Score!FastRow, Score!Cell
  <2> QED
    BY <1>1, <2>2, <2>3
<1>2. CASE ~(Len(cells) > t)
  <2>1. Len(cells) = t /\ Score!FastRow(cells, t, value) = Append(cells, value)
    BY <1>2 DEF Score!FastRow
  <2>2. /\ Append(cells, value) \in Seq(S) /\ Len(Append(cells, value)) = t + 1
        /\ \A i \in 1..(t + 1) : Append(cells, value)[i] = IF i = t + 1 THEN value ELSE cells[i]
    BY <2>1
  <2> QED
    BY <1>2, <2>1, <2>2
<1> QED
  BY <1>1, <1>2

(* The rows after update_file, and how long they are.                      *)
LEMMA UpdatedRows ==
  ASSUME NEW S, NEW cells \in Seq(S), NEW t \in Int, NEW value \in S,
         NEW all \in Seq(S), t >= 0 => Len(all) = t + 1
  PROVE  /\ Score!update_file(cells, t, value, all) \in Seq(S)
         /\ Len(Score!update_file(cells, t, value, all)) = IF t >= Len(cells) THEN t + 1 ELSE Len(cells)
         /\ Len(cells) >= t => \A i \in 1..Len(Score!update_file(cells, t, value, all)) :
              Score!update_file(cells, t, value, all)[i] = IF i = t + 1 THEN value ELSE cells[i]
<1>1. CASE t < 0
  BY <1>1 DEF Score!update_file
<1>2. CASE t >= 0 /\ Len(cells) >= t
  <2>1. Score!update_file(cells, t, value, all) = Score!FastRow(cells, t, value)
    BY <1>2 DEF Score!update_file, Score!Fast
  <2>2. t \in Nat
    BY <1>2
  <2>3. PICK new : new = Score!FastRow(cells, t, value)
    OBVIOUS
  <2>4. /\ new \in Seq(S) /\ Len(new) = IF Len(cells) > t THEN Len(cells) ELSE t + 1
        /\ \A i \in 1..Len(new) : new[i] = IF i = t + 1 THEN value ELSE cells[i]
    BY <1>2, <2>2, <2>3, FastRows, SMT
  <2>5. Len(cells) \in Nat
    OBVIOUS
  <2> QED
    BY <1>2, <2>1, <2>3, <2>4, <2>5
<1>3. CASE t >= 0 /\ ~(Len(cells) >= t)
  <2>1. Score!update_file(cells, t, value, all) = all
    BY <1>3 DEF Score!update_file, Score!Fast
  <2> QED
    BY <1>3, <2>1
<1> QED
  BY <1>1, <1>2, <1>3

(* update_file of both statistics: a board stays one, its other files and  *)
(* the equal length of its rows stay, and cells that are changed or        *)
(* appended have their values.                                             *)
LEMMA StatisticsDo ==
  ASSUME NEW f \in BoardFile, NEW t \in Score!Ticks, NEW b \in Score!Board, Len(f.team) = Len(f.stat)
  PROVE  /\ Score!Statistics(f, t, b) \in BoardFile
         /\ Score!Statistics(f, t, b).rounds = f.rounds /\ Score!Statistics(f, t, b).current = f.current
         /\ Len(Score!Statistics(f, t, b).team) = Len(Score!Statistics(f, t, b).stat)
         /\ RowsOf(f, b) /\ Score!Fast(f.team, t) => RowsOf(Score!Statistics(f, t, b), b)
<1> DEFINE S == Score!Ticks \cup {Hidden, NoOne}
<1>1. MaxScoredTick \in Nat \ {0} /\ Freeze \in Nat \ {0} /\ t \in Int /\ t >= -1 /\ t <= MaxScoredTick
  BY ToolsAssumption DEF GameFreezes, Score!Ticks
<1>2. PICK team : team = Score!update_file(f.team, t, Score!TeamTickInfo(t, b), Score!TeamAllTicks(t))
  OBVIOUS
<1>3. PICK stat : stat = Score!update_file(f.stat, t, Score!StatTickInfo(t, b), Score!StatAllTicks(t))
  OBVIOUS
<1>4. f.team \in Seq(Score!Ticks) /\ f.stat \in Seq(S)
  BY DEF BoardFile
<1>5. Score!TeamTickInfo(t, b) = IF Score!is_frozen(t, b) THEN Freeze ELSE t
  BY <1>1 DEF Score!TeamTickInfo, Score!Prev, Score!AtLeast0
<1>6. Score!TeamTickInfo(t, b) \in Score!Ticks
  BY <1>1, <1>5 DEF Score!is_frozen, Score!Ticks
<1>7. Score!StatTickInfo(t, b) = (IF Score!is_frozen(t, b) THEN Hidden ELSE t) /\ Score!StatTickInfo(t, b) \in S
  BY DEF Score!StatTickInfo, Score!get_attacker_victim_count
<1>8. Score!TeamAllTicks(t) \in Seq(Score!Ticks) /\ (t >= 0 => Len(Score!TeamAllTicks(t)) = t + 1)
  <2>1. \A i \in 1..(t + 1) : i - 1 \in Score!Ticks
    BY <1>1 DEF Score!Ticks
  <2> QED
    BY <1>1, <2>1 DEF Score!TeamAllTicks
<1>9. Score!StatAllTicks(t) \in Seq(S) /\ (t >= 0 => Len(Score!StatAllTicks(t)) = t + 1)
  BY <1>1 DEF Score!StatAllTicks
<1> HIDE DEF S
<1>10. /\ team \in Seq(Score!Ticks) /\ Len(team) = (IF t >= Len(f.team) THEN t + 1 ELSE Len(f.team))
       /\ Len(f.team) >= t =>
            \A i \in 1..Len(team) : team[i] = IF i = t + 1 THEN Score!TeamTickInfo(t, b) ELSE f.team[i]
  BY <1>1, <1>2, <1>4, <1>6, <1>8, UpdatedRows
<1>11. /\ stat \in Seq(S) /\ Len(stat) = (IF t >= Len(f.stat) THEN t + 1 ELSE Len(f.stat))
       /\ Len(f.stat) >= t =>
            \A i \in 1..Len(stat) : stat[i] = IF i = t + 1 THEN Score!StatTickInfo(t, b) ELSE f.stat[i]
  BY <1>1, <1>3, <1>4, <1>7, <1>9, UpdatedRows
<1>12. Score!Statistics(f, t, b) = [f EXCEPT !.team = team, !.stat = stat]
  BY <1>2, <1>3 DEF Score!Statistics, Score!__create_json_for_teams, Score!__create_service_stat_json
<1> USE DEF S
<1>13. PICK g : g = [f EXCEPT !.team = team, !.stat = stat]
  OBVIOUS
<1>14. g \in BoardFile /\ g.team = team /\ g.stat = stat /\ g.rounds = f.rounds /\ g.current = f.current
  BY <1>10, <1>11, <1>13 DEF BoardFile
<1>15. Len(team) = Len(stat)
  BY <1>10, <1>11
<1>16. ASSUME RowsOf(f, b), Score!Fast(f.team, t) PROVE RowsOf(g, b)
  <2>1. Len(f.team) >= t /\ Len(f.stat) >= t /\ Len(f.team) \in Nat
    BY <1>4, <1>16 DEF Score!Fast
  <2>2. SUFFICES ASSUME NEW i \in 1..Len(team)
                 PROVE  /\ team[i] = IF Score!is_frozen(i - 1, b) THEN Freeze ELSE i - 1
                        /\ stat[i] = IF Score!is_frozen(i - 1, b) THEN Hidden ELSE i - 1
    BY <1>14 DEF RowsOf
  <2>3. CASE i = t + 1
    BY <1>1, <1>5, <1>7, <1>10, <1>11, <1>15, <2>1, <2>3
  <2>4. CASE i # t + 1
    <3>1. i \in 1..Len(f.team)
      BY <1>1, <1>10, <2>1, <2>4
    <3> QED
      BY <1>10, <1>11, <1>15, <1>16, <2>1, <2>4, <3>1 DEF RowsOf
  <2> QED
    BY <2>3, <2>4
<1> QED
  BY <1>12, <1>13, <1>14, <1>15, <1>16

(* scoreboard_current.json.                                                *)
LEMMA TickInfoDoes ==
  ASSUME NEW f \in BoardFile, NEW t \in Score!Ticks \cup {NotThere}
  PROVE  /\ Score!__create_tick_info_json(f, t) \in BoardFile
         /\ Score!__create_tick_info_json(f, t).rounds = f.rounds
         /\ Score!__create_tick_info_json(f, t).team = f.team
         /\ Score!__create_tick_info_json(f, t).stat = f.stat
         /\ Score!__create_tick_info_json(f, t).current =
              IF t # NotThere THEN t ELSE IF f.current = NotThere THEN -1 ELSE f.current
         /\ Score!__create_tick_info_json(f, t).current \in Score!Ticks
<1>1. -1 \in Score!Ticks
  BY ToolsAssumption DEF GameFreezes, Score!Ticks
<1>2. PICK c : c = IF t # NotThere THEN t ELSE IF f.current = NotThere THEN -1 ELSE f.current
  OBVIOUS
<1>3. c \in Score!Ticks
  BY <1>1, <1>2 DEF BoardFile
<1>4. Score!__create_tick_info_json(f, t) = [f EXCEPT !.current = c]
  BY <1>2 DEF Score!__create_tick_info_json
<1>5. PICK g : g = [f EXCEPT !.current = c]
  OBVIOUS
<1>6. g \in BoardFile /\ g.rounds = f.rounds /\ g.team = f.team /\ g.stat = f.stat /\ g.current = c
  BY <1>3, <1>5 DEF BoardFile
<1> QED
  BY <1>2, <1>3, <1>4, <1>5, <1>6

(* A file of a tick: on the public board it shows nothing after the freeze. *)
LEMMA RoundJsonDoes ==
  ASSUME NEW j \in Score!Job
  PROVE  /\ Score!RoundJson(j) \in Score!Round
         /\ Score!RoundJson(j) # NotThere
         /\ Score!RoundJson(j).final = j.final
         /\ j.board = "public" =>
              /\ Score!RoundJson(j).points <= Freeze /\ Score!RoundJson(j).blood <= Freeze
              /\ j.tick > Freeze => Score!RoundJson(j).delta = NotThere /\ Score!RoundJson(j).attackers = Hidden
<1>1. /\ MaxScoredTick \in Nat \ {0} /\ Freeze \in Nat \ {0} /\ NotThere \notin Score!Round
      /\ j.board \in Score!Board /\ j.tick \in Score!Ticks /\ j.tick \in Int /\ j.final \in BOOLEAN
      /\ j.tick >= -1 /\ j.tick <= MaxScoredTick
  BY ToolsAssumption DEF GameFreezes, Score!Job, Score!Ticks
<1>2. CASE Score!is_frozen(j.tick, j.board)
  <2>1. Score!RoundJson(j) = [points |-> Freeze, delta |-> NotThere, blood |-> Freeze, attackers |-> Hidden, final |-> j.final]
    BY <1>1, <1>2 DEF Score!RoundJson, Score!Prev, Score!__get_first_blood_info
  <2>2. Freeze \in Score!Ticks
    BY <1>1, <1>2 DEF Score!is_frozen, Score!Ticks
  <2> QED
    BY <1>1, <2>1, <2>2 DEF Score!Round
<1>3. CASE ~Score!is_frozen(j.tick, j.board)
  <2>1. PICK prev \in Score!Ticks : prev = IF Score!Prev(j.tick, j.board) < -1 THEN -1 ELSE Score!Prev(j.tick, j.board)
    BY <1>1, <1>3 DEF Score!Prev, Score!Ticks
  <2>2. Score!RoundJson(j) = [points |-> j.tick, delta |-> prev, blood |-> j.tick, attackers |-> j.tick, final |-> j.final]
    BY <1>1, <1>3, <2>1 DEF Score!RoundJson, Score!__get_first_blood_info
  <2>3. j.board = "public" => j.tick <= Freeze
    BY <1>1, <1>3 DEF Score!is_frozen
  <2> QED
    BY <1>1, <2>1, <2>2, <2>3 DEF Score!Round
<1> QED
  BY <1>2, <1>3

(* Reading the data of a tick begins a job.                                *)
LEMMA FetchDoes ==
  ASSUME JobTypes, queue \in Seq(Score!Ticks), scored \in 0..MaxScoredTick,
         NEW p \in Score!Processes, NEW b \in Score!Board, NEW t0 \in Score!Ticks,
         NEW started \in BOOLEAN, NEW live \in BOOLEAN, Score!Fetch(p, b, t0, started, live)
  PROVE  /\ job[p] = NotThere
         /\ queue' \in Seq(Score!Ticks)
         /\ past' \in [early: BOOLEAN, rebuilt: BOOLEAN] /\ past'.rebuilt = past.rebuilt
         /\ past.early => past'.early
         /\ \E j \in Score!Job :
              /\ job' = [job EXCEPT ![p] = j]
              /\ j.board = b /\ j.tick = (IF t0 = 0 /\ ~started THEN -1 ELSE t0)
              /\ ~past'.early => j.final
<1>1. MaxScoredTick \in Nat \ {0}
  BY ToolsAssumption DEF GameFreezes
<1>2. PICK t \in Score!Ticks : t = IF t0 = 0 /\ ~started THEN -1 ELSE t0
  BY <1>1 DEF Score!Ticks
<1>3. PICK fin \in BOOLEAN : fin = (t <= scored)
  <2>1. (t <= scored) = TRUE \/ (t <= scored) = FALSE
    BY <1>1, <1>2 DEF Score!Ticks
  <2> QED
    BY <2>1, Zenon
<1>4. PICK j : j = [board |-> b, tick |-> t, live |-> live, final |-> fin]
  OBVIOUS
<1>5. j \in Score!Job /\ j.board = b /\ j.tick = t /\ j.final = fin
  BY <1>2, <1>3, <1>4 DEF Score!Job
<1>6. /\ job[p] = NotThere /\ job' = [job EXCEPT ![p] = j]
      /\ past' = [past EXCEPT !.early = @ \/ ~fin]
      /\ Score!__publish(p, b, t)
  BY <1>2, <1>3, <1>4 DEF Score!Fetch, Score!__fetch_data
<1>7. queue' \in Seq(Score!Ticks)
  BY <1>6 DEF Score!__publish
<1>8. /\ past' \in [early: BOOLEAN, rebuilt: BOOLEAN] /\ past'.rebuilt = past.rebuilt
      /\ past'.early = (past.early \/ ~fin)
  BY <1>6, Zenon DEF JobTypes
<1> QED
  BY <1>2, <1>5, <1>6, <1>7, <1>8

(* A job that begins leaves the files as they are.                         *)
LEMMA FetchKeepsFiles ==
  ASSUME FilesInv, queue \in Seq(Score!Ticks), scored \in 0..MaxScoredTick,
         NEW p \in Score!Processes, NEW b \in Score!Board, NEW t0 \in Score!Ticks,
         NEW started \in BOOLEAN, NEW live \in BOOLEAN, Score!Fetch(p, b, t0, started, live), files' = files
  PROVE  FilesInv' /\ queue' \in Seq(Score!Ticks)
<1>1. PICK j \in Score!Job : job' = [job EXCEPT ![p] = j] /\ (~past'.early => j.final)
  BY FetchDoes DEF FilesInv
<1>2. /\ queue' \in Seq(Score!Ticks)
      /\ past' \in [early: BOOLEAN, rebuilt: BOOLEAN] /\ past'.rebuilt = past.rebuilt /\ (past.early => past'.early)
  BY FetchDoes DEF FilesInv
<1>3. FileTypes' /\ JobTypes'
  BY <1>1, <1>2 DEF FilesInv, FileTypes, JobTypes
<1>4. RowsInv' /\ ShownInv' /\ Score!RoundsFrozen'
  BY <1>2 DEF FilesInv, RowsInv, RowsOf, ShownInv, Score!RoundsFrozen
<1>5. FinalInv'
  BY <1>1, <1>2 DEF FilesInv, FinalInv, JobTypes
<1> QED
  BY <1>2, <1>3, <1>4, <1>5 DEF FilesInv

(* The files after a job was written.                                      *)
LEMMA WriteDoes ==
  ASSUME FilesInv, NEW p \in Score!Processes, Score!Write(p)
  PROVE  /\ job[p] \in Score!Job /\ job' = [job EXCEPT ![p] = NotThere]
         /\ past' \in [early: BOOLEAN, rebuilt: BOOLEAN] /\ past'.early = past.early
         /\ past'.rebuilt = (past.rebuilt \/ ~Score!Fast(files[job[p].board].team, job[p].tick))
         /\ \E h \in BoardFile :
              /\ files' = [files EXCEPT ![job[p].board] = h]
              /\ h.rounds = [files[job[p].board].rounds EXCEPT ![job[p].tick] = Score!RoundJson(job[p])]
              /\ h.current = (IF job[p].live THEN job[p].tick ELSE files[job[p].board].current)
              /\ h.team = Score!Statistics(files[job[p].board], job[p].tick, job[p].board).team
              /\ h.stat = Score!Statistics(files[job[p].board], job[p].tick, job[p].board).stat
<1>1. PICK j : j = job[p]
  OBVIOUS
<1>2. j \in Score!Job /\ j # NotThere /\ j.board \in Score!Board /\ j.tick \in Score!Ticks /\ j.live \in BOOLEAN
  BY <1>1 DEF FilesInv, JobTypes, Score!Write, Score!Job
<1>3. PICK f : f = files[j.board]
  OBVIOUS
<1>4. f \in BoardFile /\ Len(f.team) = Len(f.stat)
  BY <1>2, <1>3 DEF FilesInv, FileTypes, RowsInv
<1>5. PICK s : s = Score!Statistics(f, j.tick, j.board)
  OBVIOUS
<1>6. s \in BoardFile /\ s.rounds = f.rounds /\ s.current = f.current
  BY <1>2, <1>4, <1>5, StatisticsDo
<1>7. PICK r \in Score!Round : r = Score!RoundJson(j)
  BY <1>2, RoundJsonDoes
<1>8. PICK g : g = [s EXCEPT !.rounds[j.tick] = r]
  OBVIOUS
<1>9. /\ g \in BoardFile /\ g.rounds = [f.rounds EXCEPT ![j.tick] = r]
      /\ g.current = f.current /\ g.team = s.team /\ g.stat = s.stat
  BY <1>2, <1>6, <1>7, <1>8 DEF BoardFile
<1>10. PICK h : h = IF j.live THEN Score!__create_tick_info_json(g, j.tick) ELSE g
  OBVIOUS
<1>11. /\ h \in BoardFile /\ h.rounds = g.rounds /\ h.team = g.team /\ h.stat = g.stat
       /\ h.current = IF j.live THEN j.tick ELSE g.current
  <2>1. CASE j.live
    <3>1. NotThere \notin Score!Ticks
      BY ToolsAssumption DEF GameFreezes
    <3> QED
      BY <1>2, <1>9, <1>10, <2>1, <3>1, TickInfoDoes
  <2>2. CASE ~j.live
    BY <1>9, <1>10, <2>2
  <2> QED
    BY <2>1, <2>2
<1>12. /\ files' = [files EXCEPT ![j.board] = h] /\ job' = [job EXCEPT ![p] = NotThere]
       /\ past' = [past EXCEPT !.rebuilt = @ \/ ~Score!Fast(f.team, j.tick)]
  BY <1>1, <1>3, <1>5, <1>7, <1>8, <1>10 DEF Score!Write
<1>13. /\ past' \in [early: BOOLEAN, rebuilt: BOOLEAN] /\ past'.early = past.early
       /\ past'.rebuilt = (past.rebuilt \/ ~Score!Fast(f.team, j.tick))
  BY <1>12, Zenon DEF FilesInv, JobTypes
<1> QED
  BY <1>1, <1>2, <1>3, <1>5, <1>7, <1>9, <1>11, <1>12, <1>13

(* A job that is written keeps all that is true of the files, and takes    *)
(* none away.                                                              *)
LEMMA WriteKeepsFiles ==
  ASSUME FilesInv, NEW p \in Score!Processes, Score!Write(p)
  PROVE  /\ FilesInv'
         /\ job' = [job EXCEPT ![p] = NotThere]
         /\ \A b \in Score!Board, t \in Score!Ticks :
              files[b].rounds[t] # NotThere \/ (b = job[p].board /\ t = job[p].tick) => files'[b].rounds[t] # NotThere
<1>1. PICK j : j = job[p]
  OBVIOUS
<1>2. PICK f : f = files[j.board]
  OBVIOUS
<1>3. PICK s : s = Score!Statistics(f, j.tick, j.board)
  OBVIOUS
<1>4. PICK r : r = Score!RoundJson(j)
  OBVIOUS
<1>5. PICK fast : fast = Score!Fast(f.team, j.tick)
  OBVIOUS
<1>6. /\ j \in Score!Job /\ job' = [job EXCEPT ![p] = NotThere]
      /\ past' \in [early: BOOLEAN, rebuilt: BOOLEAN] /\ past'.early = past.early
      /\ past'.rebuilt = (past.rebuilt \/ ~fast)
  BY <1>1, <1>2, <1>5, WriteDoes
<1>7. PICK h \in BoardFile :
        /\ files' = [files EXCEPT ![j.board] = h]
        /\ h.rounds = [f.rounds EXCEPT ![j.tick] = r]
        /\ h.current = (IF j.live THEN j.tick ELSE f.current)
        /\ h.team = s.team /\ h.stat = s.stat
  BY <1>1, <1>2, <1>3, <1>4, WriteDoes
<1>8. /\ j.board \in Score!Board /\ j.tick \in Score!Ticks /\ f \in BoardFile /\ Len(f.team) = Len(f.stat)
      /\ (~past.rebuilt => RowsOf(f, j.board)) /\ f.rounds \in [Score!Ticks -> Score!Round \cup {NotThere}]
  BY <1>2, <1>6 DEF FilesInv, FileTypes, RowsInv, Score!Job, BoardFile
<1>9. Len(s.team) = Len(s.stat) /\ (RowsOf(f, j.board) /\ fast => RowsOf(s, j.board))
  BY <1>3, <1>5, <1>8, StatisticsDo
<1>10. r # NotThere /\ r.final = j.final
  BY <1>4, <1>6, RoundJsonDoes
<1>11. j.board = "public" =>
         r.points <= Freeze /\ r.blood <= Freeze /\ (j.tick > Freeze => r.delta = NotThere /\ r.attackers = Hidden)
  BY <1>4, <1>6, RoundJsonDoes
<1>12. \A b \in Score!Board : files'[b] = IF b = j.board THEN h ELSE files[b]
  BY <1>7, <1>8 DEF FilesInv, FileTypes
<1>13. \A b \in Score!Board, t \in Score!Ticks :
         files'[b].rounds[t] = IF b = j.board /\ t = j.tick THEN r ELSE files[b].rounds[t]
  BY <1>2, <1>7, <1>8, <1>12
<1>14. FileTypes' /\ JobTypes'
  BY <1>6, <1>7, <1>8 DEF FilesInv, FileTypes, JobTypes
<1>15. RowsInv'
  <2>1. RowsOf(s, j.board) => RowsOf(h, j.board)
    BY <1>7 DEF RowsOf
  <2>2. ASSUME NEW b \in Score!Board PROVE Len(files'[b].team) = Len(files'[b].stat) /\ (~past'.rebuilt => RowsOf(files'[b], b))
    BY <1>6, <1>7, <1>8, <1>9, <1>12, <2>1, <2>2 DEF FilesInv, RowsInv
  <2>3. RowsInv' <=> \A b \in Score!Board : Len(files'[b].team) = Len(files'[b].stat) /\ (~past'.rebuilt => RowsOf(files'[b], b))
    BY DEF RowsInv, RowsOf
  <2> QED
    BY <2>2, <2>3
<1>16. Score!RoundsFrozen'
  <2>1. "public" \in Score!Board
    BY DEF Score!Board
  <2> SUFFICES ASSUME NEW t \in Score!Ticks, files'["public"].rounds[t] # NotThere
               PROVE  /\ files'["public"].rounds[t].points <= Freeze /\ files'["public"].rounds[t].blood <= Freeze
                      /\ t > Freeze => /\ files'["public"].rounds[t].delta = NotThere
                                       /\ files'["public"].rounds[t].attackers = Hidden
    BY DEF Score!RoundsFrozen
  <2>2. CASE j.board = "public" /\ t = j.tick
    BY <1>11, <1>13, <2>1, <2>2
  <2>3. CASE ~(j.board = "public" /\ t = j.tick)
    <3>1. files'["public"].rounds[t] = files["public"].rounds[t]
      BY <1>13, <2>1, <2>3
    <3> QED
      BY <3>1 DEF FilesInv, Score!RoundsFrozen
  <2> QED
    BY <2>2, <2>3
<1>17. FinalInv'
  <2> SUFFICES ASSUME ~past'.early
               PROVE  /\ \A q \in Score!Processes : job'[q] # NotThere => job'[q].final
                      /\ \A b \in Score!Board, t \in Score!Ticks :
                           files'[b].rounds[t] # NotThere => files'[b].rounds[t].final
    BY DEF FinalInv
  <2>1. /\ \A q \in Score!Processes : job[q] # NotThere => job[q].final
        /\ \A b \in Score!Board, t \in Score!Ticks : files[b].rounds[t] # NotThere => files[b].rounds[t].final
    BY <1>6 DEF FilesInv, FinalInv
  <2>2. \A q \in Score!Processes : job'[q] = IF q = p THEN NotThere ELSE job[q]
    BY <1>6 DEF FilesInv, JobTypes
  <2>3. r.final
    <3>1. j.final
      BY <1>1, <2>1 DEF Score!Write
    <3> QED
      BY <1>10, <3>1
  <2>4. ASSUME NEW b \in Score!Board, NEW t \in Score!Ticks, files'[b].rounds[t] # NotThere
        PROVE  files'[b].rounds[t].final
    BY <1>13, <2>1, <2>3, <2>4
  <2> QED
    BY <2>1, <2>2, <2>4
<1>18. ShownInv'
  <2> SUFFICES ASSUME NEW b \in Score!Board, files'[b].current \notin {NotThere, -1}
               PROVE  files'[b].rounds[files'[b].current] # NotThere
    BY DEF ShownInv
  <2>1. files'[b].current \in Score!Ticks
    <3>1. files'[b] \in BoardFile
      BY <1>14 DEF FileTypes
    <3> QED
      BY <3>1 DEF BoardFile
  <2>2. files'[b].current = files[b].current \/ (b = j.board /\ files'[b].current = j.tick)
    BY <1>2, <1>7, <1>12
  <2> QED
    BY <1>10, <1>13, <2>1, <2>2 DEF FilesInv, ShownInv
<1>19. \A b \in Score!Board, t \in Score!Ticks :
         files[b].rounds[t] # NotThere \/ (b = j.board /\ t = j.tick) => files'[b].rounds[t] # NotThere
  BY <1>10, <1>13
<1> QED
  BY <1>1, <1>6, <1>14, <1>15, <1>16, <1>17, <1>18, <1>19 DEF FilesInv

(* update_tick_info without a tick changes only what is current, to -1 if  *)
(* there was no file.                                                      *)
LEMMA TickInfoKeepsFiles ==
  ASSUME FilesInv, queue \in Seq(Score!Ticks), Score!update_tick_info, job' = job, past' = past
  PROVE  /\ FilesInv' /\ queue' \in Seq(Score!Ticks)
         /\ \A b \in Score!Board : files'[b].rounds = files[b].rounds
<1>1. ASSUME NEW b \in Score!Board
      PROVE  /\ files'[b] \in BoardFile /\ files'[b].rounds = files[b].rounds
             /\ files'[b].team = files[b].team /\ files'[b].stat = files[b].stat
             /\ files'[b].current = IF files[b].current = NotThere THEN -1 ELSE files[b].current
             /\ files'[b].current \in Score!Ticks
  <2>1. files[b] \in BoardFile /\ files'[b] = Score!__create_tick_info_json(files[b], NotThere)
    BY <1>1 DEF FilesInv, FileTypes, Score!update_tick_info
  <2> QED
    BY <2>1, TickInfoDoes
<1>2. FileTypes' /\ JobTypes'
  <2>1. PICK tf : files' = [b \in Score!Board |-> tf[b]]
    BY DEF Score!update_tick_info
  <2> QED
    BY <1>1, <2>1 DEF FilesInv, FileTypes, JobTypes
<1>3. queue' \in Seq(Score!Ticks)
  <2>1. files'["internal"].current \in Score!Ticks
    BY <1>1 DEF Score!Board
  <2> QED
    BY <2>1 DEF Score!update_tick_info, Score!__publish
<1>4. RowsInv' /\ FinalInv' /\ ShownInv'
  BY <1>1 DEF FilesInv, RowsInv, RowsOf, FinalInv, ShownInv
<1>5. Score!RoundsFrozen'
  <2>1. files'["public"].rounds = files["public"].rounds
    BY <1>1 DEF Score!Board
  <2> QED
    BY <2>1 DEF FilesInv, Score!RoundsFrozen
<1> QED
  BY <1>1, <1>2, <1>3, <1>4, <1>5 DEF FilesInv

(* A reset deletes the files of later ticks.                               *)
LEMMA ResetDoes ==
  ASSUME NEW f \in BoardFile, NEW n \in 0..MaxScoredTick, NEW b \in Score!Board
  PROVE  /\ Score!reset_scoreboard(f, n, b) \in BoardFile
         /\ Score!reset_scoreboard(f, n, b).rounds = [t \in Score!Ticks |-> IF t > n THEN NotThere ELSE f.rounds[t]]
         /\ Len(Score!reset_scoreboard(f, n, b).team) = Len(Score!reset_scoreboard(f, n, b).stat)
         /\ Score!reset_scoreboard(f, n, b).current =
              (IF f.current = NotThere THEN -1 ELSE IF f.current < n THEN f.current ELSE n)
<1>1. MaxScoredTick \in Nat \ {0} /\ NotThere \notin Score!Ticks
  BY ToolsAssumption DEF GameFreezes
<1>2. PICK rounds : rounds = [t \in Score!Ticks |-> IF t > n THEN NotThere ELSE f.rounds[t]]
  OBVIOUS
<1>3. rounds \in [Score!Ticks -> Score!Round \cup {NotThere}]
  BY <1>2 DEF BoardFile
<1>4. PICK kept : kept = [f EXCEPT !.rounds = rounds, !.team = <<>>, !.stat = <<>>]
  OBVIOUS
<1>5. kept \in BoardFile /\ kept.rounds = rounds /\ Len(kept.team) = Len(kept.stat)
  <2>1. <<>> \in Seq(Score!Ticks) /\ <<>> \in Seq(Score!Ticks \cup {Hidden, NoOne})
    OBVIOUS
  <2> QED
    BY <1>3, <1>4, <2>1 DEF BoardFile
<1>6. PICK c \in Score!Ticks : c = IF f.current = NotThere THEN -1 ELSE f.current
  BY <1>1 DEF BoardFile, Score!Ticks
<1>7. Score!__create_tick_info_json(f, NotThere).current = c
  BY <1>6, TickInfoDoes
<1>8. PICK t \in Score!Ticks : t = IF c < n THEN c ELSE n
  BY <1>1, <1>6 DEF Score!Ticks
<1>9. PICK s : s = Score!Statistics(kept, t, b)
  OBVIOUS
<1>10. s \in BoardFile /\ s.rounds = rounds /\ Len(s.team) = Len(s.stat)
  BY <1>5, <1>8, <1>9, StatisticsDo
<1>11. Score!reset_scoreboard(f, n, b) = Score!__create_tick_info_json(s, t)
  BY <1>2, <1>4, <1>7, <1>8, <1>9 DEF Score!reset_scoreboard, Score!reset_to_tick, Score!Lower
<1>12. PICK g : g = Score!__create_tick_info_json(s, t)
  OBVIOUS
<1>13. g \in BoardFile /\ g.rounds = s.rounds /\ g.team = s.team /\ g.stat = s.stat /\ g.current = t
  BY <1>1, <1>8, <1>10, <1>12, TickInfoDoes
<1>14. t = IF f.current = NotThere THEN -1 ELSE IF f.current < n THEN f.current ELSE n
  BY <1>1, <1>6, <1>8
<1> QED
  BY <1>2, <1>10, <1>11, <1>12, <1>13, <1>14

(* A reset keeps what is true of the files, and those up to its tick, if   *)
(* there was one for each of them.                                         *)
LEMMA ResetKeepsFiles ==
  ASSUME FilesInv, NEW n \in 0..MaxScoredTick, Score!Reset(n), \A b \in Score!Board : Whole(b, n)
  PROVE  FilesInv' /\ \A b \in Score!Board : Whole(b, n)'
<1>1. /\ files' = [b \in Score!Board |-> Score!reset_scoreboard(files[b], n, b)] /\ job' = job
      /\ past' = [past EXCEPT !.rebuilt = TRUE] /\ job["master"] = NotThere
  BY DEF Score!Reset
<1>2. past' \in [early: BOOLEAN, rebuilt: BOOLEAN] /\ past'.rebuilt = TRUE /\ past'.early = past.early
  BY <1>1 DEF FilesInv, JobTypes
<1>3. ASSUME NEW b \in Score!Board
      PROVE  /\ files'[b] \in BoardFile /\ Len(files'[b].team) = Len(files'[b].stat)
             /\ \A t \in Score!Ticks : files'[b].rounds[t] = IF t > n THEN NotThere ELSE files[b].rounds[t]
             /\ files'[b].current =
                  (IF files[b].current = NotThere THEN -1 ELSE IF files[b].current < n THEN files[b].current ELSE n)
  <2>1. files[b] \in BoardFile /\ files'[b] = Score!reset_scoreboard(files[b], n, b)
    BY <1>1, <1>3 DEF FilesInv, FileTypes
  <2>2. PICK h : h = Score!reset_scoreboard(files[b], n, b)
    OBVIOUS
  <2>3. /\ h \in BoardFile /\ Len(h.team) = Len(h.stat)
        /\ h.rounds = [t \in Score!Ticks |-> IF t > n THEN NotThere ELSE files[b].rounds[t]]
        /\ h.current =
             (IF files[b].current = NotThere THEN -1 ELSE IF files[b].current < n THEN files[b].current ELSE n)
    BY <1>3, <2>1, <2>2, ResetDoes
  <2> QED
    BY <2>1, <2>2, <2>3
<1>4. FileTypes' /\ JobTypes'
  <2>1. PICK tf : files' = [b \in Score!Board |-> tf[b]]
    BY <1>1
  <2> QED
    BY <1>1, <1>2, <1>3, <2>1 DEF FilesInv, FileTypes, JobTypes
<1>5. RowsInv'
  BY <1>2, <1>3 DEF RowsInv
<1>6. Score!RoundsFrozen'
  <2>1. \A t \in Score!Ticks : files'["public"].rounds[t] \in {NotThere, files["public"].rounds[t]}
    BY <1>3 DEF Score!Board
  <2> SUFFICES ASSUME NEW t \in Score!Ticks, files'["public"].rounds[t] # NotThere
               PROVE  /\ files'["public"].rounds[t].points <= Freeze /\ files'["public"].rounds[t].blood <= Freeze
                      /\ t > Freeze => /\ files'["public"].rounds[t].delta = NotThere
                                       /\ files'["public"].rounds[t].attackers = Hidden
    BY DEF Score!RoundsFrozen
  <2>2. files'["public"].rounds[t] = files["public"].rounds[t]
    BY <2>1
  <2> QED
    BY <2>2 DEF FilesInv, Score!RoundsFrozen
<1>7. FinalInv'
  <2>1. \A b \in Score!Board, t \in Score!Ticks : files'[b].rounds[t] \in {NotThere, files[b].rounds[t]}
    BY <1>3
  <2> QED
    BY <1>1, <1>2, <2>1 DEF FilesInv, FinalInv
<1>8. \A b \in Score!Board, t \in 0..n : files[b].rounds[t] # NotThere /\ files'[b].rounds[t] # NotThere
  <2>1. \A t \in 0..n : t \in Score!Ticks /\ ~(t > n)
    BY ToolsAssumption DEF GameFreezes, Score!Ticks
  <2> QED
    BY <1>1, <1>3, <2>1 DEF Whole, Comes
<1>9. ShownInv'
  <2> SUFFICES ASSUME NEW b \in Score!Board, files'[b].current \notin {NotThere, -1}
               PROVE  files'[b].rounds[files'[b].current] # NotThere
    BY DEF ShownInv
  <2>1. files[b].current \in Score!Ticks /\ files[b].current \in Int /\ files[b].current # NotThere
    BY <1>3 DEF FilesInv, FileTypes, BoardFile, Score!Ticks
  <2>2. CASE files[b].current < n
    BY <1>3, <2>1, <2>2 DEF FilesInv, ShownInv
  <2>3. CASE ~(files[b].current < n)
    BY <1>3, <1>8, <2>1, <2>3
  <2> QED
    BY <2>2, <2>3
<1> QED
  BY <1>4, <1>5, <1>6, <1>7, <1>8, <1>9 DEF FilesInv, Whole, Comes

(* Boards stay complete as long as no file of theirs disappears.           *)
LEMMA WholeOn ==
  ASSUME NEW b \in Score!Board, \A t \in Score!Ticks : Comes(b, t) => Comes(b, t)',
         trouble' = trouble \/ trouble' = "none"
  PROVE  \A n \in -2..MaxScoredTick :
           /\ Whole(b, n) => Whole(b, n)'
           /\ WholeButLast(b, n) => WholeButLast(b, n)'
<1> SUFFICES ASSUME NEW n \in -2..MaxScoredTick
             PROVE  /\ Whole(b, n) => Whole(b, n)'
                    /\ WholeButLast(b, n) => WholeButLast(b, n)'
  OBVIOUS
<1>1. MaxScoredTick \in Nat
  BY ToolsAssumption DEF GameFreezes
<1>2. /\ \A t \in 0..n : t \in Score!Ticks
      /\ \A t \in 0..(n - 1) : t \in Score!Ticks
      /\ n >= 0 => n \in Score!Ticks
  BY <1>1 DEF Score!Ticks
<1> QED
  BY <1>2 DEF Whole, WholeButLast

(* What the others do, and a job that is written, leaves the end thread    *)
(* where it is and no board with a file less.                              *)
LEMMA OthersStep ==
  ASSUME ScoreTypes, ThreadInv, UNCHANGED <<tick, timer, scored, master>>,
         job'["master"] = job["master"] \/ job'["master"] = NotThere,
         trouble' = trouble \/ trouble' = "none",
         \A b \in Score!Board, t \in Score!Ticks : Comes(b, t) => Comes(b, t)'
  PROVE  ThreadInv'
<1>1. InTime' /\ OneCrash'
  BY DEF ThreadInv, InTime, OneCrash, Over
<1>2. scored \in 0..MaxScoredTick /\ MaxScoredTick \in Nat \ {0}
  BY ToolsAssumption DEF ScoreTypes, TimerTypes, GameFreezes
<1>3. \A b \in Score!Board : \A n \in -2..MaxScoredTick :
        /\ Whole(b, n) => Whole(b, n)'
        /\ WholeButLast(b, n) => WholeButLast(b, n)'
  BY WholeOn
<1>4. scored \in -2..MaxScoredTick /\ scored - 1 \in -2..MaxScoredTick /\ scored \in Score!Ticks
  BY <1>2 DEF Score!Ticks
<1>5. "public" \in Score!Board /\ "internal" \in Score!Board
  BY DEF Score!Board
<1>6. master.pc \in {"create", "before"} => Score!Boards[master.board] \in Score!Board
  BY TwoBoards DEF ThreadInv, InTime
<1>7. PICK b0 : b0 = Score!Boards[master.board]
  OBVIOUS
<1>8. CompleteInv
  BY DEF ThreadInv
<1>9. CASE master.pc = "idle"
  <2>1. tick > 0 \/ timer = "SUSPENDED" => \A b \in Score!Board : Whole(b, scored)'
    BY <1>3, <1>4, <1>8, <1>9 DEF CompleteInv
  <2> QED
    BY <1>1, <1>9, <2>1 DEF ThreadInv, CompleteInv
<1>10. CASE master.pc \in {"score", "dead"}
  <2>1. \A b \in Score!Board : WholeButLast(b, scored)'
    BY <1>3, <1>4, <1>8, <1>10 DEF CompleteInv
  <2> QED
    BY <1>1, <1>10, <2>1 DEF ThreadInv, CompleteInv
<1>11. CASE master.pc \in {"create", "before"}
  <2>1. b0 \in Score!Board /\ WholeButLast(b0, scored - 1)'
    BY <1>3, <1>4, <1>6, <1>7, <1>8, <1>11 DEF CompleteInv
  <2>2. IF master.board = 1 THEN WholeButLast("internal", scored - 1)' ELSE Whole("public", scored)'
    BY <1>3, <1>4, <1>5, <1>8, <1>11 DEF CompleteInv
  <2>3. master.pc = "before" => Comes(b0, scored)'
    BY <1>4, <1>7, <1>8, <2>1 DEF CompleteInv
  <2> QED
    BY <1>1, <1>7, <1>11, <2>1, <2>2, <2>3 DEF ThreadInv, CompleteInv
<1> QED
  BY <1>9, <1>10, <1>11 DEF ScoreTypes, MasterTypes

(* The thread that starts the game has nothing to rely on.                 *)
LEMMA StartThread ==
  ASSUME tick' = 1, timer' = "RUNNING", scored' = 0, job'["master"] = NotThere,
         master' = [tick |-> 0, board |-> 1, pc |-> "create"]
  PROVE  ThreadInv'
<1>1. InTime' /\ OneCrash'
  BY DEF InTime, OneCrash, Over
<1>2. /\ WholeButLast(Score!Boards[master.board], scored - 1)'
      /\ WholeButLast("internal", scored - 1)'
  BY DEF WholeButLast, Whole
<1>3. CompleteInv'
  BY <1>2 DEF CompleteInv
<1> QED
  BY <1>1, <1>3 DEF ThreadInv

(* The end of a tick, or of a pause.                                       *)
LEMMA TimerStep ==
  ASSUME ScoreTypes, FilesInv, ThreadInv, Score!StartGame \/ Score!EndTick \/ Score!Resume
  PROVE  ThreadInv'
<1>1. /\ scored \in Nat /\ tick \in Nat
      /\ scored' = scored /\ job' = job
      /\ InTime /\ CompleteInv /\ OneCrash
  BY ToolsAssumption
  DEF GameFreezes, ScoreTypes, TimerTypes, ThreadInv, Score!StartGame, Score!EndTick, Score!Resume
<1>2. tick = 0 => scored = 0 /\ job["master"] = NotThere
  BY <1>1 DEF InTime, Over, ScoreTypes, TimerTypes
<1>3. CASE Score!StartGame
  BY <1>1, <1>2, <1>3, StartThread DEF Score!StartGame
<1>4. CASE Score!Resume /\ tick = 0
  BY <1>1, <1>2, <1>4, StartThread DEF Score!Resume
<1>5. ASSUME Score!EndTick \/ (Score!Resume /\ tick # 0)
      PROVE  /\ \A b \in Score!Board : \A t : Comes(b, t) => Comes(b, t)'
             /\ trouble' = trouble /\ master.pc \in {"idle", "dead"}
             /\ tick > 0
             /\ \A b \in Score!Board : master.pc = "idle" => Whole(b, scored)
             /\ \A b \in Score!Board : master.pc = "dead" => WholeButLast(b, scored)
  <2>1. files' = files /\ trouble' = trouble /\ master.pc \in {"idle", "dead"} /\ tick > 0
    BY <1>1, <1>5 DEF Score!EndTick, Score!Resume, InTime
  <2> QED
    BY <1>1, <2>1 DEF Comes, CompleteInv
<1>6. ASSUME Score!EndTick \/ (Score!Resume /\ tick # 0)
      PROVE  /\ master.pc = "idle" => \A b \in Score!Board : Whole(b, scored)'
             /\ \A b \in Score!Board : WholeButLast(b, scored)'
  <2>1. \A b \in Score!Board : master.pc = "idle" => Whole(b, scored)'
    BY <1>1, <1>5, <1>6 DEF Whole
  <2>2. \A b \in Score!Board : Whole(b, scored)' => WholeButLast(b, scored)'
    BY <1>1 DEF Whole, WholeButLast
  <2>3. \A b \in Score!Board : WholeButLast(b, scored) => WholeButLast(b, scored)'
    BY <1>1, <1>5, <1>6 DEF Whole, WholeButLast
  <2> QED
    BY <1>5, <1>6, <2>1, <2>2, <2>3
<1>7. CASE Score!EndTick
  <2>1. /\ timer = "RUNNING" /\ tick = scored + 1 /\ master' = [tick |-> tick, board |-> 0, pc |-> "score"]
        /\ \/ tick' = tick + 1 /\ timer' = "RUNNING"
           \/ tick' = tick /\ timer' = "SUSPENDED" /\ tick < MaxScoredTick
           \/ tick' = tick /\ timer' = "STOPPED"
    BY <1>1, <1>7 DEF Score!EndTick, InTime, Over
  <2>2. InTime' /\ OneCrash'
    BY <1>1, <1>5, <1>7, <2>1 DEF InTime, OneCrash, Over
  <2>3. CompleteInv'
    BY <1>6, <1>7, <2>1 DEF CompleteInv
  <2> QED
    BY <2>2, <2>3 DEF ThreadInv
<1>8. CASE Score!Resume /\ tick # 0
  <2>1. timer = "SUSPENDED" /\ timer' = "RUNNING" /\ tick' = tick + 1 /\ master' = master /\ tick = scored
    BY <1>1, <1>5, <1>8 DEF Score!Resume, InTime, Over
  <2>2. InTime' /\ OneCrash'
    BY <1>1, <1>5, <1>8, <2>1 DEF InTime, OneCrash, Over
  <2>3. CompleteInv'
    BY <1>5, <1>6, <1>8, <2>1 DEF CompleteInv
  <2> QED
    BY <2>2, <2>3 DEF ThreadInv
<1> QED
  BY <1>3, <1>4, <1>7, <1>8

(* A thread that dies was about to write its tick: all before are there.   *)
LEMMA DeathStep ==
  ASSUME ScoreTypes, FilesInv, ThreadInv, Score!ThreadDies
  PROVE  ThreadInv'
<1>1. /\ scored \in Nat /\ UNCHANGED <<tick, timer, scored, files>> /\ trouble = "crash" /\ trouble' = "none"
      /\ master' = [master EXCEPT !.pc = "dead"] /\ job' = [job EXCEPT !["master"] = NotThere]
      /\ job["master"] # NotThere
  BY ToolsAssumption DEF GameFreezes, ScoreTypes, TimerTypes, Score!ThreadDies, Score!clock
<1>2. master'.pc = "dead" /\ master'.tick = master.tick /\ job'["master"] = NotThere
  BY <1>1 DEF ScoreTypes, MasterTypes, FilesInv, JobTypes, Score!Processes
<1>3. /\ master.pc = "before" /\ job["master"].tick = scored /\ master.tick = scored /\ master.board \in 1..2
      /\ tick # 0
  BY <1>1 DEF ThreadInv, OneCrash, InTime
<1>4. InTime' /\ OneCrash'
  BY <1>1, <1>2, <1>3 DEF ThreadInv, InTime, OneCrash, Over
<1>5. \A b \in Score!Board : \A t : t # scored /\ Comes(b, t) => Comes(b, t)'
  BY <1>1, <1>3 DEF Comes
<1>6. \A b \in Score!Board : Whole(b, scored - 1)
  <2>1. ASSUME NEW b, WholeButLast(b, scored - 1) PROVE Whole(b, scored - 1)
    BY <1>1, <2>1 DEF WholeButLast, Whole
  <2>2. ASSUME NEW b, Whole(b, scored) PROVE Whole(b, scored - 1)
    BY <1>1, <2>2 DEF Whole
  <2>3. /\ WholeButLast(Score!Boards[master.board], scored - 1)
        /\ IF master.board = 1 THEN WholeButLast("internal", scored - 1) ELSE Whole("public", scored)
    BY <1>3 DEF ThreadInv, CompleteInv
  <2> QED
    BY <1>3, <2>1, <2>2, <2>3, TwoBoards DEF Score!Board
<1>7. \A b \in Score!Board : WholeButLast(b, scored)'
  BY <1>1, <1>5, <1>6 DEF WholeButLast, Whole
<1>8. CompleteInv'
  BY <1>2, <1>7 DEF CompleteInv
<1> QED
  BY <1>4, <1>8 DEF ThreadInv

(* The end thread asks for a tick by its number.                           *)
LEMMA MasterFetches ==
  ASSUME JobTypes, queue \in Seq(Score!Ticks), scored \in 0..MaxScoredTick,
         NEW b \in Score!Board, NEW t \in Score!Ticks, NEW live \in BOOLEAN, Score!Fetch("master", b, t, TRUE, live)
  PROVE  \E j \in Score!Job : job' = [job EXCEPT !["master"] = j] /\ j.board = b /\ j.tick = t
<1>1. PICK started \in BOOLEAN : started = TRUE
  OBVIOUS
<1>2. "master" \in Score!Processes /\ Score!Fetch("master", b, t, started, live)
  BY <1>1 DEF Score!Processes
<1> HIDE <1>1
<1>3. \E j \in Score!Job :
        job' = [job EXCEPT !["master"] = j] /\ j.board = b /\ j.tick = IF t = 0 /\ ~started THEN -1 ELSE t
  BY <1>2, FetchDoes
<1> QED
  BY <1>1, <1>3

(* The boards in turn.                                                     *)
LEMMA ThreadStep ==
  ASSUME ScoreTypes, FilesInv, ThreadInv,
         Score!Score \/ Score!CreateTick \/ Score!CreateTickBefore \/ Score!HasTickBefore
  PROVE  ThreadInv'
<1>1. /\ scored \in Nat /\ scored \in 0..MaxScoredTick /\ MaxScoredTick \in Nat \ {0}
      /\ master.tick \in 0..MaxScoredTick /\ tick \in Nat
      /\ UNCHANGED <<tick, timer, files, trouble>>
      /\ InTime /\ CompleteInv /\ OneCrash
  <2>1. UNCHANGED <<tick, timer, files, trouble>>
    BY Zenon DEF Score!Score, Score!CreateTick, Score!CreateTickBefore, Score!HasTickBefore, Score!clock
  <2> QED
    BY <2>1, ToolsAssumption DEF GameFreezes, ScoreTypes, TimerTypes, MasterTypes, ThreadInv
<1>2. CASE Score!Score
  <2>1. /\ master.pc = "score" /\ scored' = scored + 1 /\ master.tick = scored + 1 /\ job' = job
        /\ master' = [master EXCEPT !.board = 1, !.pc = "create"]
    BY <1>1, <1>2 DEF Score!Score, InTime
  <2>2. master'.pc = "create" /\ master'.board = 1 /\ master'.tick = master.tick
    BY <2>1 DEF ScoreTypes, MasterTypes
  <2>3. InTime' /\ OneCrash'
    BY <1>1, <2>1, <2>2 DEF InTime, OneCrash, Over
  <2>4. \A b \in Score!Board : WholeButLast(b, scored)
    BY <1>1, <2>1 DEF CompleteInv
  <2>5. PICK n \in Nat : n = scored /\ scored' - 1 = n
    BY <1>1, <2>1
  <2>6. \A b \in Score!Board : WholeButLast(b, n)'
    <3>1. \A b \in Score!Board : \A t : Comes(b, t) => Comes(b, t)'
      BY <1>1, <2>1 DEF Comes
    <3> QED
      BY <1>1, <2>4, <2>5, <3>1 DEF WholeButLast, Whole
  <2>7. WholeButLast(Score!Boards[master.board], scored - 1)' /\ WholeButLast("internal", scored - 1)'
    BY <2>2, <2>5, <2>6, TwoBoards DEF Score!Board
  <2>8. CompleteInv'
    BY <2>2, <2>7 DEF CompleteInv
  <2> QED
    BY <2>3, <2>8 DEF ThreadInv
<1>3. ASSUME ~Score!Score
      PROVE  /\ job["master"] = NotThere /\ scored' = scored /\ master.tick = scored
             /\ master.pc \in {"create", "before"} /\ master.board \in 1..2
             /\ Score!Boards[master.board] \in Score!Board /\ tick # 0 /\ scored \in Score!Ticks
             /\ (IF timer = "RUNNING" THEN scored + 1 ELSE scored) = tick
  <2>1. job["master"] = NotThere /\ master.pc \in {"create", "before"} /\ scored' = scored
    BY <1>3 DEF Score!CreateTick, Score!CreateTickBefore, Score!HasTickBefore, Score!Fetch, Score!clock
  <2> QED
    BY <1>1, <2>1, TwoBoards DEF InTime, Over, Score!Ticks
<1>4. CASE Score!CreateTick
  <2>0. ~Score!Score
    BY <1>4 DEF Score!CreateTick, Score!Score
  <2>1. /\ master.pc = "create" /\ master' = [master EXCEPT !.pc = "before"]
        /\ Score!Fetch("master", Score!Boards[master.board], master.tick, TRUE, TRUE)
    BY <1>4 DEF Score!CreateTick
  <2>2. master'.pc = "before" /\ master'.board = master.board /\ master'.tick = master.tick
    BY <2>1 DEF ScoreTypes, MasterTypes
  <2>3. PICK j \in Score!Job : job' = [job EXCEPT !["master"] = j] /\ j.board = Score!Boards[master.board] /\ j.tick = scored
    <3>1. "master" \in Score!Processes /\ queue \in Seq(Score!Ticks) /\ JobTypes
      BY DEF Score!Processes, ScoreTypes, TimerTypes, FilesInv
    <3>2. PICK b0 \in Score!Board : b0 = Score!Boards[master.board]
      BY <1>3, <2>0
    <3>3. PICK t0 \in Score!Ticks : t0 = scored
      BY <1>3, <2>0
    <3>4. Score!Fetch("master", b0, t0, TRUE, TRUE)
      BY <1>3, <2>0, <2>1, <3>2, <3>3
    <3>5. scored \in 0..MaxScoredTick
      BY <1>1
    <3>6. \E j \in Score!Job : job' = [job EXCEPT !["master"] = j] /\ j.board = b0 /\ j.tick = t0
      BY <3>1, <3>4, <3>5, MasterFetches, Zenon
    <3> QED
      BY <3>2, <3>3, <3>6
  <2>4. job'["master"] = j /\ j # NotThere
    BY <2>3, ToolsAssumption DEF FilesInv, JobTypes, Score!Processes, GameFreezes
  <2>5. InTime' /\ OneCrash'
    BY <1>1, <1>3, <2>0, <2>2, <2>3, <2>4 DEF InTime, OneCrash, Over
  <2>6. \A b \in Score!Board : \A t : Comes(b, t) => Comes(b, t)'
    BY <1>1, <1>3, <2>0 DEF Comes
  <2>7. \A b : /\ b \in Score!Board /\ Whole(b, scored) => Whole(b, scored)'
               /\ b \in Score!Board /\ WholeButLast(b, scored - 1) => WholeButLast(b, scored - 1)'
    BY <1>1, <1>3, <2>0, <2>6 DEF Whole, WholeButLast
  <2>8. Comes(Score!Boards[master.board], scored)'
    BY <1>3, <2>0, <2>2, <2>3, <2>4 DEF Comes
  <2>9. WholeButLast(Score!Boards[master.board], scored - 1)'
    BY <1>1, <1>3, <2>0, <2>1, <2>2, <2>7 DEF CompleteInv
  <2>10. IF master.board = 1 THEN WholeButLast("internal", scored - 1)' ELSE Whole("public", scored)'
    BY <1>1, <1>3, <2>0, <2>1, <2>7 DEF CompleteInv, Score!Board
  <2>11. CompleteInv'
    BY <2>2, <2>8, <2>9, <2>10 DEF CompleteInv
  <2> QED
    BY <2>5, <2>11 DEF ThreadInv
<1>5. CASE Score!CreateTickBefore \/ Score!HasTickBefore
  <2>0. ~Score!Score /\ master.pc = "before"
    BY <1>5 DEF Score!CreateTickBefore, Score!HasTickBefore, Score!Score
  <2>1. PICK b0 \in Score!Board : b0 = Score!Boards[master.board]
    BY <1>3, <2>0
  <2>2. /\ \A t \in 0..(scored - 2) : files[b0].rounds[t] # NotThere
        /\ scored > 0 => files[b0].rounds[scored - 1] # NotThere \/ trouble = "none"
        /\ files[b0].rounds[scored] # NotThere
    BY <1>1, <1>3, <2>0, <2>1 DEF CompleteInv, WholeButLast, Whole, Comes
  <2>3. /\ master' = Score!NextBoard(master)
        /\ IF master.board = 2 THEN master'.pc = "idle" /\ master'.board = 2 ELSE master'.pc = "create" /\ master'.board = 2
        /\ master'.tick = master.tick
    BY <1>5 DEF Score!NextBoard, ScoreTypes, MasterTypes, Score!CreateTickBefore, Score!HasTickBefore
  <2>4. /\ Whole(b0, scored)'
        /\ trouble = "crash" => job'["master"] = NotThere
        /\ \A b \in Score!Board : \A t : Comes(b, t) => Comes(b, t)'
    <3>1. scored > 0 => scored - 1 \in Score!Ticks
      BY <1>1 DEF Score!Ticks
    <3>2. scored > 0 =>
            (Score!exists(Score!Boards[master.board], master.tick - 1, TRUE) <=> files[b0].rounds[scored - 1] # NotThere)
      BY <1>3, <2>0, <2>1 DEF Score!exists
    <3>3. CASE Score!CreateTickBefore
      <4>1. scored > 0 /\ files[b0].rounds[scored - 1] = NotThere
        BY <1>3, <2>0, <3>2, <3>3 DEF Score!CreateTickBefore
      <4>2. Score!Fetch("master", b0, scored - 1, TRUE, FALSE)
        BY <1>3, <2>0, <2>1, <3>3 DEF Score!CreateTickBefore
      <4>3. PICK j \in Score!Job : job' = [job EXCEPT !["master"] = j] /\ j.board = b0 /\ j.tick = scored - 1
        <5>1. "master" \in Score!Processes /\ queue \in Seq(Score!Ticks) /\ JobTypes
          BY DEF Score!Processes, ScoreTypes, TimerTypes, FilesInv
        <5> QED
          BY <1>1, <2>1, <3>1, <4>1, <4>2, <5>1, MasterFetches
      <4>4. job'["master"] = j /\ j # NotThere
        BY <4>3, ToolsAssumption DEF FilesInv, JobTypes, Score!Processes, GameFreezes
      <4>5. \A t \in 0..scored : t \in 0..(scored - 2) \/ t = scored - 1 \/ t = scored
        BY <1>1
      <4>6. Whole(b0, scored)'
        BY <1>1, <1>3, <2>0, <2>2, <4>3, <4>4, <4>5 DEF Whole, Comes
      <4> QED
        BY <1>1, <1>3, <2>0, <2>2, <4>1, <4>6 DEF Comes
    <3>4. CASE Score!HasTickBefore
      <4>1. scored = 0 \/ files[b0].rounds[scored - 1] # NotThere
        <5>1. master.tick = 0 \/ Score!exists(Score!Boards[master.board], master.tick - 1, TRUE)
          BY <3>4 DEF Score!HasTickBefore
        <5>2. scored = 0 \/ scored > 0
          BY <1>1
        <5> QED
          BY <1>3, <2>0, <3>2, <5>1, <5>2
      <4>2. \A t \in 0..scored : t \in 0..(scored - 2) \/ t = scored - 1 \/ t = scored
        BY <1>1
      <4>3. \A t \in 0..scored : files[b0].rounds[t] # NotThere
        BY <1>1, <2>2, <4>1, <4>2
      <4>4. job' = job
        BY <3>4 DEF Score!HasTickBefore
      <4> QED
        BY <1>1, <1>3, <2>0, <4>3, <4>4 DEF Whole, Comes
    <3> QED
      BY <1>5, <3>3, <3>4
  <2>5. InTime' /\ OneCrash'
    BY <1>1, <1>3, <2>0, <2>3, <2>4 DEF InTime, OneCrash, Over
  <2>6. CASE master.board = 2
    <3>1. Whole("public", scored)'
      BY <1>1, <1>3, <2>0, <2>4, <2>6 DEF CompleteInv, Whole, Score!Board
    <3>2. \A b \in Score!Board : Whole(b, scored)'
      BY <2>1, <2>4, <2>6, <3>1, TwoBoards DEF Score!Board
    <3> QED
      BY <2>3, <2>5, <2>6, <3>2 DEF ThreadInv, CompleteInv
  <2>7. CASE master.board = 1
    <3>1. WholeButLast("internal", scored - 1)'
      BY <1>1, <1>3, <2>0, <2>4, <2>7 DEF CompleteInv, WholeButLast, Whole, Score!Board
    <3>2. WholeButLast(Score!Boards[master.board], scored - 1)' /\ Whole("public", scored)'
      BY <2>1, <2>3, <2>4, <2>7, <3>1, TwoBoards
    <3> QED
      BY <2>3, <2>5, <2>7, <3>2 DEF ThreadInv, CompleteInv
  <2> QED
    BY <1>3, <2>0, <2>6, <2>7
<1> QED
  BY <1>2, <1>4, <1>5

(* A reset goes back to a tick whose files are there.                      *)
LEMMA ResetGoesBack ==
  ASSUME ScoreInv, NEW n \in 0..MaxScoredTick, Score!Reset(n)
  PROVE  ScoreInv'
<1>1. /\ timer = "SUSPENDED" /\ n \in 0..tick /\ master.pc = "idle" /\ job["master"] = NotThere
      /\ tick' = n /\ scored' = n /\ trouble' = "none" /\ UNCHANGED <<timer, job, master, daemon, queue, tool>>
  BY DEF Score!Reset, Score!reset_redis
<1>2. /\ scored \in Nat /\ tick = scored /\ tick < MaxScoredTick /\ MaxScoredTick \in Nat
      /\ \A b \in Score!Board : Whole(b, scored)
  BY <1>1, ToolsAssumption
  DEF GameFreezes, ScoreInv, ScoreTypes, TimerTypes, ThreadInv, InTime, Over, CompleteInv
<1>3. \A b \in Score!Board : Whole(b, n)
  BY <1>1, <1>2 DEF Whole
<1>4. FilesInv' /\ \A b \in Score!Board : Whole(b, n)'
  BY <1>3, ResetKeepsFiles DEF ScoreInv
<1>5. ScoreTypes'
  BY <1>1 DEF ScoreInv, ScoreTypes, TimerTypes, MasterTypes, DaemonTypes, ToolTypes
<1>6. InTime' /\ OneCrash'
  BY <1>1, <1>2 DEF InTime, OneCrash, Over
<1>7. CompleteInv'
  BY <1>1, <1>4 DEF CompleteInv
<1> QED
  BY <1>4, <1>5, <1>6, <1>7 DEF ScoreInv, ThreadInv

(* The last tick that is over is one of the game.                          *)
LEMMA LastOverTick ==
  ASSUME ScoreTypes
  PROVE  Score!LastOver \in Score!Ticks
BY ToolsAssumption DEF GameFreezes, ScoreTypes, TimerTypes, Score!LastOver, Score!Ticks

(* Whoever writes, nothing else changes.                                   *)
LEMMA WriteStep ==
  ASSUME ScoreInv, NEW p \in Score!Processes, Score!Write(p)
  PROVE  ScoreInv'
<1>1. UNCHANGED <<tick, timer, scored, master, daemon, queue, tool, trouble>> /\ job[p] # NotThere
  BY DEF Score!Write, Score!clock
<1>2. /\ FilesInv' /\ job' = [job EXCEPT ![p] = NotThere]
      /\ \A b \in Score!Board, t \in Score!Ticks :
           files[b].rounds[t] # NotThere \/ (b = job[p].board /\ t = job[p].tick) => files'[b].rounds[t] # NotThere
  BY WriteKeepsFiles DEF ScoreInv
<1>3. \A q \in Score!Processes : job'[q] = IF q = p THEN NotThere ELSE job[q]
  BY <1>2 DEF ScoreInv, FilesInv, JobTypes
<1>4. \A b \in Score!Board, t \in Score!Ticks : Comes(b, t) => Comes(b, t)'
  BY <1>2, <1>3 DEF Comes, Score!Processes
<1>5. ThreadInv'
  <2>1. job'["master"] = job["master"] \/ job'["master"] = NotThere
    BY <1>3 DEF Score!Processes
  <2> QED
    BY <1>1, <1>4, <2>1, OthersStep DEF ScoreInv
<1>6. ScoreTypes'
  BY <1>1 DEF ScoreInv, ScoreTypes, TimerTypes, MasterTypes, DaemonTypes, ToolTypes
<1> QED
  BY <1>2, <1>5, <1>6 DEF ScoreInv

(* The end thread goes on to another place or to another board.            *)
LEMMA MasterMoves ==
  ASSUME MasterTypes
  PROVE  /\ \A pc \in {"idle", "before", "dead"} : master' = [master EXCEPT !.pc = pc] => MasterTypes'
         /\ \A i \in 1..2 : master' = [master EXCEPT !.board = i, !.pc = "create"] => MasterTypes'
<1>1. ASSUME NEW pc \in {"idle", "before", "dead"}, master' = [master EXCEPT !.pc = pc] PROVE MasterTypes'
  BY <1>1 DEF MasterTypes
<1>2. ASSUME NEW i \in 1..2, master' = [master EXCEPT !.board = i, !.pc = "create"] PROVE MasterTypes'
  <2>1. PICK m \in [tick: 0..MaxScoredTick, board: 0..2, pc: {"idle", "score", "create", "before", "dead"}] : m = master
    BY DEF MasterTypes
  <2>2. PICK k : k = [m EXCEPT !.board = i]
    OBVIOUS
  <2>3. k \in [tick: 0..MaxScoredTick, board: 0..2, pc: {"idle", "score", "create", "before", "dead"}]
    BY <2>2
  <2>4. [k EXCEPT !.pc = "create"] \in [tick: 0..MaxScoredTick, board: 0..2, pc: {"idle", "score", "create", "before", "dead"}]
    BY <2>3
  <2>5. master' = [k EXCEPT !.pc = "create"]
    BY <1>2, <2>1, <2>2
  <2> QED
    BY <2>4, <2>5 DEF MasterTypes
<1> QED
  BY <1>1, <1>2

(* The steps of the end thread and of the timer.                           *)
LEMMA MasterStep ==
  ASSUME ScoreInv, Score!Master \/ Score!ThreadDies
  PROVE  ScoreInv'
<1>1. /\ ScoreTypes /\ FilesInv /\ ThreadInv /\ queue \in Seq(Score!Ticks) /\ scored \in 0..MaxScoredTick
      /\ MaxScoredTick \in Nat \ {0}
  BY ToolsAssumption DEF ScoreInv, ScoreTypes, TimerTypes, GameFreezes
<1>2. CASE Score!StartGame
  <2>1. FilesInv' /\ queue' \in Seq(Score!Ticks)
    BY <1>1, <1>2, TickInfoKeepsFiles DEF Score!StartGame
  <2>2. ScoreTypes'
    BY <1>1, <1>2, <2>1 DEF Score!StartGame, ScoreTypes, TimerTypes, MasterTypes, DaemonTypes, ToolTypes
  <2> QED
    BY <1>1, <1>2, <2>1, <2>2, TimerStep DEF ScoreInv
<1>3. CASE Score!on_update_times
  <2>1. /\ UNCHANGED <<tick, timer, scored, job, master, daemon, tool, past>>
        /\ Score!update_tick_info /\ trouble' = "none"
    BY <1>3 DEF Score!on_update_times, Score!clock
  <2>2. /\ FilesInv' /\ queue' \in Seq(Score!Ticks)
        /\ \A b \in Score!Board : files'[b].rounds = files[b].rounds
    BY <1>1, <2>1, TickInfoKeepsFiles
  <2>3. ScoreTypes'
    BY <1>1, <2>1, <2>2 DEF ScoreTypes, TimerTypes, MasterTypes, DaemonTypes, ToolTypes
  <2>4. \A b \in Score!Board, t \in Score!Ticks : Comes(b, t) => Comes(b, t)'
    BY <2>1, <2>2 DEF Comes
  <2>5. ThreadInv'
    BY <1>1, <2>1, <2>4, OthersStep
  <2> QED
    BY <2>2, <2>3, <2>5 DEF ScoreInv
<1>4. CASE Score!EndTick \/ Score!Resume
  <2>1. /\ UNCHANGED <<scored, files, job, daemon, queue, tool, trouble, past>>
        /\ tick' \in 0..MaxScoredTick /\ timer' \in {"STOPPED", "RUNNING", "SUSPENDED"}
        /\ MasterTypes'
    BY <1>1, <1>4 DEF Score!EndTick, Score!Resume, ScoreTypes, TimerTypes, MasterTypes, ThreadInv, InTime
  <2>2. FilesInv'
    BY <1>1, <2>1 DEF FilesInv, FileTypes, JobTypes, RowsInv, RowsOf, Score!RoundsFrozen, FinalInv, ShownInv
  <2>3. ScoreTypes'
    BY <1>1, <2>1 DEF ScoreTypes, TimerTypes, DaemonTypes, ToolTypes
  <2> QED
    BY <1>1, <1>4, <2>2, <2>3, TimerStep DEF ScoreInv
<1>5. CASE Score!Score \/ Score!HasTickBefore \/ Score!ThreadDies
  <2>1. /\ UNCHANGED <<tick, timer, files, daemon, queue, tool, past>>
        /\ scored' \in 0..MaxScoredTick /\ trouble' \in Trouble \cup {"none"}
    BY <1>1, <1>5
    DEF Score!Score, Score!HasTickBefore, Score!ThreadDies, Score!clock, ScoreTypes, TimerTypes, MasterTypes
  <2>2. MasterTypes'
    <3>1. \/ master' = [master EXCEPT !.board = 1, !.pc = "create"]
          \/ master' = [master EXCEPT !.board = 2, !.pc = "create"]
          \/ master' = [master EXCEPT !.pc = "idle"]
          \/ master' = [master EXCEPT !.pc = "dead"]
      BY <1>5 DEF Score!Score, Score!HasTickBefore, Score!ThreadDies, Score!NextBoard
    <3> QED
      BY <1>1, <3>1, MasterMoves DEF ScoreTypes
  <2>3. \A p \in Score!Processes : job'[p] = job[p] \/ job'[p] = NotThere
    BY <1>1, <1>5 DEF Score!Score, Score!HasTickBefore, Score!ThreadDies, FilesInv, JobTypes
  <2>4. JobTypes'
    BY <1>1, <1>5, <2>1 DEF Score!Score, Score!HasTickBefore, Score!ThreadDies, FilesInv, JobTypes
  <2>5. FilesInv'
    BY <1>1, <2>1, <2>3, <2>4 DEF FilesInv, FileTypes, RowsInv, RowsOf, Score!RoundsFrozen, FinalInv, ShownInv
  <2>6. ScoreTypes'
    BY <1>1, <2>1, <2>2 DEF ScoreTypes, TimerTypes, DaemonTypes, ToolTypes
  <2>7. ThreadInv'
    BY <1>1, <1>5, ThreadStep, DeathStep
  <2> QED
    BY <2>5, <2>6, <2>7 DEF ScoreInv
<1>6. CASE Score!CreateTick \/ Score!CreateTickBefore
  <2>1. /\ UNCHANGED <<tick, timer, scored, files, daemon, tool, trouble>>
        /\ master.pc \in {"create", "before"}
    BY <1>6 DEF Score!CreateTick, Score!CreateTickBefore, Score!clock
  <2>2. PICK b \in Score!Board, t \in Score!Ticks, started \in BOOLEAN, live \in BOOLEAN :
          Score!Fetch("master", b, t, started, live)
    <3>1. Score!Boards[master.board] \in Score!Board
      BY <1>1, <2>1, TwoBoards DEF ThreadInv, InTime
    <3>2. master.tick \in Score!Ticks /\ (master.tick > 0 => master.tick - 1 \in Score!Ticks)
      BY <1>1 DEF ScoreTypes, MasterTypes, Score!Ticks
    <3> QED
      BY <1>6, <3>1, <3>2 DEF Score!CreateTick, Score!CreateTickBefore
  <2>3. FilesInv' /\ queue' \in Seq(Score!Ticks)
    BY <1>1, <2>1, <2>2, FetchKeepsFiles DEF Score!Processes
  <2>4. MasterTypes'
    <3>1. \/ master' = [master EXCEPT !.pc = "before"]
          \/ master' = [master EXCEPT !.board = 2, !.pc = "create"]
          \/ master' = [master EXCEPT !.pc = "idle"]
      BY <1>6 DEF Score!CreateTick, Score!CreateTickBefore, Score!NextBoard
    <3> QED
      BY <1>1, <3>1, MasterMoves DEF ScoreTypes
  <2>5. ScoreTypes'
    BY <1>1, <2>1, <2>3, <2>4 DEF ScoreTypes, TimerTypes, DaemonTypes, ToolTypes
  <2> QED
    BY <1>1, <1>6, <2>3, <2>5, ThreadStep DEF ScoreInv
<1>7. CASE Score!Write("master")
  BY <1>7, WriteStep DEF Score!Processes
<1> QED
  BY <1>2, <1>3, <1>4, <1>5, <1>6, <1>7 DEF Score!Master

(* The other processes begin a job of their own or none.                   *)
LEMMA AsksOrNot ==
  ASSUME FilesInv, queue \in Seq(Score!Ticks), scored \in 0..MaxScoredTick, files' = files,
         NEW p \in Score!Processes, p # "master",
         \/ job' = job /\ past' = past /\ queue' \in Seq(Score!Ticks)
         \/ \E b \in Score!Board, t \in Score!Ticks, started \in BOOLEAN, live \in BOOLEAN :
              Score!Fetch(p, b, t, started, live)
  PROVE  FilesInv' /\ queue' \in Seq(Score!Ticks) /\ job'["master"] = job["master"]
<1>1. CASE job' = job /\ past' = past /\ queue' \in Seq(Score!Ticks)
  BY <1>1 DEF FilesInv, FileTypes, JobTypes, RowsInv, RowsOf, Score!RoundsFrozen, FinalInv, ShownInv
<1>2. ASSUME NEW b \in Score!Board, NEW t \in Score!Ticks, NEW started \in BOOLEAN, NEW live \in BOOLEAN,
             Score!Fetch(p, b, t, started, live)
      PROVE  FilesInv' /\ queue' \in Seq(Score!Ticks) /\ job'["master"] = job["master"]
  <2>1. FilesInv' /\ queue' \in Seq(Score!Ticks)
    BY <1>2, FetchKeepsFiles
  <2>2. JobTypes
    BY DEF FilesInv
  <2>3. \E j \in Score!Job : job' = [job EXCEPT ![p] = j]
    BY <1>2, <2>2, FetchDoes
  <2> QED
    BY <2>1, <2>2, <2>3 DEF JobTypes, Score!Processes
<1> QED
  BY <1>1, <1>2

(* The scoreboard daemon.                                                  *)
LEMMA DaemonStep ==
  ASSUME ScoreInv, Score!Daemon
  PROVE  ScoreInv'
<1> DEFINE D == [pc: {"off", "first", "prepare", "listen"}, board: 1..2, current: -1..(MaxScoredTick + 1),
                 until: Score!Ticks, started: BOOLEAN]
<1> DEFINE Placed(pc, i, current) ==
             [pc |-> pc, board |-> i, current |-> current, until |-> daemon.until, started |-> daemon.started]
<1>1. /\ ScoreTypes /\ FilesInv /\ ThreadInv /\ queue \in Seq(Score!Ticks) /\ scored \in 0..MaxScoredTick
      /\ MaxScoredTick \in Nat \ {0} /\ daemon \in D
  BY ToolsAssumption DEF ScoreInv, ScoreTypes, TimerTypes, DaemonTypes, GameFreezes
<1>2. CASE Score!Write("daemon")
  BY <1>2, WriteStep DEF Score!Processes
<1>3. ASSUME ~Score!Write("daemon")
      PROVE  UNCHANGED <<tick, timer, scored, files, master, tool, trouble>>
  BY <1>3 DEF Score!Daemon, Score!DaemonStart, Score!DaemonFirst, Score!DaemonPrepare, Score!DaemonPrepared,
              Score!DaemonHears, Score!DaemonCreate, Score!clock
<1>4. Score!Boards[daemon.board] \in Score!Board /\ Score!LastOver \in Score!Ticks /\ 0 \in Score!Ticks /\ -1 \in Score!Ticks
  BY <1>1, TwoBoards, LastOverTick DEF Score!Ticks
<1>5. daemon.current <= daemon.until => daemon.current \in Score!Ticks /\ daemon.current + 1 \in -1..(MaxScoredTick + 1)
  BY <1>1 DEF Score!Ticks
<1>6. ASSUME ~Score!Write("daemon")
      PROVE  \/ job' = job /\ past' = past /\ queue' \in Seq(Score!Ticks)
             \/ \E b \in Score!Board, t \in Score!Ticks, started \in BOOLEAN, live \in BOOLEAN :
                  Score!Fetch("daemon", b, t, started, live)
  <2>1. CASE Score!DaemonStart \/ Score!DaemonPrepared
    BY <1>1, <2>1 DEF Score!DaemonStart, Score!DaemonPrepared
  <2>2. CASE Score!DaemonFirst
    <3>1. (daemon.until = 0) \in BOOLEAN
      OBVIOUS
    <3> QED
      BY <1>1, <1>4, <2>2, <3>1 DEF Score!DaemonFirst
  <2>3. CASE Score!DaemonPrepare
    <3>1. (daemon.current = daemon.until) \in BOOLEAN /\ daemon.started \in BOOLEAN
      BY <1>1
    <3>2. daemon.current \in Score!Ticks
      BY <1>5, <2>3 DEF Score!DaemonPrepare
    <3>3. \/ UNCHANGED <<job, queue, past>>
          \/ Score!Fetch("daemon", Score!Boards[daemon.board], daemon.current, daemon.started, daemon.current = daemon.until)
      BY <2>3 DEF Score!DaemonPrepare
    <3>4. CASE UNCHANGED <<job, queue, past>>
      BY <1>1, <3>4
    <3>5. CASE Score!Fetch("daemon", Score!Boards[daemon.board], daemon.current, daemon.started, daemon.current = daemon.until)
      BY <1>4, <3>1, <3>2, <3>5, Zenon
    <3> QED
      BY <3>3, <3>4, <3>5
  <2>4. CASE Score!DaemonHears
    <3>1. Tail(queue) \in Seq(Score!Ticks)
      BY <1>1, <2>4 DEF Score!DaemonHears
    <3> QED
      BY <2>4, <3>1 DEF Score!DaemonHears
  <2>5. CASE Score!DaemonCreate
    <3>1. (timer # "STOPPED") \in BOOLEAN
      OBVIOUS
    <3> QED
      BY <1>4, <1>5, <2>5, <3>1 DEF Score!DaemonCreate
  <2> QED
    BY <1>6, <2>1, <2>2, <2>3, <2>4, <2>5 DEF Score!Daemon
<1>7. ASSUME ~Score!Write("daemon") PROVE daemon' \in D
  <2>1. CASE Score!DaemonStart
    <3>1. (timer # "STOPPED") \in BOOLEAN
      OBVIOUS
    <3> QED
      BY <1>1, <1>4, <2>1, <3>1 DEF Score!DaemonStart
  <2>2. CASE Score!DaemonFirst
    <3>1. Placed("prepare", daemon.board, -1) \in D
      BY <1>1
    <3> QED
      BY <1>1, <2>2, <3>1 DEF Score!DaemonFirst
  <2>3. CASE Score!DaemonPrepare
    <3>1. daemon.current <= daemon.until
      BY <2>3 DEF Score!DaemonPrepare
    <3>2. [daemon EXCEPT !.current = @ + 1] \in D
      BY <1>1, <1>5, <3>1
    <3>3. [daemon EXCEPT !.current = @ + 1, !.until = Score!LastOver] \in D
      BY <1>1, <1>4, <1>5, <3>1
    <3> QED
      BY <2>3, <3>2, <3>3 DEF Score!DaemonPrepare
  <2>4. CASE Score!DaemonPrepared
    <3>1. Placed("first", 2, daemon.current) \in D /\ Placed("listen", 1, daemon.current) \in D
      BY <1>1
    <3> QED
      BY <1>1, <2>4, <3>1 DEF Score!DaemonPrepared
  <2>5. CASE Score!DaemonHears
    <3>1. Head(queue) \in Score!Ticks
      BY <1>1, <2>5 DEF Score!DaemonHears
    <3>2. [daemon EXCEPT !.until = Head(queue)] \in D
      BY <1>1, <3>1
    <3> QED
      BY <2>5, <3>2 DEF Score!DaemonHears
  <2>6. CASE Score!DaemonCreate
    <3>1. daemon.current <= daemon.until
      BY <2>6 DEF Score!DaemonCreate
    <3>2. Placed(daemon.pc, 2, daemon.current) \in D /\ Placed(daemon.pc, 1, daemon.current + 1) \in D
      BY <1>1, <1>5, <3>1
    <3> QED
      BY <1>1, <2>6, <3>2 DEF Score!DaemonCreate
  <2> QED
    BY <1>7, <2>1, <2>2, <2>3, <2>4, <2>5, <2>6 DEF Score!Daemon
<1>8. ASSUME ~Score!Write("daemon") PROVE ScoreInv'
  <2>1. FilesInv' /\ queue' \in Seq(Score!Ticks) /\ job'["master"] = job["master"]
    BY <1>1, <1>3, <1>6, <1>8, AsksOrNot DEF Score!Processes
  <2>2. ScoreTypes'
    BY <1>1, <1>3, <1>7, <1>8, <2>1 DEF ScoreTypes, TimerTypes, MasterTypes, DaemonTypes, ToolTypes
  <2>3. \A b \in Score!Board, t \in Score!Ticks : Comes(b, t) => Comes(b, t)'
    BY <1>3, <1>8, <2>1 DEF Comes
  <2>4. ThreadInv'
    BY <1>1, <1>3, <1>8, <2>1, <2>3, OthersStep
  <2> QED
    BY <2>1, <2>2, <2>4 DEF ScoreInv
<1> QED
  BY <1>2, <1>8

(* The recreation of the boards.                                           *)
LEMMA ToolStep ==
  ASSUME ScoreInv, Score!Tool
  PROVE  ScoreInv'
<1> DEFINE R == [pc: {"off", "run"}, board: 1..2, rn: -1..(MaxScoredTick + 1)]
<1> DEFINE Placed(pc, i, rn) == [pc |-> pc, board |-> i, rn |-> rn]
<1>1. /\ ScoreTypes /\ FilesInv /\ ThreadInv /\ queue \in Seq(Score!Ticks) /\ scored \in 0..MaxScoredTick
      /\ MaxScoredTick \in Nat \ {0} /\ tool \in R
  BY ToolsAssumption DEF ScoreInv, ScoreTypes, TimerTypes, ToolTypes, GameFreezes
<1>2. CASE Score!Write("tool")
  BY <1>2, WriteStep DEF Score!Processes
<1>3. ASSUME Score!RecreateStep \/ Score!RecreateNext
      PROVE  /\ UNCHANGED <<tick, timer, scored, files, master, daemon>>
             /\ trouble' = trouble \/ trouble' = "none"
  BY <1>3 DEF Score!RecreateStep, Score!RecreateNext, Score!clock
<1>4. Score!Boards[tool.board] \in Score!Board /\ Score!LastOver \in Score!Ticks /\ 0 \in Score!Ticks
  BY <1>1, TwoBoards, LastOverTick DEF Score!Ticks
<1>5. tool.rn <= Score!LastOver => tool.rn \in Score!Ticks /\ tool.rn + 1 \in -1..(MaxScoredTick + 1)
  BY <1>1, <1>4 DEF Score!Ticks
<1>6. ASSUME Score!RecreateStep \/ Score!RecreateNext
      PROVE  \/ job' = job /\ past' = past /\ queue' \in Seq(Score!Ticks)
             \/ \E b \in Score!Board, t \in Score!Ticks, started \in BOOLEAN, live \in BOOLEAN :
                  Score!Fetch("tool", b, t, started, live)
  <2>1. CASE Score!RecreateNext
    BY <1>1, <2>1 DEF Score!RecreateNext
  <2>2. CASE Score!RecreateStep
    <3>1. (timer # "STOPPED" \/ Score!LastOver > 0) \in BOOLEAN /\ (tool.rn = Score!LastOver) \in BOOLEAN
      BY Zenon
    <3>2. tool.rn \in Score!Ticks
      BY <1>5, <2>2 DEF Score!RecreateStep
    <3>3. \/ Score!Fetch("tool", Score!Boards[tool.board], 0, FALSE, FALSE)
          \/ Score!Fetch("tool", Score!Boards[tool.board], tool.rn, timer # "STOPPED" \/ Score!LastOver > 0,
                         tool.rn = Score!LastOver)
      BY <2>2 DEF Score!RecreateStep
    <3> QED
      BY <1>4, <3>1, <3>2, <3>3, Zenon
  <2> QED
    BY <1>6, <2>1, <2>2
<1>7. ASSUME Score!RecreateStep \/ Score!RecreateNext PROVE tool' \in R
  <2>1. CASE Score!RecreateStep
    <3>1. tool.rn <= Score!LastOver /\ tool' = [tool EXCEPT !.rn = @ + 1, !.pc = "run"]
      BY <2>1 DEF Score!RecreateStep
    <3>2. Placed("run", tool.board, tool.rn + 1) \in R
      BY <1>1, <1>5, <3>1
    <3> QED
      BY <1>1, <3>1, <3>2
  <2>2. CASE Score!RecreateNext
    <3>1. Placed(tool.pc, 2, -1) \in R /\ Placed("off", tool.board, tool.rn) \in R
      BY <1>1
    <3> QED
      BY <1>1, <2>2, <3>1 DEF Score!RecreateNext
  <2> QED
    BY <1>7, <2>1, <2>2
<1>8. ASSUME Score!RecreateStep \/ Score!RecreateNext PROVE ScoreInv'
  <2>1. FilesInv' /\ queue' \in Seq(Score!Ticks) /\ job'["master"] = job["master"]
    BY <1>1, <1>3, <1>6, <1>8, AsksOrNot DEF Score!Processes
  <2>2. ScoreTypes'
    BY <1>1, <1>3, <1>7, <1>8, <2>1 DEF ScoreTypes, TimerTypes, MasterTypes, DaemonTypes, ToolTypes
  <2>3. \A b \in Score!Board, t \in Score!Ticks : Comes(b, t) => Comes(b, t)'
    BY <1>3, <1>8, <2>1 DEF Comes
  <2>4. ThreadInv'
    BY <1>1, <1>3, <1>8, <2>1, <2>3, OthersStep
  <2> QED
    BY <2>1, <2>2, <2>4 DEF ScoreInv
<1> QED
  BY <1>2, <1>8 DEF Score!Tool

(* The invariant holds at first.                                           *)
LEMMA ScoreInit ==
  ASSUME Score!Init
  PROVE  ScoreInv
<1>1. MaxScoredTick \in Nat \ {0} /\ -1 \in Score!Ticks
  BY ToolsAssumption DEF GameFreezes, Score!Ticks
<1>2. ScoreTypes
  <2>1. TimerTypes /\ MasterTypes
    BY <1>1 DEF Score!Init, TimerTypes, MasterTypes
  <2>2. DaemonTypes /\ ToolTypes
    BY <1>1 DEF Score!Init, DaemonTypes, ToolTypes
  <2> QED
    BY <2>1, <2>2 DEF ScoreTypes
<1>3. \A b \in Score!Board : files[b] = Score!NoFiles
  BY DEF Score!Init
<1>4. PICK f : f = Score!NoFiles
  OBVIOUS
<1>5. f \in BoardFile /\ f.team = <<>> /\ f.stat = <<>> /\ f.current = NotThere /\ \A t \in Score!Ticks : f.rounds[t] = NotThere
  BY <1>4 DEF Score!NoFiles, BoardFile
<1>6. FileTypes /\ JobTypes
  BY <1>4, <1>5 DEF Score!Init, FileTypes, JobTypes
<1>7. RowsInv /\ Score!RoundsFrozen /\ FinalInv /\ ShownInv
  BY <1>3, <1>4, <1>5 DEF Score!Init, RowsInv, RowsOf, Score!RoundsFrozen, FinalInv, ShownInv, Score!Board
<1>8. ThreadInv
  BY DEF Score!Init, ThreadInv, InTime, Over, CompleteInv, OneCrash, Score!Processes
<1> QED
  BY <1>2, <1>6, <1>7, <1>8 DEF ScoreInv, FilesInv

(* Every step keeps it.                                                    *)
LEMMA ScoreStep ==
  ASSUME ScoreInv, [Score!Next]_(Score!vars)
  PROVE  ScoreInv'
<1>1. CASE Score!Master \/ Score!ThreadDies
  BY <1>1, MasterStep
<1>2. CASE Score!Daemon
  BY <1>2, DaemonStep
<1>3. CASE Score!Tool
  BY <1>3, ToolStep
<1>4. CASE \E n \in 0..MaxScoredTick : Score!Reset(n)
  BY <1>4, ResetGoesBack
<1>5. CASE UNCHANGED Score!vars
  <2>1. UNCHANGED <<tick, timer, scored, files, job, master, daemon, queue, tool, trouble, past>>
    BY <1>5 DEF Score!vars, Score!clock
  <2>2. FilesInv'
    BY <2>1 DEF ScoreInv, FilesInv, FileTypes, JobTypes, RowsInv, RowsOf, Score!RoundsFrozen, FinalInv, ShownInv
  <2>3. ScoreTypes'
    BY <2>1 DEF ScoreInv, ScoreTypes, TimerTypes, MasterTypes, DaemonTypes, ToolTypes
  <2>4. \A b \in Score!Board, t \in Score!Ticks : Comes(b, t) => Comes(b, t)'
    BY <2>1 DEF Comes
  <2>5. ThreadInv'
    BY <2>1, <2>4, OthersStep DEF ScoreInv
  <2> QED
    BY <2>2, <2>3, <2>5 DEF ScoreInv
<1> QED
  BY <1>1, <1>2, <1>3, <1>4, <1>5 DEF Score!Next

(* What it says of the component.                                          *)
LEMMA ScoreFacts ==
  ASSUME ScoreInv
  PROVE  Score!TypeOK /\ Score!RoundsFrozen /\ Score!RowsRight /\ Score!BoardsComplete
<1>1. Score!TypeOK
  <2>1. ASSUME NEW b \in Score!Board
        PROVE  /\ \A t \in Score!Ticks : files[b].rounds[t] = NotThere \/ files[b].rounds[t] \in Score!Round
               /\ files[b].team \in Seq(Score!Ticks) /\ files[b].stat \in Seq(Score!Ticks \cup {Hidden, NoOne})
               /\ files[b].current \in Score!Ticks \cup {NotThere}
    <3>1. files[b] \in BoardFile
      BY <2>1 DEF ScoreInv, FilesInv, FileTypes
    <3> QED
      BY <3>1 DEF BoardFile
  <2>2. master.board \in 0..2 /\ daemon.board \in 1..3 /\ tool.board \in 1..3
    BY DEF ScoreInv, ScoreTypes, MasterTypes, DaemonTypes, ToolTypes
  <2> QED
    BY <2>1, <2>2 DEF Score!TypeOK, ScoreInv, ScoreTypes, TimerTypes, FilesInv, JobTypes
<1>2. Score!RoundsFrozen
  BY DEF ScoreInv, FilesInv
<1>3. Score!RowsRight
  <2>1. \A b \in Score!Board : DOMAIN files[b].team = 1..Len(files[b].team)
    BY DEF ScoreInv, FilesInv, FileTypes, BoardFile
  <2> QED
    BY <2>1 DEF ScoreInv, FilesInv, RowsInv, RowsOf, Score!RowsRight
<1>4. Score!BoardsComplete
  <2>1. ASSUME master.pc = "idle", tick > 0, job["master"] = NotThere, ~past.early,
               NEW b \in Score!Board, NEW t \in 0..scored
        PROVE  files[b].rounds[t] # NotThere /\ files[b].rounds[t].final
    <3>1. t \in Score!Ticks
      BY ToolsAssumption DEF GameFreezes, ScoreInv, ScoreTypes, TimerTypes, Score!Ticks
    <3>2. files[b].rounds[t] # NotThere
      BY <2>1 DEF ScoreInv, ThreadInv, CompleteInv, Whole, Comes
    <3> QED
      BY <2>1, <3>1, <3>2 DEF ScoreInv, FilesInv, FinalInv
  <2>2. ShownInv
    BY DEF ScoreInv, FilesInv
  <2> QED
    BY <2>1, <2>2 DEF ShownInv, Score!BoardsComplete
<1> QED
  BY <1>1, <1>2, <1>3, <1>4

(* A behaviour of the scoreboard is one of the component.                  *)
LEMMA ScoreAlone ==
  /\ Init /\ component = "scoreboard" => Score!Init
  /\ [Next]_tools /\ component = "scoreboard" => [Score!Next]_(Score!vars)
<1>1. Init /\ component = "scoreboard" => Score!Init
  BY DEF Init
<1>2. [Next]_tools /\ component = "scoreboard" => [Score!Next]_(Score!vars)
  BY DEF Next, tools, Score!vars, Score!clock
<1> QED
  BY <1>1, <1>2

(* Whoever writes the boards in which order, the end thread, the daemon,   *)
(* a recreation or a reset: no file of the public board shows more than    *)
(* the frozen tick, and rows that were not made again from the database    *)
(* have the values of their ticks (scoreboard.py).                         *)
THEOREM FilesCorrect == Spec => []FilesRight
<1> DEFINE Chosen == component = "scoreboard"
<1>1. Init => (Chosen => ScoreInv)
  BY ScoreAlone, ScoreInit
<1>2. (Chosen => ScoreInv) /\ [Next]_tools => (Chosen => ScoreInv)'
  BY ScoreAlone, ScoreStep, OneComponent
<1>3. (Chosen => ScoreInv) => FilesRight
  BY ScoreFacts DEF FilesRight
<1> QED
  BY <1>1, <1>2, <1>3, PTL DEF Spec

(* The current tick always has its file.  When the end thread of a tick is *)
(* done, the files of all ticks so far are there with their final points,  *)
(* although a thread died before or the game was reset or its boards were  *)
(* recreated in between, unless somebody asked too early                   *)
(* (_on_end_tick_deferred, create_scoreboard, reset_scoreboard).           *)
THEOREM BoardsCorrect == Spec => []BoardsComplete
<1> DEFINE Chosen == component = "scoreboard"
<1>1. Init => (Chosen => ScoreInv)
  BY ScoreAlone, ScoreInit
<1>2. (Chosen => ScoreInv) /\ [Next]_tools => (Chosen => ScoreInv)'
  BY ScoreAlone, ScoreStep, OneComponent
<1>3. (Chosen => ScoreInv) => BoardsComplete
  BY ScoreFacts DEF BoardsComplete
<1> QED
  BY <1>1, <1>2, <1>3, PTL DEF Spec
=============================================================================
