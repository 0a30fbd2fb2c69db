------------------------------ MODULE VpnHooks ------------------------------
(***************************************************************************)
(* The OpenVPN servers of one team: the hooks that write its connection    *)
(* status into the database and switch the other servers on and off        *)
(* (vpn/on-*.py, on-*.sh), vpnctl.py and reset-connection-status.py.       *)
(*                                                                         *)
(* The servers: "self" for a network hosted by the team, "vulnbox" for the *)
(* vulnbox in the cloud, "players" for the players who use that one.       *)
(* systemctl and OpenVPN are external: a server runs its hooks one at a    *)
(* time, runs the hook for its tunnel's end before it stops, and starts    *)
(* again only after it has stopped.                                        *)
(***************************************************************************)
EXTENDS Integers, Sequences

CONSTANTS
  Commands,     (* vpnctl commands that are tried                          *)
  MaxClients,   (* bound: players connected at a time                      *)
  MaxEvents,    (* bound: tunnels and players that come up                 *)
  MaxCommands,  (* bound: vpnctl commands                                  *)
  MaxReboots    (* bound: reboots of the VPN server                        *)

VARIABLES
  unit,      (* state of the services                                      *)
  link,      (* tunnels that are up                                        *)
  clients,   (* players that are connected                                 *)
  joining,   (* the hook of a new player is about to insert the team       *)
  hook,      (* what is left of the running hook of a server               *)
  ctl,       (* what is left of a vpnctl command                           *)
  row,       (* the team in the database, or None                          *)
  ever,      (* events, commands and reboots so far                        *)
  stale,     (* history: servers with a status from before the reboot, or  *)
             (* reset under a connection                                   *)
  orderly    (* history: every command was a startup or fix that began     *)
             (* with a right status and nothing else going on, and no      *)
             (* tunnel or player came or went while it was running         *)

vars == <<unit, link, clients, joining, hook, ctl, row, ever, stale, orderly>>

Tunnels == {"self", "vulnbox"}
Units == Tunnels \cup {"players"}
None == <<>>
NewRow == [self |-> FALSE, vulnbox |-> FALSE, count |-> 0, seen |-> "never"]
Row == [self: BOOLEAN, vulnbox: BOOLEAN, count: Int, seen: {"never", "before", "since"}]
Quiet == /\ ctl = <<>> /\ ~joining
         /\ \A u \in Units : unit[u] # "stopping"
         /\ \A u \in Tunnels : hook[u] = <<>>

TypeOK ==
  /\ unit \in [Units -> {"on", "off", "stopping"}] /\ link \in [Tunnels -> BOOLEAN] /\ clients \in 0..MaxClients
  /\ row = None \/ row \in Row
  /\ stale \subseteq Units

Init ==
  /\ unit = [u \in Units |-> "off"] /\ link = [u \in Tunnels |-> FALSE] /\ clients = 0 /\ joining = FALSE
  /\ hook = [u \in Tunnels |-> <<>>] /\ ctl = <<>>
  /\ row \in {None, NewRow}
  /\ ever = [events |-> 0, commands |-> 0, reboots |-> 0] /\ stale = {}
  /\ orderly = TRUE

-----------------------------------------------------------------------------
(* Programs: what the hooks and vpnctl do one after the other.             *)

(* Mutant: the self-hosted network is not stopped.                         *)
OnConnectNoStop(u) ==
  IF u = "self" THEN <<<<"connect", {u}>>, <<"stop", {"players"}>>, <<"wait", {"players"}>>>>
  ELSE <<<<"connect", {u}>>, <<"start", {"players"}>>>>

OnConnect(u) ==
  IF u = "self" THEN <<<<"connect", {u}>>, <<"stop", {"players"}>>, <<"wait", {"players"}>>>>
  ELSE <<<<"connect", {u}>>, <<"stop", {"self"}>>, <<"wait", {"self"}>>, <<"start", {"players"}>>>>

OnDisconnect(u) ==
  <<<<"disconnect", {u}>>, <<"start", IF u = "self" THEN {"players"} ELSE {"self"}>>>>

(* The steps of on-connect.py and on-disconnect.py.  A team that is not in *)
(* the database is inserted by a second transaction, which fails if        *)
(* another hook was faster.                                                *)
connect(u) ==
  /\ row # None
  /\ row' = [row EXCEPT ![u] = TRUE, !.seen = "since"]
  /\ stale' = stale \ {u}
  /\ hook' = [hook EXCEPT ![u] = Tail(@)]
  /\ UNCHANGED <<unit, link, clients, joining>>

connect_new(u) ==
  /\ row = None
  /\ hook' = [hook EXCEPT ![u] = <<<<"insert", {u}>>>> \o Tail(@)]
  /\ UNCHANGED <<unit, link, clients, joining, row, stale>>

insert(u) ==
  /\ row = None
  /\ row' = [NewRow EXCEPT ![u] = TRUE, !.seen = "since"]
  /\ hook' = [hook EXCEPT ![u] = Tail(@)]
  /\ UNCHANGED <<unit, link, clients, joining, stale>>

(* The failed hook ends the OpenVPN server.                                *)
insert_fails(u) ==
  /\ row # None
  /\ hook' = [hook EXCEPT ![u] = <<>>]
  /\ link' = [link EXCEPT ![u] = FALSE]
  /\ unit' = [unit EXCEPT ![u] = "off"]
  /\ UNCHANGED <<clients, joining, row, stale>>

disconnect(u) ==
  /\ row' = IF row # None /\ row[u] THEN [row EXCEPT ![u] = FALSE] ELSE row
  /\ stale' = stale \ {u}
  /\ hook' = [hook EXCEPT ![u] = Tail(@)]
  /\ UNCHANGED <<unit, link, clients, joining>>

(* systemctl stop, its end, and systemctl start.                           *)
Stop(S) == unit' = [u \in Units |-> IF u \in S /\ unit[u] = "on" THEN "stopping" ELSE unit[u]]
Wait(S) == (\A u \in S : unit[u] # "stopping") /\ UNCHANGED unit
Start(S) ==
  /\ \A u \in S : unit[u] # "stopping"
  /\ unit' = [u \in Units |-> IF u \in S THEN "on" ELSE unit[u]]
Systemctl(step) ==
  \/ step[1] = "stop" /\ Stop(step[2])
  \/ step[1] = "wait" /\ Wait(step[2])
  \/ step[1] = "start" /\ Start(step[2])

Hook(u) ==
  /\ hook[u] # <<>>
  /\ LET step == Head(hook[u]) IN
       \/ step[1] = "connect" /\ (connect(u) \/ connect_new(u))
       \/ step[1] = "insert" /\ (insert(u) \/ insert_fails(u))
       \/ step[1] = "disconnect" /\ disconnect(u)
       \/ /\ Systemctl(step)
          /\ hook' = [hook EXCEPT ![u] = Tail(@)]
          /\ UNCHANGED <<link, clients, joining, row, stale>>
  /\ UNCHANGED <<ctl, ever, orderly>>

-----------------------------------------------------------------------------
(* OpenVPN.                                                                *)

Undisturbed == ctl = <<>>
Event == ever.events < MaxEvents /\ ever' = [ever EXCEPT !.events = @ + 1]

TunnelUp(u) ==
  /\ unit[u] = "on" /\ ~link[u] /\ hook[u] = <<>> /\ Event
  /\ link' = [link EXCEPT ![u] = TRUE]
  /\ hook' = [hook EXCEPT ![u] = OnConnect(u)]
  /\ orderly' = (orderly /\ Undisturbed)
  /\ UNCHANGED <<unit, clients, joining, ctl, row, stale>>

TunnelDown(u) ==
  /\ unit[u] = "on" /\ link[u] /\ hook[u] = <<>>
  /\ link' = [link EXCEPT ![u] = FALSE]
  /\ hook' = [hook EXCEPT ![u] = OnDisconnect(u)]
  /\ orderly' = (orderly /\ Undisturbed)
  /\ UNCHANGED <<unit, clients, joining, ctl, row, ever, stale>>

(* A service that is to stop ends its tunnel and runs the hook first.      *)
Terminate(u) ==
  /\ unit[u] = "stopping" /\ hook[u] = <<>>
  /\ IF link[u]
       THEN /\ link' = [link EXCEPT ![u] = FALSE]
            /\ hook' = [hook EXCEPT ![u] = OnDisconnect(u)]
            /\ UNCHANGED unit
       ELSE unit' = [unit EXCEPT ![u] = "off"] /\ UNCHANGED <<link, hook>>
  /\ UNCHANGED <<clients, joining, ctl, row, ever, stale, orderly>>

(* on-cloud-connect.py of a player who comes.                              *)
ClientJoins ==
  /\ unit["players"] = "on" /\ clients < MaxClients /\ ~joining /\ Event
  /\ IF row # None
       THEN row' = [row EXCEPT !.count = @ + 1] /\ clients' = clients + 1 /\ UNCHANGED joining
       ELSE joining' = TRUE /\ UNCHANGED <<row, clients>>
  /\ orderly' = (orderly /\ Undisturbed)
  /\ UNCHANGED <<unit, link, hook, ctl, stale>>

(* The insertion of a team; if it fails, the player is refused.            *)
ClientInsert ==
  /\ joining /\ joining' = FALSE
  /\ IF row = None THEN row' = [NewRow EXCEPT !.count = 1] /\ clients' = clients + 1
     ELSE UNCHANGED <<row, clients>>
  /\ UNCHANGED <<unit, link, hook, ctl, ever, stale, orderly>>

(* Mutant: the counter is written only once for all who leave.             *)
OnCloudDisconnectOnce == row # None /\ row' = [row EXCEPT !.count = IF @ > 1 THEN @ ELSE 0]

OnCloudDisconnect == row # None /\ row' = [row EXCEPT !.count = @ - 1]

ClientLeaves ==
  /\ unit["players"] # "off" /\ clients > 0 /\ ~joining
  /\ OnCloudDisconnect
  /\ clients' = clients - 1
  /\ UNCHANGED <<unit, link, joining, hook, ctl, ever, stale, orderly>>

(* on-cloud-down.py, after the last player is gone.                        *)
PlayersDown ==
  /\ unit["players"] = "stopping" /\ clients = 0 /\ ~joining
  /\ row' = IF row = None THEN None ELSE [row EXCEPT !.count = 0]
  /\ unit' = [unit EXCEPT !["players"] = "off"]
  /\ stale' = stale \ {"players"}
  /\ UNCHANGED <<link, clients, joining, hook, ctl, ever, orderly>>

-----------------------------------------------------------------------------
(* vpnctl.py.  Status is what it reads; a check is what to start, to stop, *)
(* and whether all is to be reset.                                         *)

Status == [self |-> row # None /\ row.self, vulnbox |-> row # None /\ row.vulnbox,
           count |-> IF row = None THEN 0 ELSE row.count, active |-> {u \in Units : unit[u] = "on"}]

FromStatus(s) ==
  CASE s.vulnbox ->
         [start |-> IF {"vulnbox", "players"} \subseteq s.active THEN {} ELSE {"players"},
          stop |-> s.active \cap {"self"}, reset |-> s.self]
    [] ~s.vulnbox /\ s.self ->
         [start |-> {"vulnbox"} \ s.active, stop |-> s.active \cap {"players"},
          reset |-> (s.count > 0 /\ "players" \notin s.active) \/ "self" \notin s.active]
    [] OTHER -> [start |-> Units \ s.active, stop |-> {}, reset |-> FALSE]

StopAll == <<<<"stop", Units>>, <<"wait", Units>>>>
ResetProgram == StopAll \o <<<<"reset", {}>>, <<"start", Units>>>>
Fix(c) ==
  CASE c.reset -> ResetProgram
    [] OTHER -> <<<<"start", c.start>>, <<"stop", c.stop>>, <<"wait", c.stop>>>>

Program(command) ==
  CASE command = "fix" -> Fix(FromStatus(Status))
    [] command = "startup" -> <<<<"start", FromStatus(Status).start>>>>
    [] command = "reset" -> IF row = None THEN <<>> ELSE ResetProgram
    [] command = "self" -> <<<<"stop", {"players", "vulnbox"}>>, <<"wait", {"players", "vulnbox"}>>, <<"start", {"self"}>>>>
    [] command = "cloud" -> <<<<"stop", {"self"}>>, <<"wait", {"self"}>>, <<"start", {"players", "vulnbox"}>>>>
    [] OTHER -> StopAll

Command(command) ==
  /\ ctl = <<>> /\ ever.commands < MaxCommands
  /\ ctl' = Program(command)
  /\ ever' = [ever EXCEPT !.commands = @ + 1]
  /\ orderly' = (orderly /\ Quiet /\ command \in {"startup", "fix"} /\ stale \cap Tunnels = {})
  /\ UNCHANGED <<unit, link, clients, joining, hook, row, stale>>

Connected == {u \in Tunnels : link[u] \/ hook[u] # <<>>} \cup (IF clients > 0 \/ joining THEN {"players"} ELSE {})
Ctl ==
  /\ ctl # <<>> /\ ctl' = Tail(ctl)
  /\ \/ Systemctl(Head(ctl)) /\ UNCHANGED <<row, stale>>
     \/ /\ Head(ctl)[1] = "reset"
        /\ row' = IF row = None THEN None ELSE [row EXCEPT !.self = FALSE, !.vulnbox = FALSE, !.count = 0]
        /\ stale' = Connected
        /\ UNCHANGED unit
  /\ UNCHANGED <<link, clients, joining, hook, ever, orderly>>

(* reset-connection-status.py --all                                        *)
ResetConnectionStatus ==
  /\ row # None /\ ever.reboots > 0
  /\ LET old == row.seen = "before" /\ (row.self \/ row.vulnbox) IN
       /\ row' = [row EXCEPT !.self = @ /\ ~old, !.vulnbox = @ /\ ~old, !.count = IF @ > 0 THEN 0 ELSE @]
       /\ stale' = (IF old \/ ~(row.self \/ row.vulnbox) THEN Connected ELSE stale \cup Connected)
                     \cup (IF row.count < 0 THEN {"players"} ELSE {})
  /\ orderly' = (orderly /\ Undisturbed)
  /\ UNCHANGED <<unit, link, clients, joining, hook, ctl, ever>>

(* The VPN server reboots: no hook of the old tunnels is run.              *)
Reboot ==
  /\ ever.reboots < MaxReboots
  /\ ever' = [ever EXCEPT !.reboots = @ + 1]
  /\ unit' = [u \in Units |-> "off"] /\ link' = [u \in Tunnels |-> FALSE] /\ clients' = 0 /\ joining' = FALSE
  /\ hook' = [u \in Tunnels |-> <<>>] /\ ctl' = <<>>
  /\ row' = IF row # None /\ row.seen = "since" THEN [row EXCEPT !.seen = "before"] ELSE row
  /\ stale' = Units
  /\ orderly' = (orderly /\ Undisturbed)

Next ==
  \/ \E u \in Tunnels : Hook(u) \/ TunnelUp(u) \/ TunnelDown(u) \/ Terminate(u)
  \/ ClientJoins \/ ClientInsert \/ ClientLeaves \/ PlayersDown
  \/ \E c \in Commands : Command(c)
  \/ Ctl \/ ResetConnectionStatus \/ Reboot

Spec == Init /\ [][Next]_vars

-----------------------------------------------------------------------------
(* Properties.                                                             *)

(* When no hook is running, the database says of every server whether it   *)
(* is connected and how many players are, whatever hooks of the three      *)
(* servers ran at the same time, with the team inserted by one of them     *)
(* (on-connect.py, on-disconnect.py, on-cloud-*.py).                       *)
StatusFollows ==
  Quiet => /\ \A u \in Tunnels \ stale : (row # None /\ row[u]) <=> link[u]
           /\ "players" \notin stale => clients = IF row = None THEN 0 ELSE row.count

(* The servers switch each other: when all is quiet, a vulnbox in the      *)
(* cloud has its players' server and no self-hosted network beside it, and *)
(* a self-hosted network has no players' server (on-connect.sh), if the    *)
(* servers were started by vpnctl startup or fix while nothing else went   *)
(* on.                                                                     *)
ModesExclusive ==
  Quiet /\ orderly =>
    /\ link["vulnbox"] => unit["self"] = "off" /\ unit["players"] = "on"
    /\ link["self"] => unit["players"] = "off"
=============================================================================
