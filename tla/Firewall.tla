------------------------------ MODULE Firewall ------------------------------
(***************************************************************************)
(* Who may send packets to whom (controlserver/vpncontrol.py,              *)
(* events_impl.py, vpn/manage-iptables.py).  The control panel and the     *)
(* master timer write the network state, banned teams and teams with a     *)
(* permission to Redis and announce every change; a process on the VPN     *)
(* gateway reads the keys, subscribes, and keeps a chain of iptables rules *)
(* up to date with two threads: the listener, which applies announcements, *)
(* and a watcher, which rewrites the chain when teams have registered.     *)
(***************************************************************************)
EXTENDS Integers, Sequences, FiniteSets, FiniteSetsExt

CONSTANTS
  Teams,            (* team ids that may be banned or permitted            *)
  MaxTeams,         (* bound: registered teams                             *)
  MaxTick,          (* bound: ticks of the game                            *)
  MaxCommands,      (* bound: commands of the control panel                *)
  MaxDisconnects    (* bound: Redis errors of the gateway                  *)

ASSUME FirewallAssumption ==
  /\ Teams \subseteq 1..MaxTeams /\ Teams # {}
  /\ MaxTeams \in Nat \ {0}
  /\ MaxTick \in Nat /\ MaxCommands \in Nat /\ MaxDisconnects \in Nat

Writers == {"panel", "timer"}
NetStates == {"on", "off", "team", "team-no-vulnbox"}

VARIABLES
  net,          (* the keys network:* in Redis                             *)
  todo,         (* Redis commands each writer has yet to send              *)
  tick, running,(* the master timer                                        *)
  registered,   (* teams in the database                                   *)
  gate,         (* where the gateway's listener is                         *)
  man,          (* its IpTablesManager                                     *)
  chain,        (* the iptables chain                                      *)
  queue,        (* announcements the gateway has not handled               *)
  item,         (* the announcement being handled                          *)
  watch,        (* where the watcher is                                    *)
  seen,         (* what the watcher has seen                               *)
  raced,        (* history: operations of both writers overlapped, or the  *)
                (* gateway's default replaced a state of theirs            *)
  missed,       (* history: a change was announced or made while the       *)
                (* gateway had read the keys and not subscribed            *)
  tooLate,      (* history: bans until a tick that had already begun       *)
  late,         (* history: teams that registered after the chain was      *)
                (* written and before the watcher first counted them       *)
  commands, disconnects

writers == <<todo, tick, running, commands>>
watcher == <<watch, seen>>
history == <<raced, missed, tooLate, late>>
vars == <<net, writers, registered, gate, man, chain, queue, item, watcher, history, disconnects>>

(* A Redis command: a key that is written, an announcement, or a look at   *)
(* bans that may be over.                                                  *)
Writes == {"set state", "sadd banned", "set until", "srem banned", "del until",
           "sadd permissions", "srem permissions"}
Announcements == {"state", "ban", "unban", "add_permission", "remove_permission"}
Commands ==
  [do: Writes \cup Announcements \cup {"smembers", "look"}, state: NetStates, teams: SUBSET Teams, until: 0..MaxTick]

Cmd(do, v, ts, n) == [do |-> do, state |-> v, teams |-> ts, until |-> n]
OnTeam(do, t) == Cmd(do, "off", {t}, 0)
TeamOf(c) == CHOOSE t \in c.teams : TRUE

(* A rule of the chain; n is its team, or the largest team id it covers.   *)
Rule(kind, n) == [kind |-> kind, n |-> n]
Closed == Rule("closed", 0)
TeamsOnly == Rule("teams only", 0)
Rules == [kind: {"closed", "teams only", "no vulnbox", "ban", "allow"}, n: 0..(MaxTeams + 1)]

TypeOK ==
  /\ net \in [state: NetStates \cup {"unset"}, banned: SUBSET Teams, until: [Teams -> 0..MaxTick],
              allowed: SUBSET Teams]
  /\ todo \in [Writers -> Seq(Commands)]
  /\ tick \in 0..MaxTick /\ running \in BOOLEAN
  /\ registered \in 1..MaxTeams
  /\ gate \in {"connect", "default", "read banned", "read permissions", "subscribe", "listen", "apply"}
  /\ man \in [state: NetStates, banned: SUBSET Teams, allowed: SUBSET Teams]
  /\ chain \in Seq(Rules)
  /\ queue \in Seq(Commands) /\ item \in Commands
  /\ watch \in {"starting", "asleep", "bans", "allows"}
  /\ seen \in [count: 0..MaxTeams, now: 0..MaxTeams, size: 0..MaxTeams]
  /\ raced \in BOOLEAN /\ missed \in BOOLEAN /\ tooLate \subseteq Teams
  /\ late \in 0..MaxTeams
  /\ commands \in 0..MaxCommands /\ disconnects \in 0..MaxDisconnects

NoItem == Cmd("look", "off", {}, 0)
NewManager == [state |-> "off", banned |-> {}, allowed |-> {}]
Unseen == [count |-> 0, now |-> 0, size |-> 0]

Init ==
  /\ net = [state |-> "unset", banned |-> {}, until |-> [t \in Teams |-> 0], allowed |-> {}]
  /\ todo = [w \in Writers |-> <<>>]
  /\ tick = 0 /\ running = FALSE
  /\ registered = 1
  /\ gate = "connect"
  /\ man = NewManager
  /\ chain = <<>> /\ queue = <<>> /\ item = NoItem
  /\ watch = "asleep" /\ seen = Unseen
  /\ raced = FALSE /\ missed = FALSE /\ tooLate = {} /\ late = 0
  /\ commands = 0 /\ disconnects = 0

-----------------------------------------------------------------------------
(* VPNControl: an operation is the sequence of its Redis commands.         *)

(* Mutant: the new state is announced before it is stored.                 *)
set_state_late(v) == <<Cmd("state", v, {}, 0), Cmd("set state", v, {}, 0)>>
set_state(v) == <<Cmd("set state", v, {}, 0), Cmd("state", v, {}, 0)>>
ban_team(t, n) == <<OnTeam("sadd banned", t), Cmd("set until", "off", {t}, n), OnTeam("ban", t)>>
unban_team(t) == <<OnTeam("srem banned", t), OnTeam("del until", t), OnTeam("unban", t)>>
add_permission_team(t) == <<OnTeam("sadd permissions", t), OnTeam("add_permission", t)>>
remove_permission_team(t) == <<OnTeam("srem permissions", t), OnTeam("remove_permission", t)>>
unban_for_tick == <<Cmd("smembers", "off", {}, 0)>>

Begin(w, cmds) ==
  /\ todo[w] = <<>>
  /\ todo' = [todo EXCEPT ![w] = cmds]
  /\ raced' = (raced \/ \E v \in Writers \ {w} : todo[v] # <<>>)

(* overview_set_vpn of the control panel.                                  *)
Panel ==
  /\ commands < MaxCommands /\ commands' = commands + 1
  /\ \/ \E v \in NetStates : Begin("panel", set_state(v)) /\ UNCHANGED tooLate
     \/ \E t \in Teams, n \in 0..MaxTick :
          /\ Begin("panel", ban_team(t, n))
          /\ tooLate' = IF n # 0 /\ n <= tick THEN tooLate \cup {t} ELSE tooLate \ {t}
     \/ \E t \in Teams :
          /\ \E op \in {unban_team(t), add_permission_team(t), remove_permission_team(t)} : Begin("panel", op)
          /\ UNCHANGED tooLate
  /\ UNCHANGED <<net, tick, running, registered, gate, man, chain, queue, item, watcher, missed, late, disconnects>>

(* VPNCTFEvents, called by the master timer.  The first tick of a game     *)
(* starts with the game; a suspended game keeps the network as it is.      *)
on_start_ctf ==
  /\ ~running /\ tick < MaxTick
  /\ running' = TRUE /\ tick' = tick + 1
  /\ Begin("timer", set_state("on") \o unban_for_tick)
  /\ UNCHANGED commands

on_start_tick ==
  /\ running /\ tick < MaxTick
  /\ tick' = tick + 1
  /\ Begin("timer", unban_for_tick)
  /\ UNCHANGED <<running, commands>>

on_end_ctf ==
  /\ running
  /\ running' = FALSE
  /\ Begin("timer", IF net.state = "on" THEN set_state("team") ELSE <<>>)
  /\ UNCHANGED <<tick, commands>>

(* At a time the panel has set, while the game is stopped or suspended.    *)
on_open_vulnbox_access ==
  /\ commands < MaxCommands /\ commands' = commands + 1
  /\ net.state # "on"
  /\ Begin("timer", set_state("team"))
  /\ UNCHANGED <<tick, running>>

MasterTimer ==
  /\ on_start_ctf \/ on_start_tick \/ on_end_ctf \/ on_open_vulnbox_access
  /\ UNCHANGED <<net, registered, gate, man, chain, queue, item, watcher, missed, tooLate, late, disconnects>>

RegisterTeam ==
  /\ registered < MaxTeams
  /\ registered' = registered + 1
  /\ late' = IF watch = "starting" THEN late + 1 ELSE late
  /\ UNCHANGED <<net, writers, gate, man, chain, queue, item, watcher, raced, missed, tooLate, disconnects>>

-----------------------------------------------------------------------------
(* Redis carries out the next command of a writer.                         *)

Written(c) ==
  CASE c.do = "set state" -> [net EXCEPT !.state = c.state]
    [] c.do = "sadd banned" -> [net EXCEPT !.banned = @ \cup c.teams]
    [] c.do = "set until" -> [net EXCEPT !.until[TeamOf(c)] = c.until]
    [] c.do = "srem banned" -> [net EXCEPT !.banned = @ \ c.teams]
    [] c.do = "del until" -> [net EXCEPT !.until[TeamOf(c)] = 0]
    [] c.do = "sadd permissions" -> [net EXCEPT !.allowed = @ \cup c.teams]
    [] c.do = "srem permissions" -> [net EXCEPT !.allowed = @ \ c.teams]

HasRead == gate \in {"default", "read banned", "read permissions", "subscribe"}
Subscribed == gate \in {"listen", "apply"}

Write(w) ==
  /\ todo[w] # <<>> /\ Head(todo[w]).do \in Writes
  /\ net' = Written(Head(todo[w]))
  /\ todo' = [todo EXCEPT ![w] = Tail(@)]
  /\ UNCHANGED <<tick, running, commands, registered, gate, man, chain, queue, item, watcher, history, disconnects>>

Announce(w) ==
  /\ todo[w] # <<>> /\ Head(todo[w]).do \in Announcements
  /\ queue' = IF Subscribed THEN Append(queue, Head(todo[w])) ELSE queue
  /\ missed' = (missed \/ HasRead)
  /\ todo' = [todo EXCEPT ![w] = Tail(@)]
  /\ UNCHANGED <<net, tick, running, commands, registered, gate, man, chain, item, watcher, raced, tooLate, late, disconnects>>

(* Mutant: the ban is lifted one tick later.                               *)
BanIsOverLater(t) == net.until[t] = tick - 1
BanIsOver(t) == net.until[t] = tick

(* unban_for_tick reads the banned teams and looks at one after another.   *)
Smembers(w) ==
  /\ todo[w] # <<>> /\ Head(todo[w]).do = "smembers"
  /\ todo' = [todo EXCEPT ![w] = <<Cmd("look", "off", net.banned, 0)>> \o Tail(@)]
  /\ UNCHANGED <<net, tick, running, commands, registered, gate, man, chain, queue, item, watcher, history, disconnects>>

Look(w) ==
  /\ todo[w] # <<>> /\ Head(todo[w]).do = "look"
  /\ LET ts == Head(todo[w]).teams
     IN IF ts = {} THEN todo' = [todo EXCEPT ![w] = Tail(@)]
        ELSE \E t \in ts :
               LET rest == <<Cmd("look", "off", ts \ {t}, 0)>> \o Tail(todo[w])
               IN todo' = [todo EXCEPT ![w] = IF BanIsOver(t) THEN unban_team(t) \o rest ELSE rest]
  /\ UNCHANGED <<net, tick, running, commands, registered, gate, man, chain, queue, item, watcher, history, disconnects>>

-----------------------------------------------------------------------------
(* The chain.                                                              *)

Holds(ch, r) == \E i \in 1..Len(ch) : ch[i] = r
iptables_add(ch, r) == IF Holds(ch, r) THEN ch ELSE Append(ch, r)
iptables_insert(ch, r) == IF Holds(ch, r) THEN ch ELSE <<r>> \o ch
(* iptables -D is called until no rule like r is left.                     *)
iptables_remove(ch, r) ==
  LET kept[i \in 0..Len(ch)] ==
        IF i = 0 THEN <<>> ELSE IF ch[i] = r THEN kept[i - 1] ELSE Append(kept[i - 1], ch[i])
  IN kept[Len(ch)]

ban_rules(ch, t) == iptables_add(ch, Rule("ban", t))
unban_rules(ch, t) == iptables_remove(ch, Rule("ban", t))
allow_rules(ch, t) == iptables_insert(ch, Rule("allow", t))
disallow_rules(ch, t) == iptables_remove(ch, Rule("allow", t))

(* Mutant: the range of vulnboxes ends with the last team.                 *)
StateRulesExact(v, count) ==
  CASE v = "on" -> <<>>
    [] v = "team" -> <<TeamsOnly, Closed>>
    [] v = "team-no-vulnbox" -> <<Rule("no vulnbox", count), TeamsOnly, Closed>>
    [] v = "off" -> <<Closed>>

(* The rules of a state on an empty chain; vulnboxes of teams up to one    *)
(* more than there are.                                                    *)
StateRules(v, count) ==
  CASE v = "on" -> <<>>
    [] v = "team" -> <<TeamsOnly, Closed>>
    [] v = "team-no-vulnbox" -> <<Rule("no vulnbox", count + 1), TeamsOnly, Closed>>
    [] v = "off" -> <<Closed>>

(* The chain with the rules of all teams of a set.                         *)
ban_all(ch, ts) == FoldSet(LAMBDA t, c : ban_rules(c, t), ch, ts)
allow_all(ch, ts) == FoldSet(LAMBDA t, c : allow_rules(c, t), ch, ts)

rewrite_chain(m, count) ==
  allow_all(ban_all(StateRules(m.state, count), m.banned), m.allowed)

-----------------------------------------------------------------------------
(* manage_iptables: the listener thread.                                   *)

ReadState ==
  /\ gate = "connect"
  /\ man' = [NewManager EXCEPT !.state = IF net.state = "unset" THEN "off" ELSE net.state]
  /\ missed' = FALSE
  /\ gate' = IF net.state = "unset" THEN "default" ELSE "read banned"
  /\ UNCHANGED <<net, writers, registered, chain, queue, item, watcher, raced, tooLate, late, disconnects>>

(* A state that was not set is written, and not announced.                 *)
WriteDefault ==
  /\ gate = "default"
  /\ net' = [net EXCEPT !.state = "off"]
  /\ raced' = (raced \/ net.state # "unset")
  /\ gate' = "read banned"
  /\ UNCHANGED <<writers, registered, man, chain, queue, item, watcher, missed, tooLate, late, disconnects>>

ReadBanned ==
  /\ gate = "read banned"
  /\ man' = [man EXCEPT !.banned = net.banned]
  /\ gate' = "read permissions"
  /\ UNCHANGED <<net, writers, registered, chain, queue, item, watcher, history, disconnects>>

ReadPermissions ==
  /\ gate = "read permissions"
  /\ man' = [man EXCEPT !.allowed = net.allowed]
  /\ gate' = "subscribe"
  /\ UNCHANGED <<net, writers, registered, chain, queue, item, watcher, history, disconnects>>

(* From here on announcements are queued; the chain is written and the     *)
(* watcher's thread started.                                               *)
init_firewall ==
  /\ gate = "subscribe"
  /\ chain' = rewrite_chain(man, registered)
  /\ watch' = "starting" /\ late' = 0
  /\ gate' = "listen"
  /\ UNCHANGED <<net, writers, registered, man, queue, item, seen, raced, missed, tooLate, disconnects>>

(* The manager's fields are changed before the lock is taken.              *)
Listen ==
  /\ gate = "listen" /\ queue # <<>>
  /\ item' = Head(queue) /\ queue' = Tail(queue)
  /\ LET c == Head(queue)
     IN man' = CASE c.do = "state" -> [man EXCEPT !.state = c.state]
                 [] c.do = "ban" -> [man EXCEPT !.banned = @ \cup c.teams]
                 [] c.do = "unban" -> [man EXCEPT !.banned = @ \ c.teams]
                 [] c.do = "add_permission" -> [man EXCEPT !.allowed = @ \cup c.teams]
                 [] c.do = "remove_permission" -> [man EXCEPT !.allowed = @ \ c.teams]
  /\ gate' = "apply"
  /\ UNCHANGED <<net, writers, registered, chain, watcher, history, disconnects>>

Unlocked == watch \in {"starting", "asleep"}

ApplyRules ==
  /\ gate = "apply" /\ Unlocked
  /\ chain' = CASE item.do = "state" -> rewrite_chain(man, registered)
                [] item.do = "ban" -> ban_rules(chain, TeamOf(item))
                [] item.do = "unban" -> unban_rules(chain, TeamOf(item))
                [] item.do = "add_permission" -> allow_rules(chain, TeamOf(item))
                [] item.do = "remove_permission" -> disallow_rules(chain, TeamOf(item))
  /\ gate' = "listen" /\ item' = NoItem
  /\ late' = IF item.do = "state" THEN 0 ELSE late
  /\ UNCHANGED <<net, writers, registered, man, queue, watcher, raced, missed, tooLate, disconnects>>

(* The Redis connection breaks; main connects again.  A watcher that is    *)
(* writing the chain is done before.                                       *)
Disconnect ==
  /\ gate \notin {"connect", "apply"} /\ Unlocked
  /\ disconnects < MaxDisconnects
  /\ disconnects' = disconnects + 1
  /\ queue' = <<>>
  /\ gate' = "connect" /\ man' = NewManager
  /\ watch' = "asleep" /\ seen' = Unseen
  /\ UNCHANGED <<net, writers, registered, chain, item, history>>

-----------------------------------------------------------------------------
(* NewTeamWatcher.  It holds the lock while it rewrites the chain, and     *)
(* iterates over sets that the listener may change meanwhile: Python then  *)
(* ends the iteration with an exception, and the watcher tries again in a  *)
(* minute.                                                                 *)

WatcherStarts ==
  /\ Subscribed /\ watch = "starting"
  /\ seen' = [Unseen EXCEPT !.count = registered]
  /\ watch' = "asleep"
  /\ UNCHANGED <<net, writers, registered, gate, man, chain, queue, item, history, disconnects>>

WatcherWakes ==
  /\ Subscribed /\ watch = "asleep" /\ registered # seen.count
  /\ chain' = StateRules(man.state, registered)
  /\ seen' = [seen EXCEPT !.now = registered, !.size = Cardinality(man.banned)]
  /\ watch' = "bans" /\ late' = 0
  /\ UNCHANGED <<net, writers, registered, gate, man, queue, item, raced, missed, tooLate, disconnects>>

(* The rules of some of the teams were written when the iteration failed.  *)
Interrupted(unfinished) ==
  /\ chain' \in unfinished
  /\ watch' = "asleep"
  /\ seen' = [Unseen EXCEPT !.count = seen.count]

WatcherBans ==
  /\ watch = "bans"
  /\ IF Cardinality(man.banned) = seen.size
     THEN /\ chain' = ban_all(chain, man.banned)
          /\ seen' = [seen EXCEPT !.size = Cardinality(man.allowed)]
          /\ watch' = "allows"
     ELSE Interrupted({ban_all(chain, ts) : ts \in SUBSET (man.banned \cup item.teams)})
  /\ UNCHANGED <<net, writers, registered, gate, man, queue, item, history, disconnects>>

WatcherAllows ==
  /\ watch = "allows"
  /\ IF Cardinality(man.allowed) = seen.size
     THEN /\ chain' = allow_all(chain, man.allowed)
          /\ seen' = [Unseen EXCEPT !.count = seen.now]
          /\ watch' = "asleep"
     ELSE Interrupted({allow_all(chain, ts) : ts \in SUBSET (man.allowed \cup item.teams)})
  /\ UNCHANGED <<net, writers, registered, gate, man, queue, item, history, disconnects>>

Gateway ==
  \/ ReadState \/ WriteDefault \/ ReadBanned \/ ReadPermissions \/ init_firewall
  \/ Listen \/ ApplyRules
Watcher == WatcherStarts \/ WatcherWakes \/ WatcherBans \/ WatcherAllows

Next ==
  \/ Panel \/ MasterTimer \/ RegisterTeam
  \/ \E w \in Writers : Write(w) \/ Announce(w) \/ Smembers(w) \/ Look(w)
  \/ Gateway \/ Disconnect \/ Watcher

Spec == Init /\ [][Next]_vars

-----------------------------------------------------------------------------
(* Properties.                                                             *)

(* Packets between a team and its own network, its own vulnbox, the        *)
(* gameserver, or another team.                                            *)
Packets == [team: 1..MaxTeams, with: {"own network", "own vulnbox", "gameserver", "other team"}]

Matches(r, p) ==
  CASE r.kind = "closed" -> TRUE
    [] r.kind = "teams only" -> p.with \in {"own network", "own vulnbox"}
    [] r.kind = "no vulnbox" -> p.with = "own vulnbox" /\ p.team <= r.n
    [] r.kind = "ban" -> p.team = r.n
    [] r.kind = "allow" -> p.team = r.n /\ p.with = "gameserver"

(* The first rule that matches decides; the chain lets pass what no rule   *)
(* matches.                                                                *)
Accepted(ch, p) ==
  \A i \in 1..Len(ch) :
    Matches(ch[i], p) /\ (\A j \in 1..(i - 1) : ~Matches(ch[j], p))
      => ch[i].kind \in {"teams only", "allow"}

(* What a packet's fate should depend on: permissions first, then the      *)
(* state, then bans.                                                       *)
MayPass(p) ==
  \/ p.with = "gameserver" /\ p.team \in man.allowed
  \/ man.state = "on" /\ p.team \notin man.banned
  \/ man.state = "team" /\ p.with \in {"own network", "own vulnbox"}
  \/ man.state = "team-no-vulnbox" /\ p.with = "own network"

(* Whatever announcements, rewrites and interrupted rewrites it has been   *)
(* through, the chain lets pass exactly what the manager's state, bans and *)
(* permissions say, once both threads have nothing left to do, unless two  *)
(* teams registered between the writing of the chain and the watcher's     *)
(* first count: the rules cover one team more than there are, and a team   *)
(* that was counted first time is never seen as new (IpTablesManager,      *)
(* NewTeamWatcher).  All variables keep their types.                       *)
ChainIsExact ==
  /\ TypeOK
  /\ gate = "listen" /\ watch = "asleep" /\ seen.count = registered /\ late <= 1 =>
       \A p \in Packets : p.team <= registered => (Accepted(chain, p) <=> MayPass(p))

Idle == queue = <<>> /\ \A w \in Writers : todo[w] = <<>>

(* When nothing is under way the gateway has what Redis has, unless a      *)
(* change fell between its reading and its subscription; for the state and *)
(* the bans, which panel and timer both write, unless their operations     *)
(* overlapped (VPNControl, manage_iptables).                               *)
GatewayFollows ==
  Idle /\ gate = "listen" /\ ~missed =>
    /\ man.allowed = net.allowed
    /\ ~raced => man.state = net.state /\ man.banned = net.banned

(* A ban ends with the start of the tick it was given, if it was given     *)
(* before that tick (ban_team, unban_for_tick).                            *)
BanEnds ==
  Idle /\ ~raced =>
    \A t \in net.banned \ tooLate : net.until[t] = 0 \/ net.until[t] > tick
=============================================================================
