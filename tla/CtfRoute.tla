------------------------------ MODULE CtfRoute ------------------------------
(***************************************************************************)
(* The gates the control panel announces to the routers                    *)
(* (controlserver/endpoints/ctfroute.py): which connections are closed,    *)
(* and at which instant that is going to change.  A gate has the instant   *)
(* at from which on it is closed ("after-game") or until which it is       *)
(* closed (all others); None means without end.  c is the panel's timer.   *)
(***************************************************************************)
EXTENDS CtfTimer

VpnStatus == {"on", "team", "team-no-vulnbox", "off"}

(* Timed events have five seconds of grace.                                *)
_is_close_to_now(at) == now - 5 < at /\ at <= now + 5
_is_in_future(at) == at > now - 5

_get_game_start_time(c) ==
  IF c.startAt # None /\ _is_in_future(c.startAt) /\ (c.state # "RUNNING" \/ _is_close_to_now(c.startAt))
    THEN c.startAt ELSE None

(* Mutant: a game that has not begun is one tick short.                    *)
_get_end_of_tick_short(c, n) ==
  CASE c.state = "RUNNING" /\ n # None /\ n >= c.tick /\ c.end # None ->
         c.end + (n - c.tick) * c.time
    [] c.state # "RUNNING" /\ n # None /\ n >= c.tick /\ _get_game_start_time(c) # None ->
         _get_game_start_time(c) + (n - c.tick - 1) * c.time
    [] OTHER -> None

_get_end_of_tick(c, n) ==
  CASE c.state = "RUNNING" /\ n # None /\ n >= c.tick /\ c.end # None ->
         c.end + (n - c.tick) * c.time
    [] c.state # "RUNNING" /\ n # None /\ n >= c.tick /\ _get_game_start_time(c) # None ->
         _get_game_start_time(c) + (n - c.tick) * c.time
    [] OTHER -> None

(* The game's start opens the vulnboxes too.                               *)
VulnboxOpens(c) ==
  LET start == _get_game_start_time(c)
  IN IF c.openAt # None /\ _is_in_future(c.openAt) /\ (start = None \/ c.openAt <= start)
       THEN c.openAt ELSE start

GameCloses(c) ==
  IF c.desired = "STOPPED" /\ c.state = "RUNNING" /\ c.end # None THEN c.end
  ELSE _get_end_of_tick(c, c.stopAfter)

(* The gate of a ban that is lifted after tick n.                          *)
add_per_team_gates(c, n) == {[id |-> "ban-team", at |-> _get_end_of_tick(c, n)]}

add_vpn_gates(c, vpn) ==
  {g \in {[id |-> "off", at |-> _get_game_start_time(c)],
          [id |-> "teams-only", at |-> _get_game_start_time(c)],
          [id |-> "teams-only-no-vulnbox", at |-> VulnboxOpens(c)],
          [id |-> "after-game", at |-> GameCloses(c)]} :
     \/ vpn = "off" /\ g.id = "off"
     \/ vpn \in {"team", "team-no-vulnbox"} /\ g.id = "teams-only"
     \/ vpn = "team-no-vulnbox" /\ g.id = "teams-only-no-vulnbox"
     \/ vpn = "on" /\ g.id = "after-game" /\ g.at # None}

Gates(c, vpn, n) == add_per_team_gates(c, n) \cup add_vpn_gates(c, vpn)

-----------------------------------------------------------------------------
(* A step of the master alone: no crash, no order of the administrator (a  *)
(* start before its time, a stop, a tick made longer while check_time has  *)
(* just ended it) that the forecast could not know of.                     *)
OfItself ==
  /\ pc' # pc /\ crashes' = crashes /\ pc \notin {"down", "init"}
  /\ (m.state = "RUNNING") <=> (m.desired = "RUNNING")
  /\ pc = "ended" => m.end <= t

Punctual == IF m.state = "RUNNING" THEN t <= m.end + 1 ELSE now = m.startAt

(* What a router is told is kept: when the master starts the game, goes to *)
(* the next tick or recognises the last one, every gate with an instant in *)
(* the future keeps this instant, or a later one if the master was late.   *)
(* The forecast counts from the start time before the game, from the end   *)
(* of the current tick in it, and from the desired state in the last tick  *)
(* (_get_end_of_tick, add_vpn_gates, check_time).                          *)
ForecastHolds ==
  [][OfItself =>
       \A vpn \in VpnStatus, n \in 1..(m.tick + 2) : \A g \in Gates(m, vpn, n) :
         g.at > now => \E h \in Gates(m', vpn, n) :
           /\ h.id = g.id /\ h.at >= g.at
           /\ Punctual => h.at = g.at]_vars
=============================================================================
