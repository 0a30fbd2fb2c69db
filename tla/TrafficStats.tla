---------------------------- MODULE TrafficStats ----------------------------
(***************************************************************************)
(* Traffic of the teams, minute by minute (vpn/manage-trafficstats.py).    *)
(* The kernel counts for every team all traffic that comes in and the part *)
(* that goes to other teams; the process stores the growth of each minute, *)
(* the game's part and the teams' part.  Time is the number of the minute. *)
(***************************************************************************)
EXTENDS Integers, FiniteSetsExt

CONSTANTS
  Teams,       (* team ids                                                 *)
  MaxMinute,   (* bound: minutes                                           *)
  MaxTraffic,  (* bound: packets                                           *)
  MaxRestarts  (* bound: ends of the process                               *)

VARIABLES
  minute,
  seen,     (* teams that have connected once                              *)
  map,      (* BPF map: counters of total traffic and traffic to teams     *)
  on,       (* network:state is "on"                                       *)
  pc,       (* the process: "off", "fill" (waits to fill its cache), "run" *)
  base,     (* last_minute_results; None for a team it has no values of    *)
  old,      (* old_vpn_status                                              *)
  tick,     (* last_minute_tick                                            *)
  file,     (* vpn-stats-state.json, or None                               *)
  stats,    (* table team_traffic_stats                                    *)
  restarts,
  first,    (* history: the values of a team when its cache entry was new  *)
  skipped   (* history: traffic of minutes without statistics since then   *)

vars == <<minute, seen, map, on, pc, base, old, tick, file, stats, restarts, first, skipped>>

None == <<>>
Zero == [game |-> 0, teams |-> 0]
Plus(a, b) == [game |-> a.game + b.game, teams |-> a.teams + b.teams]
Minus(a, b) == [game |-> a.game - b.game, teams |-> a.teams - b.teams]
NoBase == [t \in Teams |-> None]

Row == [minute: 1..MaxMinute, team: Teams, value: [game: Nat, teams: Nat]]

TypeOK ==
  /\ minute \in 1..MaxMinute /\ seen \subseteq Teams
  /\ \A t \in Teams : base[t] = None \/ base[t] \in [game: Nat, teams: Nat]
  /\ tick \in 0..MaxMinute /\ stats \subseteq Row

Init ==
  /\ minute = 1 /\ seen = {} /\ map = [t \in Teams |-> [total |-> 0, teams |-> 0]] /\ on \in BOOLEAN
  /\ pc = "off" /\ base = NoBase /\ old = FALSE /\ tick = 0 /\ file = None /\ stats = {} /\ restarts = 0
  /\ first = NoBase /\ skipped = [t \in Teams |-> Zero]

-----------------------------------------------------------------------------
(* External: connections, traffic, the network state, the clock.           *)

Connect(t) == seen' = seen \cup {t} /\ UNCHANGED <<minute, map, on, pc, base, old, tick, file, stats, restarts, first, skipped>>

Traffic(t, toTeam) ==
  /\ t \in seen /\ MapThenSumSet(LAMBDA u : map[u].total, Teams) < MaxTraffic
  /\ map' = [map EXCEPT ![t].total = @ + 1, ![t].teams = IF toTeam THEN @ + 1 ELSE @]
  /\ UNCHANGED <<minute, seen, on, pc, base, old, tick, file, stats, restarts, first, skipped>>

Switch == on' = ~on /\ UNCHANGED <<minute, seen, map, pc, base, old, tick, file, stats, restarts, first, skipped>>

-----------------------------------------------------------------------------
(* read_team_infos: what goes to teams is taken off the total.             *)
read_team_infos ==
  [t \in Teams |-> IF t \in seen THEN [game |-> map[t].total - map[t].teams, teams |-> map[t].teams] ELSE None]

(* The saved state is used within the same minute.  Its keys were turned   *)
(* into strings when it was written, so no team is found in it.            *)
Start ==
  /\ pc = "off"
  /\ IF file # None /\ file.tick = minute
       THEN pc' = "run" /\ base' = NoBase /\ old' = file.old /\ tick' = file.tick
       ELSE pc' = "fill" /\ UNCHANGED <<base, old, tick>>
  /\ first' = NoBase /\ skipped' = [t \in Teams |-> Zero]
  /\ UNCHANGED <<minute, seen, map, on, file, stats, restarts>>

(* Mutant: only the teams known before get a new base.                     *)
RememberOld(new) == [t \in Teams |-> IF base[t] # None THEN base[t] ELSE new[t]]
Remember(new) == new

(* save_difference, for the teams with values from the minute before.      *)
Growth(new) == [t \in {t \in Teams : new[t] # None /\ base[t] # None} |-> Minus(new[t], base[t])]

(* One row per team, stamped with the minute.                              *)
efficient_insert(m, growth) ==
  stats \cup {[minute |-> m, team |-> t, value |-> growth[t]] : t \in DOMAIN growth}

(* The next minute begins.  A process that runs reads the counters, stores *)
(* the growth if the network was on before or is on now, and goes on from  *)
(* there; one that just started fills its cache.  When something was       *)
(* stored, t has become a duration, and last_minute_tick is 0.             *)
NextMinute ==
  /\ minute < MaxMinute /\ minute' = minute + 1
  /\ LET new == read_team_infos IN
       CASE pc = "run" ->
              /\ stats' = IF old \/ on THEN efficient_insert(minute', Growth(new)) ELSE stats
              /\ base' = Remember(new) /\ old' = on
              /\ tick' = IF old \/ on THEN 0 ELSE minute'
              /\ first' = [t \in Teams |-> IF base[t] = None THEN new[t] ELSE first[t]]
              /\ skipped' = [t \in Teams |-> IF t \in DOMAIN Growth(new) /\ ~old /\ ~on
                                               THEN Plus(skipped[t], Growth(new)[t]) ELSE skipped[t]]
              /\ UNCHANGED pc
         [] pc = "fill" ->
              /\ pc' = "run" /\ base' = new /\ old' = on /\ tick' = minute'
              /\ first' = new
              /\ UNCHANGED <<stats, skipped>>
         [] OTHER -> UNCHANGED <<pc, stats, base, old, tick, first, skipped>>
  /\ UNCHANGED <<seen, map, on, file, restarts>>

(* Interrupted, the process saves its state; an error ends it without.     *)
Interrupt ==
  /\ pc = "run" /\ restarts < MaxRestarts
  /\ file' = [tick |-> tick, old |-> old]
  /\ pc' = "off" /\ restarts' = restarts + 1
  /\ UNCHANGED <<minute, seen, map, on, base, old, tick, stats, first, skipped>>

Crash ==
  /\ pc # "off" /\ restarts < MaxRestarts
  /\ pc' = "off" /\ restarts' = restarts + 1
  /\ UNCHANGED <<minute, seen, map, on, base, old, tick, file, stats, first, skipped>>

Next ==
  \/ \E t \in Teams : Connect(t) \/ Traffic(t, TRUE) \/ Traffic(t, FALSE)
  \/ Switch \/ Start \/ NextMinute \/ Interrupt \/ Crash

Spec == Init /\ [][Next]_vars

-----------------------------------------------------------------------------
(* Properties.                                                             *)

Stored(t) ==
  LET rows == {r \in stats : r.team = t}
  IN [game |-> MapThenSumSet(LAMBDA r : r.value.game, rows), teams |-> MapThenSumSet(LAMBDA r : r.value.teams, rows)]

(* No packet is stored twice and none with a negative sign, over restarts, *)
(* crashes and switches of the network; and in a process that was not      *)
(* restarted, every packet since the first reading is stored or belongs to *)
(* a minute without network (save_difference, main).                       *)
TrafficCounted ==
  /\ \A t \in Teams : Stored(t).game <= map[t].total - map[t].teams /\ Stored(t).teams <= map[t].teams
  /\ \A r \in stats : r.value.game >= 0 /\ r.value.teams >= 0
  /\ restarts = 0 /\ pc = "run" => \A t \in Teams :
       base[t] # None => Plus(Plus(Stored(t), skipped[t]), first[t]) = base[t]
=============================================================================
