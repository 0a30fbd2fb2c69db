----------------------------- MODULE Scoreboard -----------------------------
(***************************************************************************)
(* The scoreboard files (controlserver/scoring/scoreboard.py) and those    *)
(* who write them: the end thread of the master timer                      *)
(* (controlserver/events_impl.py), the scoreboard daemon                   *)
(* (scoreboard_process.py), the recreation by panel or script              *)
(* (endpoints/pages.py, scripts/recreate_scoreboard.py) and the reset      *)
(* (scripts/reset_ctf_to_round.py).                                        *)
(*                                                                         *)
(* There is one team and one service.  A number in a file stands for what  *)
(* it was computed from: k is the points (the ranking, the first bloods)   *)
(* after tick k.                                                           *)
(***************************************************************************)
EXTENDS Integers, Sequences, FiniteSets

CONSTANTS
  Freeze,       (* SCOREBOARD_FREEZE                                       *)
  MaxTick,      (* bound: length of the game                               *)
  NotThere,     (* no file, no job, no difference                          *)
  Hidden,       (* "?"                                                     *)
  NoOne,        (* zero attackers and victims                              *)
  FirstRecreate, (* bound: the first tick in which boards are recreated    *)
  Trouble       (* what may happen in a game, one of them: a "crash" of    *)
                (* the end thread, a "recreate", a "reset", a change of    *)
                (* the timer's "times"                                     *)

VARIABLES
  tick, state,   (* the timer                                              *)
  scored,        (* ticks up to here have their points                     *)
  files,         (* the files of a board                                   *)
  job,           (* the create_scoreboard that a process is executing      *)
  master,        (* the end or start thread: tick, board, what is next     *)
  daemon,        (* the scoreboard daemon                                  *)
  queue,         (* messages on timing:scoreboard_tick for the daemon      *)
  tool,          (* the recreation                                         *)
  trouble,       (* what happens in this game, "none" when it is over      *)
  past           (* history: an unscored tick was read; a row was rebuilt  *)

clock == <<tick, state, scored>>
vars == <<clock, files, job, master, daemon, queue, tool, trouble, past>>

Boards == <<"public", "internal">>
Board == {"public", "internal"}
Processes == {"master", "daemon", "tool"}
Ticks == -1..MaxTick

Round == [points: Ticks, delta: Ticks \cup {NotThere}, blood: Ticks, attackers: Ticks \cup {Hidden}, final: BOOLEAN]
Job == [board: Board, tick: Ticks, live: BOOLEAN, final: BOOLEAN]
NoFiles == [rounds |-> [t \in Ticks |-> NotThere], team |-> <<>>, stat |-> <<>>, current |-> NotThere]

TypeOK ==
  /\ tick \in 0..MaxTick /\ state \in {"STOPPED", "RUNNING", "SUSPENDED"} /\ scored \in 0..MaxTick
  /\ \A b \in Board :
       /\ \A t \in Ticks : files[b].rounds[t] = NotThere \/ files[b].rounds[t] \in Round
       /\ files[b].team \in Seq(Ticks) /\ files[b].stat \in Seq(Ticks \cup {Hidden, NoOne})
       /\ files[b].current \in Ticks \cup {NotThere}
  /\ job \in [Processes -> Job \cup {NotThere}]
  /\ master.board \in 0..2 /\ daemon.board \in 1..3 /\ tool.board \in 1..3
  /\ queue \in Seq(Ticks) /\ trouble \in Trouble \cup {"none"}

Init ==
  /\ tick = 0 /\ state = "STOPPED" /\ scored = 0
  /\ files = [b \in Board |-> NoFiles]
  /\ job = [p \in Processes |-> NotThere]
  /\ master = [tick |-> 0, board |-> 0, pc |-> "idle"]
  /\ daemon = [pc |-> "off", board |-> 1, current |-> -1, until |-> -1, started |-> FALSE]
  /\ tool = [pc |-> "off", board |-> 1, rn |-> -1]
  /\ queue = <<>> /\ trouble \in Trouble /\ past = [early |-> FALSE, rebuilt |-> FALSE]

-----------------------------------------------------------------------------
(* create_scoreboard: the data is read, then the files are written.        *)

is_frozen(t, b) == b = "public" /\ t > Freeze
AtLeast0(t) == IF t < 0 THEN 0 ELSE t

(* Mutant: any file of a tick counts.                                      *)
existsAny(b, t, started) == \E k \in Ticks : files[b].rounds[k] # NotThere

exists(b, t, started) == files[b].rounds[IF t = 0 /\ ~started THEN -1 ELSE t] # NotThere

(* What the board is compared with: the tick before, or the frozen one.    *)
Prev(t, b) == IF is_frozen(t, b) /\ Freeze > 0 THEN Freeze ELSE t - 1

(* The master publishes through the board that is listed last.             *)
__publish(p, b, t) ==
  queue' = IF p = "master" /\ b = "internal" /\ daemon.pc = "listen" THEN Append(queue, t) ELSE queue

(* __fetch_data: the points of a tick are final once it is scored.         *)
__fetch_data(t) == [tick |-> t, final |-> t <= scored]

Fetch(p, b, t0, started, live) ==
  LET t == IF t0 = 0 /\ ~started THEN -1 ELSE t0
      info == __fetch_data(t)
  IN /\ job[p] = NotThere
     /\ job' = [job EXCEPT ![p] = [board |-> b, tick |-> info.tick, live |-> live, final |-> info.final]]
     /\ past' = [past EXCEPT !.early = @ \/ ~info.final]
     /\ __publish(p, b, t)

(* First bloods by the tick of their submission.                           *)
__get_first_blood_info(t) == t

(* __create_json_for_tick.                                                 *)
RoundJson(j) ==
  LET prev == IF Prev(j.tick, j.board) < -1 THEN -1 ELSE Prev(j.tick, j.board)
  IN IF is_frozen(j.tick, j.board)
       THEN [points |-> prev, delta |-> NotThere, blood |-> __get_first_blood_info(prev), attackers |-> Hidden, final |-> j.final]
       ELSE [points |-> j.tick, delta |-> prev, blood |-> __get_first_blood_info(j.tick), attackers |-> j.tick, final |-> j.final]

(* StatisticJsonGenerator.update_file: a cell is changed or appended if    *)
(* the row is long enough, else the row is made again from the database.   *)
Fast(row, t) == Len(row) >= t
Cell(t) == t + 1

(* Mutant: a value is always appended.                                     *)
FastRowAppend(row, t, value) == Append(row, value)

FastRow(row, t, value) ==
  IF Len(row) > t THEN [row EXCEPT ![Cell(t)] = value] ELSE Append(row, value)

(* TeamStatisticJsonGenerator: the frozen points are computed and dropped  *)
(* when the whole row is made.                                             *)
TeamTickInfo(t, b) == IF is_frozen(t, b) THEN AtLeast0(Prev(t, b)) ELSE t
TeamAllTicks(t) == [i \in 1..(t + 1) |-> i - 1]

(* ServiceStatisticJsonGenerator: the whole row is made by comparing each  *)
(* tick with itself.                                                       *)
get_attacker_victim_count(t) == t
StatTickInfo(t, b) == IF is_frozen(t, b) THEN Hidden ELSE get_attacker_victim_count(t)
StatAllTicks(t) == [i \in 1..(t + 1) |-> NoOne]

update_file(row, t, value, all) ==
  CASE t < 0 -> row
    [] t >= 0 /\ Fast(row, t) -> FastRow(row, t, value)
    [] OTHER -> all

__create_json_for_teams(row, t, b) == update_file(row, t, TeamTickInfo(t, b), TeamAllTicks(t))
__create_service_stat_json(row, t, b) == update_file(row, t, StatTickInfo(t, b), StatAllTicks(t))

Statistics(f, t, b) ==
  [f EXCEPT !.team = __create_json_for_teams(@, t, b), !.stat = __create_service_stat_json(@, t, b)]

(* scoreboard_current.json: without a tick the one in the file is kept.    *)
__create_tick_info_json(f, t) ==
  [f EXCEPT !.current = IF t # NotThere THEN t ELSE IF @ = NotThere THEN -1 ELSE @]

Write(p) ==
  LET j == job[p]
      f == files[j.board]
      g == [Statistics(f, j.tick, j.board) EXCEPT !.rounds[j.tick] = RoundJson(j)]
  IN /\ job[p] # NotThere
     /\ files' = [files EXCEPT ![j.board] = IF j.live THEN __create_tick_info_json(g, j.tick) ELSE g]
     /\ job' = [job EXCEPT ![p] = NotThere]
     /\ past' = [past EXCEPT !.rebuilt = @ \/ ~Fast(f.team, j.tick)]
     /\ UNCHANGED <<clock, master, daemon, queue, tool, trouble>>

(* update_tick_info of all boards, without a tick.                         *)
update_tick_info ==
  /\ files' = [b \in Board |-> __create_tick_info_json(files[b], NotThere)]
  /\ __publish("master", "internal", files'["internal"].current)

-----------------------------------------------------------------------------
(* The master timer.                                                       *)

StartGame ==
  /\ state = "STOPPED" /\ tick = 0
  /\ state' = "RUNNING" /\ tick' = 1
  /\ update_tick_info
  /\ master' = [tick |-> 0, board |-> 1, pc |-> "create"]
  /\ UNCHANGED <<scored, job, daemon, tool, trouble, past>>

(* A timer's time was changed: the last tick is published again.           *)
on_update_times ==
  /\ trouble = "times" /\ trouble' = "none" /\ daemon.pc = "listen"
  /\ update_tick_info
  /\ UNCHANGED <<clock, job, master, daemon, tool, past>>

(* The tick ends; the next begins, or the game is suspended or over.       *)
EndTick ==
  /\ state = "RUNNING" /\ master.pc \in {"idle", "dead"} /\ tick > scored
  /\ master' = [tick |-> tick, board |-> 0, pc |-> "score"]
  /\ \/ tick < MaxTick /\ tick' = tick + 1 /\ UNCHANGED state
     \/ tick < MaxTick /\ trouble = "reset" /\ state' = "SUSPENDED" /\ UNCHANGED tick
     \/ tick = MaxTick /\ state' = "STOPPED" /\ UNCHANGED tick
  /\ UNCHANGED <<scored, files, job, daemon, queue, tool, trouble, past>>

Resume ==
  /\ state = "SUSPENDED" /\ master.pc \in {"idle", "dead"}
  /\ state' = "RUNNING" /\ tick' = tick + 1
  /\ master' = IF tick = 0 THEN [tick |-> 0, board |-> 1, pc |-> "create"] ELSE master
  /\ UNCHANGED <<scored, files, job, daemon, queue, tool, trouble, past>>

Score ==
  /\ master.pc = "score"
  /\ scored' = master.tick
  /\ master' = [master EXCEPT !.board = 1, !.pc = "create"]
  /\ UNCHANGED <<tick, state, files, job, daemon, queue, tool, trouble, past>>

(* Each board in turn, and the tick before if that has no file.            *)
NextBoard(m) == IF m.board = 2 THEN [m EXCEPT !.pc = "idle"] ELSE [m EXCEPT !.board = 2, !.pc = "create"]

CreateTick ==
  /\ master.pc = "create"
  /\ Fetch("master", Boards[master.board], master.tick, TRUE, TRUE)
  /\ master' = [master EXCEPT !.pc = "before"]
  /\ UNCHANGED <<clock, files, daemon, tool, trouble>>

CreateTickBefore ==
  /\ master.pc = "before" /\ master.tick > 0 /\ ~exists(Boards[master.board], master.tick - 1, TRUE)
  /\ Fetch("master", Boards[master.board], master.tick - 1, TRUE, FALSE)
  /\ master' = NextBoard(master)
  /\ UNCHANGED <<clock, files, daemon, tool, trouble>>

HasTickBefore ==
  /\ master.pc = "before" /\ job["master"] = NotThere
  /\ master.tick = 0 \/ exists(Boards[master.board], master.tick - 1, TRUE)
  /\ master' = NextBoard(master)
  /\ UNCHANGED <<clock, files, job, daemon, queue, tool, trouble, past>>

(* An error ends the thread before it has written its files.               *)
ThreadDies ==
  /\ trouble = "crash" /\ job["master"] # NotThere
  /\ job' = [job EXCEPT !["master"] = NotThere]
  /\ master' = [master EXCEPT !.pc = "dead"]
  /\ trouble' = "none"
  /\ UNCHANGED <<clock, files, daemon, queue, tool, past>>

-----------------------------------------------------------------------------
(* run_scoreboard_generator: each board is completed, then the daemon      *)
(* listens.  current is that of the last board.                            *)

LastOver == IF state = "RUNNING" THEN tick - 1 ELSE tick

DaemonStart ==
  /\ daemon.pc = "off"
  /\ daemon' = [pc |-> "first", board |-> 1, current |-> -1, until |-> LastOver, started |-> state # "STOPPED"]
  /\ UNCHANGED <<clock, files, job, master, queue, tool, trouble, past>>

DaemonFirst ==
  LET b == Boards[daemon.board]
  IN /\ daemon.pc = "first"
     /\ IF exists(b, 0, FALSE) THEN job["daemon"] = NotThere /\ UNCHANGED <<job, queue, past>>
        ELSE Fetch("daemon", b, 0, FALSE, daemon.until = 0)
     /\ daemon' = [daemon EXCEPT !.pc = "prepare", !.current = -1]
     /\ UNCHANGED <<clock, files, master, tool, trouble>>

DaemonPrepare ==
  LET b == Boards[daemon.board]
      d == daemon
  IN /\ d.pc = "prepare" /\ job["daemon"] = NotThere /\ d.current <= d.until
     /\ IF exists(b, d.current, d.started)
          THEN daemon' = [d EXCEPT !.current = @ + 1] /\ UNCHANGED <<job, queue, past>>
          ELSE /\ Fetch("daemon", b, d.current, d.started, d.current = d.until)
               /\ daemon' = [d EXCEPT !.current = @ + 1, !.until = LastOver]
     /\ UNCHANGED <<clock, files, master, tool, trouble>>

DaemonPrepared ==
  /\ daemon.pc = "prepare" /\ job["daemon"] = NotThere /\ daemon.current > daemon.until
  /\ daemon' = IF daemon.board = 1 THEN [daemon EXCEPT !.pc = "first", !.board = 2]
               ELSE [daemon EXCEPT !.pc = "listen", !.board = 1]
  /\ UNCHANGED <<clock, files, job, master, queue, tool, trouble, past>>

(* A message asks for all ticks up to its own.                             *)
DaemonHears ==
  /\ daemon.pc = "listen" /\ job["daemon"] = NotThere /\ daemon.board = 1
  /\ daemon.current > daemon.until \/ daemon.until = -1
  /\ queue # <<>>
  /\ daemon' = [daemon EXCEPT !.until = Head(queue)]
  /\ queue' = Tail(queue)
  /\ UNCHANGED <<clock, files, job, master, tool, trouble, past>>

DaemonCreate ==
  LET d == daemon
  IN /\ d.pc = "listen" /\ d.current <= d.until
     /\ Fetch("daemon", Boards[d.board], d.current, state # "STOPPED", TRUE)
     /\ daemon' = IF d.board = 1 THEN [d EXCEPT !.board = 2] ELSE [d EXCEPT !.board = 1, !.current = @ + 1]
     /\ UNCHANGED <<clock, files, master, tool, trouble>>

-----------------------------------------------------------------------------
(* The recreation of both boards from panel or script.                     *)

RecreateStep ==
  LET b == Boards[tool.board]
  IN /\ trouble = "recreate" /\ tick >= FirstRecreate /\ tool.rn <= LastOver
     /\ IF tool.rn = -1 THEN Fetch("tool", b, 0, FALSE, FALSE)
        ELSE Fetch("tool", b, tool.rn, state # "STOPPED" \/ LastOver > 0, tool.rn = LastOver)
     /\ tool' = [tool EXCEPT !.rn = @ + 1, !.pc = "run"]
     /\ UNCHANGED <<clock, files, master, daemon, trouble>>

RecreateNext ==
  /\ tool.pc = "run" /\ job["tool"] = NotThere /\ tool.rn > LastOver
  /\ IF tool.board = 1 THEN tool' = [tool EXCEPT !.board = 2, !.rn = -1] /\ UNCHANGED trouble
     ELSE tool' = [tool EXCEPT !.pc = "off"] /\ trouble' = "none"
  /\ UNCHANGED <<clock, files, job, master, daemon, queue, past>>

(* reset_ctf_to_round.py, with the master timer stopped: the files of      *)
(* later ticks and the statistics are deleted and made again.              *)
Lower(a, b) == IF a < b THEN a ELSE b

reset_to_tick(f, t, b) == __create_tick_info_json(Statistics(f, t, b), t)

reset_scoreboard(f, n, b) ==
  LET kept == [f EXCEPT !.rounds = [t \in Ticks |-> IF t > n THEN NotThere ELSE f.rounds[t]],
                        !.team = <<>>, !.stat = <<>>]
  IN reset_to_tick(kept, Lower(__create_tick_info_json(f, NotThere).current, n), b)

reset_redis(n) == tick' = n

Reset(n) ==
  /\ trouble = "reset" /\ state = "SUSPENDED" /\ n \in 0..tick
  /\ master.pc = "idle" /\ job["master"] = NotThere
  /\ files' = [b \in Board |-> reset_scoreboard(files[b], n, b)]
  /\ past' = [past EXCEPT !.rebuilt = TRUE]
  /\ reset_redis(n) /\ scored' = n /\ trouble' = "none"
  /\ UNCHANGED <<state, job, master, daemon, queue, tool>>

Master == StartGame \/ on_update_times \/ EndTick \/ Resume \/ Score \/ CreateTick \/ CreateTickBefore \/ HasTickBefore \/ Write("master")
Daemon ==
  \/ DaemonStart \/ DaemonFirst \/ DaemonPrepare \/ DaemonPrepared
  \/ DaemonHears \/ DaemonCreate \/ Write("daemon")
Tool == RecreateStep \/ RecreateNext \/ Write("tool")

Next == Master \/ Daemon \/ Tool \/ ThreadDies \/ \E n \in 0..MaxTick : Reset(n)
Spec == Init /\ [][Next]_vars

-----------------------------------------------------------------------------
(* Properties.                                                             *)

(* The public board keeps the ticks after the freeze to itself: the files  *)
(* of a tick show the points, the first bloods and the attackers of the    *)
(* frozen tick, whoever wrote them in which order, "we must hide infos     *)
(* because of scoreboard freeze" (__create_json_for_tick).                 *)
RoundsFrozen ==
  \A t \in Ticks : LET r == files["public"].rounds[t] IN r # NotThere =>
    /\ r.points <= Freeze /\ r.blood <= Freeze
    /\ t > Freeze => r.delta = NotThere /\ r.attackers = Hidden

(* The same of the points per tick of each team (TeamStatisticJsonGenerator: *)
(* "if self.scoreboard_freeze and is_frozen(tick, True)").                 *)
PointsFrozen == \A i \in DOMAIN files["public"].team : files["public"].team[i] <= Freeze

(* As long as no row had to be made again from the database, the rows of   *)
(* the statistics have for each tick the value of that tick, or the frozen *)
(* one, whichever processes appended to them or wrote a tick twice         *)
(* (StatisticJsonGenerator.update_file).                                   *)
RowsRight ==
  ~past.rebuilt => \A b \in Board : \A i \in DOMAIN files[b].team :
    LET t == i - 1
    IN /\ files[b].team[i] = IF is_frozen(t, b) THEN Freeze ELSE t
       /\ files[b].stat[i] = IF is_frozen(t, b) THEN Hidden ELSE t

(* The tick that the frontend is sent to by scoreboard_current.json has    *)
(* its file, also after a reset or when an end thread died.  When the end  *)
(* thread of a tick has finished, the files of this tick and of all before *)
(* it are there on both boards and show the final points, if at most one   *)
(* thread died and nobody asked for a tick before it was scored            *)
(* (create_scoreboard, reset_scoreboard, _on_end_tick_deferred, exists).   *)
BoardsComplete ==
  /\ \A b \in Board : files[b].current \notin {NotThere, -1} => files[b].rounds[files[b].current] # NotThere
  /\ master.pc = "idle" /\ tick > 0 /\ job["master"] = NotThere /\ ~past.early =>
       \A b \in Board, t \in 0..scored : files[b].rounds[t] # NotThere /\ files[b].rounds[t].final
=============================================================================
