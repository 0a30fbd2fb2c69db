------------------------------ MODULE Recovery ------------------------------
(***************************************************************************)
(* The times of the ticks in the database (DatabaseTickRecording) and what *)
(* reconstruct_redis.py rebuilds from them after Redis lost the clock, and *)
(* reset_ctf.py, which wipes both.                                         *)
(*                                                                         *)
(* The master timer is CtfTimer's, reduced to the events of its ticks.     *)
(* Every event is written by a thread of its own, which tries twice.       *)
(***************************************************************************)
EXTENDS Integers, FiniteSets, FiniteSetsExt

CONSTANTS
  TickTime,    (* length of a tick, a multiple of five seconds             *)
  MaxTick,     (* bound: ticks                                             *)
  Lates,       (* seconds a tick may end late                              *)
  Pauses,      (* seconds that pass before the game is started             *)
  MaxThreads,  (* bound: writes under way when a tick ends or begins       *)
  MaxErrors,   (* bound: SQL errors                                        *)
  MaxLosses    (* bound: losses of the Redis data, and resets              *)

VARIABLES
  game,     (* the clock in Redis: "RUNNING", "lost" or a state, its tick  *)
            (* and tick time                                               *)
  clock,    (* seconds                                                     *)
  table,    (* table ticks: start and end of every tick, or NULL           *)
  threads,  (* writes under way: tick, field, instant, failed attempts     *)
  errors,   (* SQL errors so far                                           *)
  losses,   (* losses and resets so far                                    *)
  begun,    (* history: ticks that began                                   *)
  done,     (* history: ticks whose end was emitted                        *)
  again,    (* history: ticks that began again                             *)
  excused,  (* history: ticks whose end was not in the table when it was   *)
            (* read: it never ended, the write failed or was under way     *)
  outlived  (* history: writes of the game before it outlived a reset      *)

cvars == <<game, clock, table, threads, errors, losses, begun, done, again, excused, outlived>>

NULL == -1
Ticks == 1..MaxTick
Empty == [n \in Ticks |-> [start |-> NULL, end |-> NULL]]
Stopped == [state |-> "STOPPED", tick |-> 0, time |-> TickTime]

TypeOK ==
  /\ game.state \in {"RUNNING", "STOPPED", "SUSPENDED", "lost"} /\ game.tick \in 0..MaxTick
  /\ \A n \in Ticks : table[n].start >= NULL /\ table[n].end >= NULL

Init ==
  /\ game = Stopped /\ clock = 0
  /\ table = Empty /\ threads = {} /\ errors = 0 /\ losses = 0
  /\ begun = {} /\ done = {} /\ again = {} /\ excused = {} /\ outlived = FALSE

-----------------------------------------------------------------------------
(* The master.                                                             *)

(* The thread that writes an event of this step.                           *)
Record(n, f) == [tick |-> n, field |-> f, ts |-> clock', failed |-> 0]

Begin(n) ==
  /\ again' = IF n \in begun THEN again \cup {n} ELSE again
  /\ begun' = begun \cup {n}

StartCtf(pause) ==
  /\ game.state \in {"STOPPED", "SUSPENDED"} /\ game.tick < MaxTick
  /\ Cardinality(threads) <= MaxThreads
  /\ clock' = clock + pause
  /\ game' = [game EXCEPT !.state = "RUNNING", !.tick = @ + 1]
  /\ Begin(game.tick + 1)
  /\ threads' = threads \cup {Record(game.tick + 1, "start")}
  /\ UNCHANGED <<table, errors, losses, done, excused, outlived>>

(* The tick ends late seconds after its time, the next one begins.         *)
EndTick(late) ==
  /\ game.state = "RUNNING" /\ Cardinality(threads) <= MaxThreads
  /\ clock' = clock + TickTime + late
  /\ done' = done \cup {game.tick}
  /\ IF game.tick < MaxTick
       THEN /\ game' = [game EXCEPT !.tick = @ + 1]
            /\ threads' = threads \cup {Record(game.tick, "end"), Record(game.tick + 1, "start")}
            /\ Begin(game.tick + 1)
       ELSE /\ game' = [game EXCEPT !.state = "STOPPED"]
            /\ threads' = threads \cup {Record(game.tick, "end")}
            /\ UNCHANGED <<begun, again>>
  /\ UNCHANGED <<table, errors, losses, excused, outlived>>

(* _on_start_tick_deferred, _on_end_tick_deferred: an upsert of one column *)
(* with retry_on_sql_error(attempts=2).                                    *)
Attempts == 2
_set(w) == [table EXCEPT ![w.tick][w.field] = w.ts]

Write(w) ==
  /\ w \in threads
  /\ table' = _set(w) /\ threads' = threads \ {w}
  /\ UNCHANGED <<game, clock, errors, losses, begun, done, again, excused, outlived>>

WriteFails(w) ==
  /\ w \in threads /\ errors < MaxErrors
  /\ errors' = errors + 1
  /\ threads' = (threads \ {w}) \cup (IF w.failed + 1 < Attempts THEN {[w EXCEPT !.failed = @ + 1]} ELSE {})
  /\ UNCHANGED <<game, clock, table, losses, begun, done, again, excused, outlived>>

-----------------------------------------------------------------------------
(* Redis loses its data; the master dies with it, and its threads if the   *)
(* process is killed.                                                      *)

LoseRedis(kill) ==
  /\ losses < MaxLosses /\ losses' = losses + 1
  /\ game' = [game EXCEPT !.state = "lost"]
  /\ threads' = IF kill THEN {} ELSE threads
  /\ UNCHANGED <<clock, table, errors, begun, done, again, excused, outlived>>

Completed == {n \in Ticks : table[n].end # NULL}
Known == {n \in Ticks : table[n] # Empty[n]}

(* Mutant: the last tick, complete or not, is restored.                    *)
LastCompletedAny == Max(Known)

LastCompleted == Max(Completed)

(* Rounded to five seconds.                                                *)
EstimatedTime(n) == ((table[n].end - table[n].start + 2) \div 5) * 5

(* max(0) of nothing else raises, and so does a row without a start.       *)
reconstruct_redis ==
  /\ game.state = "lost" /\ Completed # {}
  /\ table[LastCompleted].start # NULL
  /\ game' = [state |-> IF LastCompleted < Max(Known) THEN "SUSPENDED" ELSE "STOPPED",
              tick |-> LastCompleted, time |-> EstimatedTime(LastCompleted)]
  /\ excused' = excused \cup (Ticks \ Completed)
  /\ UNCHANGED <<clock, table, threads, errors, losses, begun, done, again, outlived>>

(* reset_redis, reset_database: the timer's new values are published and   *)
(* the running master takes them.                                          *)
reset_ctf ==
  /\ losses < MaxLosses /\ losses' = losses + 1
  /\ game' = Stopped /\ table' = Empty
  /\ begun' = {} /\ done' = {} /\ again' = {} /\ excused' = {}
  /\ outlived' = (outlived \/ threads # {})
  /\ UNCHANGED <<clock, threads, errors>>

Next ==
  \/ (\E pause \in Pauses : StartCtf(pause)) \/ \E late \in Lates : EndTick(late)
  \/ \E w \in threads : Write(w) \/ WriteFails(w)
  \/ \E kill \in BOOLEAN : LoseRedis(kill)
  \/ reconstruct_redis \/ reset_ctf

Spec == Init /\ [][Next]_cvars

-----------------------------------------------------------------------------
(* A rebuilt clock goes on where the game was: no tick is left out, one is *)
(* played again only if its end was not in the table, and until one is the *)
(* tick time is the one the game had, if ticks end at most two seconds     *)
(* late; whatever order the threads wrote in and whichever of them failed, *)
(* but not after a reset that writes of the old game outlived              *)
(* (reconstruct_redis, DatabaseTickRecording).                             *)
GoesOn ==
  ~outlived =>
    /\ game.state # "lost" => 1..(game.tick - 1) \subseteq done
    /\ again \subseteq excused
    /\ again = {} => game.time = TickTime
=============================================================================
