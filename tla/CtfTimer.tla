------------------------------ MODULE CtfTimer ------------------------------
(***************************************************************************)
(* The clock of the game (controlserver/timer.py): one master timer that   *)
(* starts and ends ticks, the timing:* keys it keeps in Redis, and one     *)
(* slave timer (the control panel) that replicates the clock over Redis    *)
(* publish/subscribe and sends commands the same way.                      *)
(*                                                                         *)
(* Every SET of a key is followed by a PUBLISH of the same value.  The     *)
(* master subscribes to its own channels, so it also hears its own echo.   *)
(* The master may crash between any two steps and inside on_update_times;  *)
(* a restarted master reads the keys and then subscribes.                  *)
(*                                                                         *)
(* Time is counted in seconds and saturates at MaxTime.  None is 0: the    *)
(* code tests its optional integers by truth value.                        *)
(***************************************************************************)
EXTENDS Integers, Sequences

CONSTANTS
  TickTimes,    (* tick durations an administrator may choose             *)
  DefaultTime,  (* config.TICK_DURATION_DEFAULT                           *)
  StartTimes,   (* instants that may be entered as startAt                *)
  OpenTimes,    (* instants that may be entered as openVulnboxAccessAt    *)
  LastTicks,    (* tick numbers that may be entered as the last tick      *)
  MaxTime,      (* bound: the clock saturates here                        *)
  MaxCommands,  (* bound: commands sent by the slave                      *)
  MaxCrashes    (* bound: crashes of the master                           *)

ASSUME TimerAssumption ==
  /\ TickTimes \subseteq Nat \ {0}
  /\ DefaultTime \in Nat \ {0}
  /\ StartTimes \subseteq Nat \ {0}
  /\ OpenTimes \subseteq Nat \ {0}
  /\ LastTicks \subseteq Nat \ {0}
  /\ MaxTime \in Nat \ {0}
  /\ MaxCommands \in Nat
  /\ MaxCrashes \in Nat

VARIABLES
  now,      (* int(time.time())                                           *)
  m,        (* the fields of the master's CTFTimer                        *)
  pc,       (* where the master's thread is                               *)
  t,        (* check_time's local t                                       *)
  redis,    (* the timing:* keys; a key never written has Fresh's value   *)
  stored,   (* the timing:* keys that were ever written                   *)
  rounds,   (* ticks with round:N:start/end/time keys                     *)
  s,        (* the fields of the control panel's CTFTimerSlave            *)
  todo,     (* keys the slave's current command has still to send         *)
  sending,  (* at most one message: SET, not yet PUBLISHed                *)
  chanM,    (* published messages the master's listener has not applied   *)
  chanS,    (* the same for the slave's listener                          *)
  begun,    (* history: ticks whose on_start_tick was emitted             *)
  ended,    (* history: ticks whose on_end_tick was emitted               *)
  repeated, (* history: ticks whose on_start_tick was emitted again       *)
  final,    (* history: tick that set_timing's last tick turned final     *)
  commands, (* commands sent so far                                       *)
  crashes   (* crashes so far                                             *)

slaveVars == <<s, todo, sending, commands>>
history == <<begun, ended, repeated, final>>
vars == <<now, m, pc, t, redis, stored, rounds, slaveVars, chanM, chanS, history, crashes>>

CTFState == {"STOPPED", "SUSPENDED", "RUNNING"}
None == 0

Timer ==
  [state: CTFState, desired: CTFState, tick: Nat, start: Nat, end: Nat,
   time: Nat, stopAfter: Nat, startAt: Nat, openAt: Nat]

(* Mutant: the tick is written before the state.                           *)
KeyOrderTickFirst ==
  <<"tick", "state", "desired", "start", "end", "time", "stopAfter", "startAt", "openAt">>

(* Mutant: the last tick is cleared before the game is told to stop.       *)
KeyOrderStopFirst ==
  <<"stopAfter", "state", "desired", "tick", "start", "end", "time", "startAt", "openAt">>

(* The keys in the order on_update_times writes them.                      *)
KeyOrder ==
  <<"state", "desired", "tick", "start", "end", "time", "stopAfter", "startAt", "openAt">>
Keys == {KeyOrder[i] : i \in 1..9}
FirstKeys(k) == {KeyOrder[i] : i \in 1..k}

(* The constructor's values.                                               *)
Fresh ==
  [state |-> "STOPPED", desired |-> "STOPPED", tick |-> 0, start |-> None, end |-> None,
   time |-> DefaultTime, stopAfter |-> None, startAt |-> None, openAt |-> None]

(* The timer d with the fields keys taken from c.                          *)
Merge(keys, c, d) ==
  LET v(f) == IF f \in keys THEN c[f] ELSE d[f]
  IN [state |-> v("state"), desired |-> v("desired"), tick |-> v("tick"),
      start |-> v("start"), end |-> v("end"), time |-> v("time"),
      stopAfter |-> v("stopAfter"), startAt |-> v("startAt"), openAt |-> v("openAt")]

(* A message carries the values of some keys of the sender's timer; a      *)
(* listener assigns them to its fields.                                    *)
Message == [keys: SUBSET Keys, val: Timer]
Msg(keys, c) == [keys |-> keys, val |-> Merge(keys, c, Fresh)]
Apply(c, msg) == Merge(msg.keys, msg.val, c)

Locations == {"down", "init", "due", "ended", "update", "sleep"}

TypeOK ==
  /\ now \in Nat /\ t \in Nat
  /\ m \in Timer /\ redis \in Timer /\ s \in Timer
  /\ pc \in Locations
  /\ todo \in Seq(SUBSET Keys)
  /\ sending \in Seq(Message) /\ chanM \in Seq(Message) /\ chanS \in Seq(Message)
  /\ stored \subseteq Keys /\ rounds \subseteq Nat
  /\ begun \subseteq Nat /\ ended \subseteq Nat /\ repeated \subseteq Nat
  /\ final \in Nat
  /\ commands \in Nat /\ crashes \in Nat

Init ==
  /\ now = 1 /\ t = None
  /\ m = Fresh /\ redis = Fresh /\ s = Fresh
  /\ pc = "sleep"
  /\ stored = {} /\ rounds = {}
  /\ todo = <<>> /\ sending = <<>>
  /\ chanM = <<>> /\ chanS = <<>>
  /\ begun = {} /\ ended = {} /\ repeated = {} /\ final = None
  /\ commands = 0 /\ crashes = 0

(* The master's pubsub exists between bind_to_redis and a crash.           *)
Listening == pc \notin {"down", "init"}

Publish(msg) ==
  /\ chanM' = IF Listening THEN Append(chanM, msg) ELSE chanM
  /\ chanS' = Append(chanS, msg)

-----------------------------------------------------------------------------
(* The master's thread: check_time once a second, in the steps between     *)
(* which the listener thread or a crash can intervene.                     *)

(* No command is under way.                                                *)
NothingInFlight == chanM = <<>> /\ chanS = <<>> /\ todo = <<>> /\ sending = <<>>

IsLastTick(c) == c.stopAfter # None /\ c.stopAfter = c.tick

(* on_start_tick for the timer c: the last tick turns the game off.  The   *)
(* final tick so far is f.                                                 *)
on_start_tick(c, f) ==
  /\ m' = IF IsLastTick(c) THEN [c EXCEPT !.desired = "STOPPED", !.stopAfter = None] ELSE c
  /\ begun' = begun \cup {c.tick}
  /\ repeated' = repeated \cup ({c.tick} \cap begun)
  /\ final' = IF IsLastTick(c) /\ redis.stopAfter = c.tick /\ NothingInFlight THEN c.tick ELSE f

(* Mutant: a check that comes late misses the end of the tick.             *)
TickOverOnTheSecond == m.state = "RUNNING" /\ m.end # None /\ now = m.end

(* The current tick is over.                                               *)
TickOver == m.state = "RUNNING" /\ m.end # None /\ now >= m.end

EndTick ==
  /\ pc = "due" /\ TickOver
  /\ t' = now
  /\ ended' = ended \cup {m.tick}
  /\ pc' = "ended"
  /\ UNCHANGED <<now, m, redis, stored, rounds, slaveVars, chanM, chanS, begun, repeated, final, crashes>>

(* A late check restarts the rhythm from t, a punctual one keeps it.       *)
NextTick ==
  /\ pc = "ended" /\ m.desired = "RUNNING"
  /\ LET start == IF t > m.end + 1 THEN t ELSE m.end
     IN on_start_tick([m EXCEPT !.tick = m.tick + 1, !.start = start, !.end = start + m.time], final)
  /\ pc' = "update" /\ t' = None
  /\ UNCHANGED <<now, redis, stored, rounds, slaveVars, chanM, chanS, ended, crashes>>

(* Mutant: the new state is not written.                                   *)
StopAfterTickUnsaved ==
  /\ pc = "ended" /\ m.desired # "RUNNING"
  /\ m' = [m EXCEPT !.state = m.desired]
  /\ pc' = "sleep" /\ t' = None
  /\ UNCHANGED <<now, redis, stored, rounds, slaveVars, chanM, chanS, history, crashes>>

StopAfterTick ==
  /\ pc = "ended" /\ m.desired # "RUNNING"
  /\ m' = [m EXCEPT !.state = m.desired]
  /\ pc' = "update" /\ t' = None
  /\ UNCHANGED <<now, redis, stored, rounds, slaveVars, chanM, chanS, history, crashes>>

(* start_ctf for the timer c; on_start_ctf, emitted when the game was      *)
(* STOPPED, records the times of the new tick.                             *)
start_ctf(c, f) ==
  /\ on_start_tick([c EXCEPT !.desired = "RUNNING", !.tick = c.tick + 1, !.start = now,
                             !.end = now + c.time, !.state = "RUNNING"], f)
  /\ rounds' = IF c.state = "STOPPED" THEN rounds \cup {c.tick + 1} ELSE rounds

(* Mutant: a suspended game is not resumed.                                *)
StartOnCommandIfStopped ==
  /\ pc = "due" /\ m.state # "RUNNING" /\ m.desired = "RUNNING"
  /\ IF m.state = "STOPPED"
       THEN start_ctf(m, final) /\ pc' = "update"
       ELSE pc' = "sleep" /\ UNCHANGED <<m, begun, repeated, final, rounds>>
  /\ UNCHANGED <<now, t, redis, stored, slaveVars, chanM, chanS, ended, crashes>>

StartOnCommand ==
  /\ pc = "due" /\ m.state # "RUNNING" /\ m.desired = "RUNNING"
  /\ start_ctf(m, final)
  /\ pc' = "update"
  /\ UNCHANGED <<now, t, redis, stored, slaveVars, chanM, chanS, ended, crashes>>

(* Timed events are acted on in the five seconds from their instant.       *)
Due(at) == at # None /\ at <= now /\ now <= at + 4

Waiting == pc = "due" /\ m.state # "RUNNING" /\ m.desired # "RUNNING"

StartOnTime ==
  /\ Waiting /\ Due(m.startAt)
  /\ start_ctf([m EXCEPT !.startAt = None], None)
  /\ pc' = "update"
  /\ UNCHANGED <<now, t, redis, stored, slaveVars, chanM, chanS, ended, crashes>>

OpenVulnboxOnTime ==
  /\ Waiting /\ ~Due(m.startAt) /\ Due(m.openAt)
  /\ m' = [m EXCEPT !.openAt = None]
  /\ pc' = "update"
  /\ UNCHANGED <<now, t, redis, stored, rounds, slaveVars, chanM, chanS, history, crashes>>

NothingDue ==
  /\ pc = "due"
  /\ \/ m.state = "RUNNING" /\ ~TickOver
     \/ Waiting /\ ~Due(m.startAt) /\ ~Due(m.openAt)
  /\ pc' = "sleep"
  /\ UNCHANGED <<now, m, t, redis, stored, rounds, slaveVars, chanM, chanS, history, crashes>>

(* update_tick_times                                                       *)
RecordTick == rounds' = IF m.state = "RUNNING" THEN rounds \cup {m.tick} ELSE rounds

(* Mutant: startAt is stored but not published.                            *)
on_update_times_unpublished ==
  /\ pc = "update"
  /\ redis' = m /\ stored' = Keys
  /\ Publish(Msg(Keys \ {"startAt"}, m))
  /\ RecordTick
  /\ pc' = "sleep"
  /\ UNCHANGED <<now, m, t, slaveVars, history, crashes>>

on_update_times ==
  /\ pc = "update"
  /\ redis' = m /\ stored' = Keys
  /\ Publish(Msg(Keys, m))
  /\ RecordTick
  /\ pc' = "sleep"
  /\ UNCHANGED <<now, m, t, slaveVars, history, crashes>>

-----------------------------------------------------------------------------
(* Crash and restart of the master.                                        *)

Die ==
  /\ crashes < MaxCrashes
  /\ crashes' = crashes + 1
  /\ pc' = "down"
  /\ m' = Fresh /\ t' = None /\ chanM' = <<>>
  /\ UNCHANGED <<now, rounds, slaveVars, history>>

Crash ==
  /\ Listening
  /\ Die
  /\ UNCHANGED <<redis, stored, chanS>>

(* on_update_times fails after k of its nine keys.                         *)
CrashInUpdate(k) ==
  /\ pc = "update"
  /\ redis' = Merge(FirstKeys(k), m, redis) /\ stored' = stored \cup FirstKeys(k)
  /\ chanS' = Append(chanS, Msg(FirstKeys(k), m))
  /\ Die

(* Without timing:state the constructor's values stay, the other keys are  *)
(* not read; with it but without timing:desiredState init raises, and so   *)
(* does every later attempt to restart.                                    *)
init_from_redis ==
  /\ pc = "down"
  /\ "state" \in stored => "desired" \in stored
  /\ m' = IF "state" \in stored THEN redis ELSE Fresh
  /\ pc' = "init"
  /\ UNCHANGED <<now, t, redis, stored, rounds, slaveVars, chanM, chanS, history, crashes>>

bind_to_redis ==
  /\ pc = "init"
  /\ pc' = "due"
  /\ UNCHANGED <<now, m, t, redis, stored, rounds, slaveVars, chanM, chanS, history, crashes>>

-----------------------------------------------------------------------------
(* The listener threads.                                                   *)

MasterHears ==
  /\ chanM # <<>>
  /\ m' = Apply(m, Head(chanM))
  /\ chanM' = Tail(chanM)
  /\ UNCHANGED <<now, pc, t, redis, stored, rounds, slaveVars, chanS, history, crashes>>

SlaveHears ==
  /\ chanS # <<>>
  /\ s' = Apply(s, Head(chanS))
  /\ chanS' = Tail(chanS)
  /\ UNCHANGED <<now, m, pc, t, redis, stored, rounds, todo, sending, commands, chanM, history, crashes>>

-----------------------------------------------------------------------------
(* The control panel: overview_set_timing and the setters of the slave.    *)
(* A setter assigns the field, then SETs and PUBLISHes it key by key; the  *)
(* value is read from the field again when it is sent.                     *)

Command(c, keys) ==
  /\ todo = <<>> /\ sending = <<>>
  /\ commands < MaxCommands
  /\ commands' = commands + 1
  /\ s' = c
  /\ todo' = keys
  /\ UNCHANGED <<now, m, pc, t, redis, stored, rounds, sending, chanM, chanS, begun, ended, repeated, crashes>>

set_state(d) ==
  /\ Command([s EXCEPT !.desired = d], <<{"desired"}>>)
  /\ final' = IF d = "RUNNING" THEN None ELSE final

set_tick_time(x) ==
  /\ s.time # x
  /\ IF s.start # None
       THEN Command([s EXCEPT !.time = x, !.end = s.start + x], <<{"end"}, {"time"}>>)
       ELSE Command([s EXCEPT !.time = x], <<{"time"}>>)
  /\ UNCHANGED final

set_last_tick(n) ==
  \/ /\ n = None \/ n > s.tick
     /\ s.stopAfter # n
     /\ Command([s EXCEPT !.stopAfter = n], <<{"stopAfter"}>>)
     /\ final' = None
  \/ /\ n # None /\ n = s.tick
     /\ set_state("STOPPED")

set_start_at(at) ==
  /\ at = None \/ at >= now
  /\ s.startAt # at
  /\ Command([s EXCEPT !.startAt = at], <<{"startAt"}>>)
  /\ UNCHANGED final

set_open_vulnbox_access_at(at) ==
  /\ at = None \/ at >= now
  /\ s.openAt # at
  /\ Command([s EXCEPT !.openAt = at], <<{"openAt"}>>)
  /\ UNCHANGED final

(* redis_set_and_publish, first half.                                      *)
SlaveSets ==
  /\ todo # <<>> /\ sending = <<>>
  /\ LET msg == Msg(Head(todo), s)
     IN /\ redis' = Apply(redis, msg) /\ stored' = stored \cup Head(todo)
        /\ sending' = <<msg>>
  /\ todo' = Tail(todo)
  /\ UNCHANGED <<now, m, pc, t, rounds, s, commands, chanM, chanS, history, crashes>>

(* redis_set_and_publish, second half.                                     *)
SlavePublishes ==
  /\ sending # <<>>
  /\ Publish(Head(sending))
  /\ sending' = <<>>
  /\ UNCHANGED <<now, m, pc, t, redis, stored, rounds, s, todo, commands, history, crashes>>

-----------------------------------------------------------------------------
(* A second passes.  Messages take less than a second, check_time runs in  *)
(* every second unless its previous call is still busy.                    *)
Second ==
  /\ pc # "due"
  /\ NothingInFlight
  /\ now' = IF now < MaxTime THEN now + 1 ELSE now
  /\ pc' = IF pc = "sleep" THEN "due" ELSE pc
  /\ UNCHANGED <<m, t, redis, stored, rounds, slaveVars, chanM, chanS, history, crashes>>

MasterStep ==
  \/ EndTick \/ NextTick \/ StopAfterTick
  \/ StartOnCommand \/ StartOnTime \/ OpenVulnboxOnTime \/ NothingDue
  \/ on_update_times
  \/ init_from_redis \/ bind_to_redis

Administrator ==
  \/ \E d \in CTFState : set_state(d)
  \/ \E x \in TickTimes : set_tick_time(x)
  \/ \E n \in LastTicks \cup {None} : set_last_tick(n)
  \/ \E at \in StartTimes \cup {None} : set_start_at(at)
  \/ \E at \in OpenTimes \cup {None} : set_open_vulnbox_access_at(at)

Failure == Crash \/ \E k \in 1..9 : CrashInUpdate(k)

Next ==
  \/ MasterStep \/ Failure
  \/ MasterHears \/ SlaveHears
  \/ Administrator \/ SlaveSets \/ SlavePublishes
  \/ Second

Spec == Init /\ [][Next]_vars

(* The threads of both processes keep running, a dead master is restarted  *)
(* and time goes on; nothing obliges the administrator to act.             *)
Fairness ==
  /\ WF_vars(MasterStep)
  /\ WF_vars(MasterHears) /\ WF_vars(SlaveHears)
  /\ WF_vars(SlaveSets) /\ WF_vars(SlavePublishes)
  /\ WF_vars(Second)

FairSpec == Spec /\ Fairness
-----------------------------------------------------------------------------
(* Properties.                                                             *)

(* Ticks follow each other without a gap: a tick is only begun when the    *)
(* one before it has been ended, and only a tick that was begun is ended,  *)
(* whatever crashes, restarts and commands intervene (check_time).         *)
NoTickSkipped ==
  /\ \A n \in begun : n = 1 \/ (n > 1 /\ n - 1 \in ended)
  /\ ended \subseteq begun

(* Between two calls of check_time the keys hold the master's clock, so a  *)
(* master that restarts there resumes the tick that is running.            *)
Persisted ==
  pc \in {"due", "sleep"} =>
    /\ redis.state = m.state
    /\ redis.tick = m.tick
    /\ redis.start = m.start

(* Once on_start_tick has recognised the last tick (one the keys hold too, *)
(* with no command under way), no later tick begins until an administrator *)
(* changes his mind: whichever of its nine keys on_update_times dies at,   *)
(* the restarted master still ends the game.                               *)
LastTickIsFinal == final # None => \A n \in begun : n <= final

(* Unless the master crashed, on_start_tick is emitted at most once for a  *)
(* tick, and when nothing is in flight the control panel shows the         *)
(* master's clock: every change of the master is published.                *)
SlaveAgrees ==
  crashes = 0 => repeated = {} /\ (NothingInFlight /\ pc = "sleep" => s = m)

(* The inductive strengthening of NoTickSkipped.  A timer is Sound if it   *)
(* names a tick that was begun, and one that was ended unless RUNNING.     *)
Sound(c) ==
  /\ c.tick # 0 => c.tick \in begun
  /\ c.state # "RUNNING" /\ c.tick # 0 => c.tick \in ended

Unscheduled(c) == c.start = None /\ c.end = None

(* Of the clock itself only the master's echo is under way, and only while *)
(* it sleeps; the slave sends nothing but commands.                        *)
EchoOnly ==
  /\ \A i \in 1..Len(chanM) :
       /\ "tick" \in chanM[i].keys => pc = "sleep" /\ chanM[i].val.tick = m.tick
       /\ "state" \in chanM[i].keys => pc = "sleep" /\ chanM[i].val.state = m.state
       /\ "start" \in chanM[i].keys => pc = "sleep" /\ chanM[i].val.start = m.start
  /\ \A i \in 1..Len(todo) : todo[i] \cap {"tick", "state", "start"} = {}
  /\ \A i \in 1..Len(sending) : sending[i].keys \cap {"tick", "state", "start"} = {}

(* No end of tick is scheduled anywhere before the first tick is recorded. *)
NoEarlySchedule ==
  /\ m.tick = 0 => Unscheduled(m)
  /\ redis.tick = 0 =>
       /\ Unscheduled(redis) /\ Unscheduled(s)
       /\ \A i \in 1..Len(chanM) : Unscheduled(chanM[i].val)
       /\ \A i \in 1..Len(chanS) : Unscheduled(chanS[i].val)
       /\ \A i \in 1..Len(sending) : Unscheduled(sending[i].val)

(* Between its steps the keys and the master agree, but for the update     *)
(* that is due; a master that is not subscribed has nothing to hear.       *)
Located ==
  /\ pc \notin {"down", "update"} => redis.tick = m.tick /\ redis.state = m.state /\ redis.start = m.start
  /\ pc = "ended" => m.state = "RUNNING" /\ m.tick \in ended
  /\ pc = "update" => m.tick = IF m.state = "RUNNING" THEN redis.tick + 1 ELSE redis.tick
  /\ ~Listening => chanM = <<>>
  /\ "state" \notin stored => redis.tick = 0 /\ redis.state = "STOPPED"

TickInv ==
  /\ NoTickSkipped
  /\ Sound(m) /\ Sound(redis)
  /\ Located
  /\ EchoOnly
  /\ NoEarlySchedule

(* A game that is to stop or pause does so when its tick is over, unless   *)
(* it is told to go on (check_time, second branch).                        *)
StopHonoured ==
  (m.state = "RUNNING" /\ m.desired # "RUNNING" /\ m.end \in 1..MaxTime)
    ~> (m.state # "RUNNING" \/ m.desired = "RUNNING" \/ m.end > MaxTime)

(* A start command is obeyed.                                              *)
StartHonoured ==
  (m.desired = "RUNNING" /\ m.state # "RUNNING")
    ~> (m.state = "RUNNING" \/ m.desired # "RUNNING")
=============================================================================
