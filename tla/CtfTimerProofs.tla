--------------------------- MODULE CtfTimerProofs ---------------------------
(* Theorems about the master timer and the gates announced to the routers,  *)
(* for every value of the constants.                                        *)
EXTENDS CtfRoute, TLAPS

(* Taking some fields of one timer over into another yields a timer.        *)
LEMMA MergeType ==
  ASSUME NEW keys, NEW c \in Timer, NEW d \in Timer
  PROVE  Merge(keys, c, d) \in Timer
BY DEF Merge, Timer

(* The constructor's values are a timer.                                    *)
LEMMA FreshType == Fresh \in Timer
BY TimerAssumption DEF Fresh, Timer, CTFState, None

(* A message built from a timer is a message.                               *)
LEMMA MsgType ==
  ASSUME NEW keys \in SUBSET Keys, NEW c \in Timer
  PROVE  Msg(keys, c) \in Message
BY MergeType, FreshType DEF Msg, Message

(* The first keys on_update_times writes are keys.                          *)
LEMMA FirstKeysType ==
  ASSUME NEW k \in 1..9
  PROVE  FirstKeys(k) \subseteq Keys
BY DEF FirstKeys, Keys

(* A listener that applies a message still holds a timer.                   *)
LEMMA ApplyType ==
  ASSUME NEW c \in Timer, NEW msg \in Message
  PROVE  Apply(c, msg) \in Timer
BY MergeType DEF Apply, Message

(* The keys a command may send.                                             *)
LEMMA CommandKeys ==
  /\ {"desired"} \in SUBSET Keys /\ {"end"} \in SUBSET Keys /\ {"time"} \in SUBSET Keys
  /\ {"stopAfter"} \in SUBSET Keys /\ {"startAt"} \in SUBSET Keys /\ {"openAt"} \in SUBSET Keys
<1>1. /\ KeyOrder[2] = "desired" /\ KeyOrder[5] = "end" /\ KeyOrder[6] = "time"
      /\ KeyOrder[7] = "stopAfter" /\ KeyOrder[8] = "startAt" /\ KeyOrder[9] = "openAt"
  BY DEF KeyOrder
<1> QED
  BY <1>1 DEF Keys

(* Assigning a state to a field yields a timer.                             *)
LEMMA StateField ==
  ASSUME NEW c \in Timer, NEW d \in CTFState
  PROVE  [c EXCEPT !.state = d] \in Timer /\ [c EXCEPT !.desired = d] \in Timer
BY DEF Timer

(* Assigning a number to a field yields a timer.                            *)
LEMMA NatField ==
  ASSUME NEW c \in Timer, NEW n \in Nat
  PROVE  /\ [c EXCEPT !.time = n] \in Timer
         /\ [c EXCEPT !.stopAfter = n] \in Timer
         /\ [c EXCEPT !.startAt = n] \in Timer /\ [c EXCEPT !.openAt = n] \in Timer
BY DEF Timer, CTFState

(* A new duration and end of the tick yield a timer.                        *)
LEMMA TimeFields ==
  ASSUME NEW c \in Timer, NEW n \in Nat, NEW j \in Nat
  PROVE  [c EXCEPT !.time = n, !.end = j] \in Timer
BY DEF Timer

(* The last tick's assignments yield a timer.                               *)
LEMMA LastTickType ==
  ASSUME NEW c \in Timer
  PROVE  [c EXCEPT !.desired = "STOPPED", !.stopAfter = None] \in Timer
BY DEF Timer, CTFState, None

(* A new tick yields a timer.                                               *)
LEMMA NewTickType ==
  ASSUME NEW c \in Timer, NEW k \in Nat, NEW n \in Nat, NEW j \in Nat
  PROVE  [c EXCEPT !.tick = k, !.start = n, !.end = j] \in Timer
BY DEF Timer

(* The first tick of a started game yields a timer.                         *)
LEMMA StartedType ==
  ASSUME NEW c \in Timer, NEW d \in CTFState, NEW k \in Nat, NEW n \in Nat, NEW j \in Nat,
         NEW e \in CTFState
  PROVE  [c EXCEPT !.desired = d, !.tick = k, !.start = n, !.end = j, !.state = e] \in Timer
BY DEF Timer

(* The types of the fields.                                                 *)
LEMMA TimerFields ==
  ASSUME NEW c \in Timer
  PROVE  /\ c.state \in CTFState /\ c.desired \in CTFState /\ c.tick \in Nat /\ c.start \in Nat
         /\ c.end \in Nat /\ c.time \in Nat /\ c.stopAfter \in Nat /\ c.startAt \in Nat
         /\ c.openAt \in Nat
BY DEF Timer

(* on_start_tick leaves a timer in the master.                              *)
LEMMA OnStartTickType ==
  ASSUME NEW c \in Timer, NEW f \in Nat, TypeOK, on_start_tick(c, f)
  PROVE  /\ m' \in Timer /\ begun' \subseteq Nat /\ repeated' \subseteq Nat /\ final' \in Nat
BY LastTickType, TimerFields DEF on_start_tick, TypeOK

(* So does start_ctf.                                                       *)
LEMMA StartCtfType ==
  ASSUME NEW c \in Timer, NEW f \in Nat, TypeOK, start_ctf(c, f)
  PROVE  /\ m' \in Timer /\ begun' \subseteq Nat /\ repeated' \subseteq Nat /\ final' \in Nat
         /\ rounds' \subseteq Nat
<1> DEFINE d == [c EXCEPT !.desired = "RUNNING", !.tick = c.tick + 1, !.start = now,
                          !.end = now + c.time, !.state = "RUNNING"]
<1>1. c.tick + 1 \in Nat /\ now \in Nat /\ now + c.time \in Nat
  BY TimerFields DEF TypeOK
<1>2. d \in Timer
  BY <1>1, StartedType DEF CTFState
<1>3. on_start_tick(d, f) /\ rounds' \subseteq rounds \cup {c.tick + 1}
  BY DEF start_ctf
<1> QED
  BY <1>1, <1>2, <1>3, OnStartTickType DEF TypeOK

(* A command of the control panel keeps the types.                          *)
LEMMA CommandType ==
  ASSUME NEW c \in Timer, NEW keys \in Seq(SUBSET Keys), TypeOK, Command(c, keys), final' \in Nat
  PROVE  TypeOK'
BY DEF TypeOK, Command

(* What each kind of step does to the types.                                *)
LEMMA TypeStep == TypeOK /\ [Next]_vars => TypeOK'
<1> SUFFICES ASSUME TypeOK, [Next]_vars PROVE TypeOK'
  OBVIOUS
<1>1. CASE EndTick
  BY <1>1 DEF TypeOK, EndTick, slaveVars, Locations, Timer
<1>2. CASE NextTick
  <2> DEFINE start == IF t > m.end + 1 THEN t ELSE m.end
             c == [m EXCEPT !.tick = m.tick + 1, !.start = start, !.end = start + m.time]
  <2>1. m \in Timer /\ start \in Nat /\ m.tick + 1 \in Nat /\ start + m.time \in Nat
    BY TimerFields DEF TypeOK
  <2>2. c \in Timer
    BY <2>1, NewTickType
  <2>3. on_start_tick(c, final)
    BY <1>2 DEF NextTick
  <2> QED
    BY <1>2, <2>2, <2>3, OnStartTickType DEF TypeOK, NextTick, slaveVars, Locations, None
<1>3. CASE StopAfterTick
  BY <1>3 DEF TypeOK, StopAfterTick, slaveVars, history, Locations, Timer, None
<1>4. CASE StartOnCommand
  BY <1>4, StartCtfType DEF TypeOK, StartOnCommand, slaveVars, Locations
<1>5. CASE StartOnTime
  <2>1. [m EXCEPT !.startAt = None] \in Timer
    BY TimerAssumption, NatField DEF TypeOK, None
  <2> QED
    BY <1>5, <2>1, StartCtfType DEF TypeOK, StartOnTime, slaveVars, Locations, None
<1>6. CASE OpenVulnboxOnTime
  BY <1>6 DEF TypeOK, OpenVulnboxOnTime, slaveVars, history, Locations, Timer, None
<1>7. CASE NothingDue
  BY <1>7 DEF TypeOK, NothingDue, slaveVars, history, Locations
<1>8. CASE on_update_times
  <2>1. Msg(Keys, m) \in Message
    BY MsgType DEF TypeOK
  <2>2. rounds' \subseteq Nat
    BY <1>8 DEF TypeOK, on_update_times, RecordTick, Timer
  <2> QED
    BY <1>8, <2>1, <2>2 DEF TypeOK, on_update_times, Publish, slaveVars, history, Locations
<1>9. CASE Crash
  BY <1>9, FreshType DEF TypeOK, Crash, Die, slaveVars, history, Locations, None
<1>10. ASSUME NEW k \in 1..9, CrashInUpdate(k) PROVE TypeOK'
  <2>1. Msg(FirstKeys(k), m) \in Message /\ Merge(FirstKeys(k), m, redis) \in Timer
    BY MsgType, MergeType, FirstKeysType DEF TypeOK
  <2>2. stored' \subseteq Keys
    BY <1>10, FirstKeysType DEF TypeOK, CrashInUpdate
  <2> QED
    BY <1>10, <2>1, <2>2, FreshType DEF TypeOK, CrashInUpdate, Die, slaveVars, history, Locations, None
<1>11. CASE init_from_redis
  BY <1>11, FreshType DEF TypeOK, init_from_redis, slaveVars, history, Locations
<1>12. CASE bind_to_redis
  BY <1>12 DEF TypeOK, bind_to_redis, slaveVars, history, Locations
<1>13. CASE MasterHears
  BY <1>13, ApplyType DEF TypeOK, MasterHears, slaveVars, history
<1>14. CASE SlaveHears
  BY <1>14, ApplyType DEF TypeOK, SlaveHears, slaveVars, history
<1>15. ASSUME NEW d \in CTFState, set_state(d) PROVE TypeOK'
  <2>1. [s EXCEPT !.desired = d] \in Timer
    BY StateField DEF TypeOK
  <2>2. <<{"desired"}>> \in Seq(SUBSET Keys)
    BY CommandKeys
  <2>3. final' \in Nat
    BY <1>15 DEF set_state, TypeOK, None
  <2> QED
    BY <1>15, <2>1, <2>2, <2>3, CommandType DEF set_state
<1>16. ASSUME NEW x \in TickTimes, set_tick_time(x) PROVE TypeOK'
  <2> s \in Timer /\ x \in Nat /\ s.start + x \in Nat
    BY TimerAssumption, TimerFields DEF TypeOK
  <2>1. [s EXCEPT !.time = x] \in Timer /\ [s EXCEPT !.time = x, !.end = s.start + x] \in Timer
    BY NatField, TimeFields
  <2>2. <<{"end"}, {"time"}>> \in Seq(SUBSET Keys) /\ <<{"time"}>> \in Seq(SUBSET Keys)
    BY CommandKeys
  <2>3. final' \in Nat
    BY <1>16 DEF set_tick_time, TypeOK
  <2> QED
    BY <1>16, <2>1, <2>2, <2>3, CommandType DEF set_tick_time
<1>17. ASSUME NEW n \in LastTicks \cup {None}, set_last_tick(n) PROVE TypeOK'
  <2>1. [s EXCEPT !.stopAfter = n] \in Timer
    BY TimerAssumption, NatField DEF TypeOK, None
  <2>2. CASE set_state("STOPPED")
    BY <2>2, <1>15 DEF CTFState
  <2>3. CASE ~set_state("STOPPED")
    <3>1. <<{"stopAfter"}>> \in Seq(SUBSET Keys)
      BY CommandKeys
    <3>2. final' \in Nat /\ Command([s EXCEPT !.stopAfter = n], <<{"stopAfter"}>>)
      BY <1>17, <2>3 DEF set_last_tick, None
    <3> QED
      BY <2>1, <3>1, <3>2, CommandType
  <2> QED
    BY <2>2, <2>3
<1>18. ASSUME NEW at \in StartTimes \cup {None}, set_start_at(at) PROVE TypeOK'
  <2>1. [s EXCEPT !.startAt = at] \in Timer
    BY TimerAssumption, NatField DEF TypeOK, None
  <2>2. <<{"startAt"}>> \in Seq(SUBSET Keys)
    BY CommandKeys
  <2>3. final' \in Nat
    BY <1>18 DEF set_start_at, TypeOK
  <2> QED
    BY <1>18, <2>1, <2>2, <2>3, CommandType DEF set_start_at
<1>19. ASSUME NEW at \in OpenTimes \cup {None}, set_open_vulnbox_access_at(at) PROVE TypeOK'
  <2>1. [s EXCEPT !.openAt = at] \in Timer
    BY TimerAssumption, NatField DEF TypeOK, None
  <2>2. <<{"openAt"}>> \in Seq(SUBSET Keys)
    BY CommandKeys
  <2>3. final' \in Nat
    BY <1>19 DEF set_open_vulnbox_access_at, TypeOK
  <2> QED
    BY <1>19, <2>1, <2>2, <2>3, CommandType DEF set_open_vulnbox_access_at
<1>20. CASE SlaveSets
  <2>1. Head(todo) \in SUBSET Keys /\ Tail(todo) \in Seq(SUBSET Keys)
    BY <1>20 DEF TypeOK, SlaveSets
  <2>2. Msg(Head(todo), s) \in Message
    BY <2>1, MsgType DEF TypeOK
  <2> QED
    BY <1>20, <2>1, <2>2, ApplyType DEF TypeOK, SlaveSets, slaveVars, history
<1>21. CASE SlavePublishes
  BY <1>21 DEF TypeOK, SlavePublishes, Publish, slaveVars, history
<1>22. CASE Second
  BY <1>22 DEF TypeOK, Second, slaveVars, history, Locations
<1>23. CASE UNCHANGED vars
  BY <1>23 DEF TypeOK, vars, slaveVars, history
<1> QED
  BY <1>1, <1>2, <1>3, <1>4, <1>5, <1>6, <1>7, <1>8, <1>9, <1>10, <1>11, <1>12, <1>13, <1>14,
     <1>15, <1>16, <1>17, <1>18, <1>19, <1>20, <1>21, <1>22, <1>23
  DEF Next, MasterStep, Failure, Administrator

(* Every field of the three copies of the clock, every message and every    *)
(* history variable keeps its type.                                         *)
THEOREM TypeCorrect == Spec => []TypeOK
<1>1. Init => TypeOK
  BY TimerAssumption, FreshType DEF Init, TypeOK, Locations, None
<1>2. QED
  BY <1>1, TypeStep, PTL DEF Spec

-----------------------------------------------------------------------------
(* The fields of the clock that NoTickSkipped depends on.                   *)

(* Merge takes a field from its first timer exactly if it is named.         *)
LEMMA MergeFields ==
  ASSUME NEW keys, NEW c, NEW d
  PROVE  /\ Merge(keys, c, d).tick = IF "tick" \in keys THEN c.tick ELSE d.tick
         /\ Merge(keys, c, d).state = IF "state" \in keys THEN c.state ELSE d.state
         /\ Merge(keys, c, d).start = IF "start" \in keys THEN c.start ELSE d.start
         /\ Merge(keys, c, d).end = IF "end" \in keys THEN c.end ELSE d.end
BY DEF Merge

(* on_update_times writes the state first, and the tick before its times.   *)
LEMMA FirstKeysOrder ==
  ASSUME NEW k \in 1..9
  PROVE  /\ "state" \in FirstKeys(k)
         /\ "start" \in FirstKeys(k) => "tick" \in FirstKeys(k)
         /\ "end" \in FirstKeys(k) => "tick" \in FirstKeys(k)
<1>1. /\ KeyOrder[1] = "state" /\ KeyOrder[2] = "desired" /\ KeyOrder[3] = "tick"
      /\ KeyOrder[4] = "start" /\ KeyOrder[5] = "end" /\ KeyOrder[6] = "time"
      /\ KeyOrder[7] = "stopAfter" /\ KeyOrder[8] = "startAt" /\ KeyOrder[9] = "openAt"
  BY DEF KeyOrder
<1>2. "state" \in FirstKeys(k)
  BY <1>1 DEF FirstKeys
<1>3. k >= 3 => "tick" \in FirstKeys(k)
  BY <1>1 DEF FirstKeys
<1>4. k < 3 => FirstKeys(k) \subseteq {"state", "desired"}
  <2> SUFFICES ASSUME k < 3, NEW i \in 1..k PROVE KeyOrder[i] \in {"state", "desired"}
    BY DEF FirstKeys
  <2>1. i = 1 \/ i = 2
    OBVIOUS
  <2> QED
    BY <1>1, <2>1
<1> QED
  BY <1>2, <1>3, <1>4

(* An update carries the tick, its state and its times.                     *)
LEMMA ClockKeys == {"tick", "state", "start", "end"} \subseteq Keys
<1>1. /\ KeyOrder[1] = "state" /\ KeyOrder[3] = "tick" /\ KeyOrder[4] = "start"
      /\ KeyOrder[5] = "end"
  BY DEF KeyOrder
<1> QED
  BY <1>1 DEF Keys

(* The clock of a message and of the listener that applies it.              *)
LEMMA MsgFields ==
  ASSUME NEW keys, NEW c \in Timer
  PROVE  /\ Msg(keys, c).keys = keys
         /\ "tick" \in keys => Msg(keys, c).val.tick = c.tick
         /\ "state" \in keys => Msg(keys, c).val.state = c.state
         /\ Msg(keys, c).val.start = IF "start" \in keys THEN c.start ELSE None
         /\ Msg(keys, c).val.end = IF "end" \in keys THEN c.end ELSE None
<1>1. Fresh.start = None /\ Fresh.end = None
  BY DEF Fresh
<1>2. Msg(keys, c).keys = keys /\ Msg(keys, c).val = Merge(keys, c, Fresh)
  BY DEF Msg
<1> QED
  BY <1>1, <1>2, MergeFields

(* on_start_tick keeps the clock it is given and begins its tick.           *)
LEMMA OnStartTickFields ==
  ASSUME NEW c \in Timer, NEW f, on_start_tick(c, f)
  PROVE  /\ m'.tick = c.tick /\ m'.state = c.state /\ m'.start = c.start /\ m'.end = c.end
         /\ begun' = begun \cup {c.tick}
BY DEF on_start_tick, Timer

(* A tick n + 1 that is begun when n is 0 or ended leaves no gap.           *)
LEMMA NoGap ==
  ASSUME NoTickSkipped, ended' = ended, NEW n \in Nat, n # 0 => n \in ended,
         begun' = begun \cup {n + 1}
  PROVE  NoTickSkipped'
BY DEF NoTickSkipped

(* A new tick: the master's clock moves on, nothing else does.              *)
LEMMA NewTick ==
  ASSUME TypeOK, TickInv, pc \in {"due", "ended"}, pc' = "update",
         m.tick # 0 => m.tick \in ended,
         m'.tick = m.tick + 1, m'.state = "RUNNING", begun' = begun \cup {m.tick + 1},
         UNCHANGED <<redis, stored, s, todo, sending, chanM, chanS, ended>>
  PROVE  TickInv'
<1>1. m.tick \in Nat
  BY TimerFields DEF TypeOK
<1>2. NoTickSkipped'
  BY <1>1, NoGap DEF TickInv
<1>3. Sound(m)' /\ Sound(redis)'
  BY <1>1 DEF TickInv, Sound
<1>4. Located'
  BY DEF TickInv, Located, Listening
<1>5. EchoOnly'
  BY DEF TickInv, EchoOnly
<1>6. NoEarlySchedule'
  BY <1>1 DEF TickInv, NoEarlySchedule, Unscheduled
<1> QED
  BY <1>2, <1>3, <1>4, <1>5, <1>6 DEF TickInv

(* A step that moves no clock and delivers nothing.                         *)
LEMMA SameClock ==
  ASSUME TypeOK, TickInv, m'.tick = m.tick, m'.start = m.start, m'.end = m.end,
         UNCHANGED <<redis, stored, s, todo, sending, chanM, chanS, begun>>,
         ended \subseteq ended', ended' \subseteq begun,
         m'.state # "RUNNING" /\ m.tick # 0 => m.tick \in ended',
         Located', pc = "sleep" => chanM = <<>>
  PROVE  TickInv'
<1>1. NoTickSkipped'
  BY DEF TickInv, NoTickSkipped
<1>2. Sound(m)' /\ Sound(redis)'
  BY DEF TickInv, Sound
<1>3. EchoOnly'
  BY DEF TickInv, EchoOnly
<1>4. NoEarlySchedule'
  BY DEF TickInv, NoEarlySchedule, Unscheduled
<1> QED
  BY <1>1, <1>2, <1>3, <1>4 DEF TickInv

(* start_ctf starts the tick after the last one.                            *)
LEMMA StartCtfFields ==
  ASSUME NEW c \in Timer, NEW f, TypeOK, start_ctf(c, f)
  PROVE  /\ m'.tick = c.tick + 1 /\ m'.state = "RUNNING"
         /\ begun' = begun \cup {c.tick + 1}
<1> DEFINE d == [c EXCEPT !.desired = "RUNNING", !.tick = c.tick + 1, !.start = now,
                          !.end = now + c.time, !.state = "RUNNING"]
<1>1. c.tick + 1 \in Nat /\ now \in Nat /\ now + c.time \in Nat
  BY TimerFields DEF TypeOK
<1>2. d \in Timer
  BY <1>1, StartedType DEF CTFState
<1>3. d.tick = c.tick + 1 /\ d.state = "RUNNING"
  BY DEF Timer
<1>4. on_start_tick(d, f)
  BY DEF start_ctf
<1> QED
  BY <1>2, <1>3, <1>4, OnStartTickFields

(* Each step of the master's thread keeps TickInv.                          *)
LEMMA MasterKeepsTicks == TypeOK /\ TickInv /\ MasterStep => TickInv'
<1> SUFFICES ASSUME TypeOK, TickInv, MasterStep PROVE TickInv'
  OBVIOUS
<1>1. CASE EndTick
  <2>1. m.tick \in begun
    BY <1>1, TimerFields DEF EndTick, TickOver, TickInv, Sound, NoEarlySchedule, Unscheduled, TypeOK
  <2>2. ended' = ended \cup {m.tick} /\ ended \subseteq begun
    BY <1>1 DEF EndTick, TickInv, NoTickSkipped
  <2>3. Located'
    BY <1>1, <2>2 DEF EndTick, TickOver, TickInv, Located, Listening
  <2> QED
    BY <1>1, <2>1, <2>2, <2>3, SameClock DEF EndTick, TickOver, slaveVars
<1>2. CASE NextTick
  <2> DEFINE start == IF t > m.end + 1 THEN t ELSE m.end
             c == [m EXCEPT !.tick = m.tick + 1, !.start = start, !.end = start + m.time]
  <2>1. m \in Timer /\ start \in Nat /\ m.tick + 1 \in Nat /\ start + m.time \in Nat
    BY TimerFields DEF TypeOK
  <2>2. c \in Timer
    BY <2>1, NewTickType
  <2>3. c.tick = m.tick + 1 /\ c.state = m.state
    BY <2>1 DEF Timer
  <2>4. on_start_tick(c, final) /\ m.state = "RUNNING" /\ m.tick \in ended
    BY <1>2 DEF NextTick, TickInv, Located
  <2>5. m'.tick = m.tick + 1 /\ m'.state = "RUNNING" /\ begun' = begun \cup {m.tick + 1}
    BY <2>2, <2>3, <2>4, OnStartTickFields
  <2> QED
    BY <1>2, <2>4, <2>5, NewTick DEF NextTick, slaveVars
<1>3. CASE StopAfterTick
  <2>1. /\ m'.tick = m.tick /\ m'.start = m.start /\ m'.end = m.end
        /\ m'.state = m.desired /\ m'.state # "RUNNING"
    BY <1>3 DEF StopAfterTick, TypeOK, Timer
  <2>2. m.tick \in ended /\ ended \subseteq begun
    BY <1>3 DEF StopAfterTick, TickInv, Located, NoTickSkipped
  <2>3. Located'
    BY <1>3, <2>1, <2>2 DEF StopAfterTick, TickInv, Located, Listening, history
  <2> QED
    BY <1>3, <2>1, <2>2, <2>3, SameClock DEF StopAfterTick, slaveVars, history
<1>4. CASE StartOnCommand
  <2>1. start_ctf(m, final) /\ m \in Timer /\ m.state # "RUNNING"
    BY <1>4 DEF StartOnCommand, TypeOK
  <2>2. m'.tick = m.tick + 1 /\ m'.state = "RUNNING" /\ begun' = begun \cup {m.tick + 1}
    BY <2>1, StartCtfFields
  <2>3. m.tick # 0 => m.tick \in ended
    BY <2>1 DEF TickInv, Sound
  <2> QED
    BY <1>4, <2>2, <2>3, NewTick DEF StartOnCommand, slaveVars
<1>5. CASE StartOnTime
  <2> DEFINE c == [m EXCEPT !.startAt = None]
  <2>1. c \in Timer
    BY NatField DEF TypeOK, None
  <2>2. c.tick = m.tick
    BY DEF Timer, TypeOK
  <2>3. start_ctf(c, None) /\ m.state # "RUNNING"
    BY <1>5 DEF StartOnTime, Waiting
  <2>4. m'.tick = m.tick + 1 /\ m'.state = "RUNNING" /\ begun' = begun \cup {m.tick + 1}
    BY <2>1, <2>2, <2>3, StartCtfFields
  <2>5. m.tick # 0 => m.tick \in ended
    BY <2>3 DEF TickInv, Sound
  <2> QED
    BY <1>5, <2>4, <2>5, NewTick DEF StartOnTime, Waiting, slaveVars
<1>6. CASE OpenVulnboxOnTime
  <2>1. /\ m'.tick = m.tick /\ m'.start = m.start /\ m'.end = m.end /\ m'.state = m.state
        /\ m.state # "RUNNING"
    BY <1>6 DEF OpenVulnboxOnTime, Waiting, TypeOK, Timer
  <2>2. Located'
    BY <1>6, <2>1 DEF OpenVulnboxOnTime, Waiting, TickInv, Located, Listening, history
  <2>3. ended \subseteq begun /\ (m.tick # 0 => m.tick \in ended)
    BY <2>1 DEF TickInv, NoTickSkipped, Sound
  <2> QED
    BY <1>6, <2>1, <2>2, <2>3, SameClock DEF OpenVulnboxOnTime, Waiting, slaveVars, history
<1>7. CASE NothingDue
  <2>1. Located'
    BY <1>7 DEF NothingDue, TickInv, Located, Listening, history
  <2>2. ended \subseteq begun /\ (m.state # "RUNNING" /\ m.tick # 0 => m.tick \in ended)
    BY DEF TickInv, NoTickSkipped, Sound
  <2> QED
    BY <1>7, <2>1, <2>2, SameClock DEF NothingDue, slaveVars, history
<1>8. CASE on_update_times
  <2> DEFINE u == Msg(Keys, m)
  <2>1. u.keys = Keys /\ u.val.tick = m.tick /\ u.val.state = m.state
        /\ u.val.start = m.start /\ u.val.end = m.end
    BY MsgFields, ClockKeys DEF TypeOK
  <2>2. /\ UNCHANGED <<m, s, todo, sending, begun, ended>> /\ pc = "update" /\ pc' = "sleep"
        /\ redis' = m /\ stored' = Keys
        /\ chanM' = Append(chanM, u) /\ chanS' = Append(chanS, u)
    BY <1>8 DEF on_update_times, Publish, Listening, slaveVars, history
  <2>3. NoTickSkipped' /\ Sound(m)' /\ Sound(redis)'
    BY <2>2 DEF TickInv, NoTickSkipped, Sound
  <2>4. Located'
    BY <2>2, ClockKeys DEF TickInv, Located, Listening
  <2>5. EchoOnly'
    BY <2>1, <2>2 DEF TickInv, EchoOnly, TypeOK
  <2>6. m.tick = 0 => redis.tick = 0
    BY <2>2, TimerFields DEF TickInv, Located, TypeOK
  <2>7. NoEarlySchedule'
    <3>1. m.tick = 0 => Unscheduled(m)
      BY DEF TickInv, NoEarlySchedule
    <3> SUFFICES ASSUME m.tick = 0
                 PROVE  /\ Unscheduled(m) /\ Unscheduled(s)
                        /\ \A i \in 1..Len(chanM') : Unscheduled(chanM'[i].val)
                        /\ \A i \in 1..Len(chanS') : Unscheduled(chanS'[i].val)
                        /\ \A i \in 1..Len(sending) : Unscheduled(sending[i].val)
      BY <2>2, <3>1 DEF NoEarlySchedule, Unscheduled
    <3>2. /\ Unscheduled(m) /\ Unscheduled(s)
          /\ \A i \in 1..Len(chanM) : Unscheduled(chanM[i].val)
          /\ \A i \in 1..Len(chanS) : Unscheduled(chanS[i].val)
          /\ \A i \in 1..Len(sending) : Unscheduled(sending[i].val)
      BY <2>6, <3>1 DEF TickInv, NoEarlySchedule
    <3>3. Unscheduled(u.val)
      BY <2>1, <3>2 DEF Unscheduled
    <3>4. \A i \in 1..Len(chanM') : Unscheduled(chanM'[i].val)
      BY <2>2, <3>2, <3>3 DEF TypeOK
    <3>5. \A i \in 1..Len(chanS') : Unscheduled(chanS'[i].val)
      BY <2>2, <3>2, <3>3 DEF TypeOK
    <3> QED
      BY <3>2, <3>4, <3>5
  <2> QED
    BY <2>3, <2>4, <2>5, <2>7 DEF TickInv
<1>9. CASE init_from_redis
  <2>1. Fresh.tick = 0 /\ Fresh.state = "STOPPED" /\ Unscheduled(Fresh)
    BY DEF Fresh, Unscheduled
  <2>2. /\ UNCHANGED <<redis, stored, s, todo, sending, chanM, chanS, begun, ended>>
        /\ pc = "down" /\ pc' = "init" /\ chanM = <<>>
        /\ m' = IF "state" \in stored THEN redis ELSE Fresh
    BY <1>9 DEF init_from_redis, slaveVars, history, TickInv, Located, Listening
  <2>3. NoTickSkipped' /\ Sound(m)' /\ Sound(redis)'
    BY <2>1, <2>2 DEF TickInv, NoTickSkipped, Sound
  <2>4. Located'
    BY <2>1, <2>2 DEF TickInv, Located, Listening, NoEarlySchedule, Unscheduled
  <2>5. EchoOnly'
    BY <2>2 DEF TickInv, EchoOnly
  <2>6. NoEarlySchedule'
    BY <2>1, <2>2 DEF TickInv, NoEarlySchedule, Unscheduled
  <2> QED
    BY <2>3, <2>4, <2>5, <2>6 DEF TickInv
<1>10. CASE bind_to_redis
  <2>1. Located'
    BY <1>10 DEF bind_to_redis, TickInv, Located, Listening, history
  <2>2. ended \subseteq begun /\ (m.state # "RUNNING" /\ m.tick # 0 => m.tick \in ended)
    BY DEF TickInv, NoTickSkipped, Sound
  <2> QED
    BY <1>10, <2>1, <2>2, SameClock DEF bind_to_redis, slaveVars, history
<1> QED
  BY <1>1, <1>2, <1>3, <1>4, <1>5, <1>6, <1>7, <1>8, <1>9, <1>10 DEF MasterStep

(* So does a crash, wherever it interrupts on_update_times.                 *)
LEMMA FailureKeepsTicks == TypeOK /\ TickInv /\ Failure => TickInv'
<1> SUFFICES ASSUME TypeOK, TickInv, Failure PROVE TickInv'
  OBVIOUS
<1>1. Fresh.tick = 0 /\ Fresh.state = "STOPPED" /\ Unscheduled(Fresh)
  BY DEF Fresh, Unscheduled
<1>2. /\ UNCHANGED <<s, todo, sending, begun, ended>> /\ pc' = "down" /\ m' = Fresh /\ chanM' = <<>>
  BY DEF Failure, Crash, CrashInUpdate, Die, slaveVars, history
<1>3. NoTickSkipped' /\ Sound(m)'
  BY <1>1, <1>2 DEF TickInv, NoTickSkipped, Sound
<1>4. EchoOnly'
  BY <1>2 DEF TickInv, EchoOnly
<1>5. CASE Crash
  <2>1. UNCHANGED <<redis, stored, chanS>>
    BY <1>5 DEF Crash
  <2>2. Sound(redis)' /\ Located'
    BY <1>2, <2>1 DEF TickInv, Sound, Located, Listening
  <2>3. NoEarlySchedule'
    BY <1>1, <1>2, <2>1 DEF TickInv, NoEarlySchedule, Unscheduled
  <2> QED
    BY <1>3, <1>4, <2>2, <2>3 DEF TickInv
<1>6. ASSUME NEW k \in 1..9, CrashInUpdate(k) PROVE TickInv'
  <2> DEFINE keys == FirstKeys(k)
             u == Msg(keys, m)
  <2>1. /\ "state" \in keys
        /\ "start" \in keys => "tick" \in keys
        /\ "end" \in keys => "tick" \in keys
    BY FirstKeysOrder
  <2>2. /\ redis' = Merge(keys, m, redis) /\ pc = "update"
        /\ stored' = stored \cup keys /\ chanS' = Append(chanS, u)
    BY <1>6 DEF CrashInUpdate
  <2> HIDE DEF keys
  <2>3. /\ redis'.state = m.state
        /\ redis'.tick = IF "tick" \in keys THEN m.tick ELSE redis.tick
        /\ redis'.start = IF "start" \in keys THEN m.start ELSE redis.start
        /\ redis'.end = IF "end" \in keys THEN m.end ELSE redis.end
    BY <2>1, <2>2, MergeFields
  <2>4. /\ u.val.start = IF "start" \in keys THEN m.start ELSE None
        /\ u.val.end = IF "end" \in keys THEN m.end ELSE None
    BY MsgFields DEF TypeOK
  <2> HIDE DEF u
  <2>5. m.tick \in Nat /\ redis.tick \in Nat
    BY TimerFields DEF TypeOK
  <2>6. m.tick = IF m.state = "RUNNING" THEN redis.tick + 1 ELSE redis.tick
    BY <2>2 DEF TickInv, Located
  <2>7. Sound(redis)'
    BY <1>2, <2>3, <2>5, <2>6 DEF TickInv, Sound
  <2>8. Located'
    BY <1>2, <2>1, <2>2 DEF Located, Listening
  <2>9. redis'.tick = 0 => redis.tick = 0 /\ Unscheduled(redis)' /\ Unscheduled(u.val)
    BY <2>1, <2>3, <2>4, <2>5, <2>6 DEF TickInv, NoEarlySchedule, Unscheduled
  <2>10. NoEarlySchedule'
    BY <1>1, <1>2, <2>2, <2>9 DEF TickInv, NoEarlySchedule, Unscheduled, TypeOK
  <2> QED
    BY <1>3, <1>4, <2>7, <2>8, <2>10 DEF TickInv
<1> QED
  BY <1>5, <1>6 DEF Failure

(* So do the listeners.                                                     *)
LEMMA ListenersKeepTicks == TypeOK /\ TickInv /\ (MasterHears \/ SlaveHears) => TickInv'
<1> SUFFICES ASSUME TypeOK, TickInv, MasterHears \/ SlaveHears PROVE TickInv'
  OBVIOUS
<1>1. CASE MasterHears
  <2> DEFINE u == Head(chanM)
  <2>1. /\ chanM # <<>> /\ chanM' = Tail(chanM) /\ m' = Merge(u.keys, u.val, m)
        /\ UNCHANGED <<pc, redis, stored, s, todo, sending, chanS, begun, ended>>
    BY <1>1 DEF MasterHears, Apply, slaveVars, history
  <2>2. Len(chanM) \in Nat /\ Len(chanM) >= 1 /\ u = chanM[1]
    BY <2>1 DEF TypeOK
  <2>3. \A i \in 1..Len(chanM') : i + 1 \in 1..Len(chanM) /\ chanM'[i] = chanM[i + 1]
    BY <2>1 DEF TypeOK
  <2>4. /\ "start" \in u.keys => u.val.start = m.start
        /\ "tick" \in u.keys => u.val.tick = m.tick
        /\ "state" \in u.keys => u.val.state = m.state
    BY <2>2 DEF TickInv, EchoOnly
  <2>5. redis.tick = 0 => Unscheduled(u.val)
    BY <2>2 DEF TickInv, NoEarlySchedule
  <2>6. /\ m'.tick = m.tick /\ m'.state = m.state
        /\ m'.start = m.start
        /\ m'.end = IF "end" \in u.keys THEN u.val.end ELSE m.end
    BY <2>1, <2>4, MergeFields
  <2>7. NoTickSkipped' /\ Sound(m)' /\ Sound(redis)'
    BY <2>1, <2>6 DEF TickInv, NoTickSkipped, Sound
  <2>8. Located' /\ pc # "down"
    BY <2>1, <2>6 DEF TickInv, Located, Listening
  <2>9. EchoOnly'
    BY <2>1, <2>3, <2>6 DEF TickInv, EchoOnly
  <2>10. m.tick = 0 => redis.tick = 0
    BY <2>8, TimerFields DEF TickInv, Located, TypeOK
  <2>11. NoEarlySchedule'
    BY <2>1, <2>3, <2>5, <2>6, <2>10 DEF TickInv, NoEarlySchedule, Unscheduled
  <2> QED
    BY <2>7, <2>8, <2>9, <2>11 DEF TickInv
<1>2. CASE SlaveHears
  <2> DEFINE u == Head(chanS)
  <2>1. /\ chanS # <<>> /\ chanS' = Tail(chanS) /\ s' = Merge(u.keys, u.val, s)
        /\ UNCHANGED <<pc, m, redis, stored, todo, sending, chanM, begun, ended>>
    BY <1>2 DEF SlaveHears, Apply, history
  <2>2. Len(chanS) \in Nat /\ Len(chanS) >= 1 /\ u = chanS[1]
    BY <2>1 DEF TypeOK
  <2>3. \A i \in 1..Len(chanS') : i + 1 \in 1..Len(chanS) /\ chanS'[i] = chanS[i + 1]
    BY <2>1 DEF TypeOK
  <2>4. redis.tick = 0 => Unscheduled(u.val)
    BY <2>2 DEF TickInv, NoEarlySchedule
  <2>5. /\ s'.start = IF "start" \in u.keys THEN u.val.start ELSE s.start
        /\ s'.end = IF "end" \in u.keys THEN u.val.end ELSE s.end
    BY <2>1, MergeFields
  <2>6. NoTickSkipped' /\ Sound(m)' /\ Sound(redis)' /\ Located' /\ EchoOnly'
    BY <2>1 DEF TickInv, NoTickSkipped, Sound, Located, Listening, EchoOnly
  <2>7. NoEarlySchedule'
    BY <2>1, <2>3, <2>4, <2>5 DEF TickInv, NoEarlySchedule, Unscheduled
  <2> QED
    BY <2>6, <2>7 DEF TickInv
<1> QED
  BY <1>1, <1>2

(* A command announces neither a tick nor a state, and before the first     *)
(* tick schedules no end of it.                                             *)
LEMMA CommandKeepsTicks ==
  ASSUME NEW c, NEW keys, TypeOK, TickInv, Command(c, keys),
         \A i \in 1..Len(keys) : keys[i] \cap {"tick", "state", "start"} = {},
         Unscheduled(s) => Unscheduled(c)
  PROVE  TickInv'
<1>1. /\ s' = c /\ todo' = keys
      /\ UNCHANGED <<pc, m, redis, stored, sending, chanM, chanS, begun, ended>>
  BY DEF Command
<1>2. NoTickSkipped' /\ Sound(m)' /\ Sound(redis)' /\ Located'
  BY <1>1 DEF TickInv, NoTickSkipped, Sound, Located, Listening
<1>3. EchoOnly'
  BY <1>1 DEF TickInv, EchoOnly
<1>4. NoEarlySchedule'
  BY <1>1 DEF TickInv, NoEarlySchedule, Unscheduled
<1> QED
  BY <1>2, <1>3, <1>4 DEF TickInv

(* So do the commands of the control panel.                                 *)
LEMMA AdministratorKeepsTicks == TypeOK /\ TickInv /\ Administrator => TickInv'
<1> SUFFICES ASSUME TypeOK, TickInv, Administrator PROVE TickInv'
  OBVIOUS
<1>1. ASSUME NEW f \in {"desired", "time", "stopAfter", "startAt", "openAt"}
      PROVE  \A i \in 1..Len(<<{f}>>) : <<{f}>>[i] \cap {"tick", "state", "start"} = {}
  OBVIOUS
<1>2. ASSUME NEW d \in CTFState, set_state(d) PROVE TickInv'
  <2>1. Unscheduled(s) => Unscheduled([s EXCEPT !.desired = d])
    BY DEF Unscheduled, TypeOK, Timer
  <2> QED
    BY <1>1, <1>2, <2>1, CommandKeepsTicks DEF set_state
<1>3. ASSUME NEW x \in TickTimes, set_tick_time(x) PROVE TickInv'
  <2>1. Unscheduled(s) => Unscheduled([s EXCEPT !.time = x])
    BY DEF Unscheduled, TypeOK, Timer
  <2>2. s.start # None => (Unscheduled(s) => Unscheduled([s EXCEPT !.time = x, !.end = s.start + x]))
    BY DEF Unscheduled
  <2>3. \A i \in 1..Len(<<{"end"}, {"time"}>>) : <<{"end"}, {"time"}>>[i] \cap {"tick", "state", "start"} = {}
    OBVIOUS
  <2> QED
    BY <1>1, <1>3, <2>1, <2>2, <2>3, CommandKeepsTicks DEF set_tick_time
<1>4. ASSUME NEW n \in LastTicks \cup {None}, set_last_tick(n) PROVE TickInv'
  <2>1. Unscheduled(s) => Unscheduled([s EXCEPT !.stopAfter = n])
    BY DEF Unscheduled, TypeOK, Timer
  <2>2. set_state("STOPPED") => TickInv'
    BY <1>2 DEF CTFState
  <2> QED
    BY <1>1, <1>4, <2>1, <2>2, CommandKeepsTicks DEF set_last_tick
<1>5. ASSUME NEW at \in StartTimes \cup {None}, set_start_at(at) PROVE TickInv'
  <2>1. Unscheduled(s) => Unscheduled([s EXCEPT !.startAt = at])
    BY DEF Unscheduled, TypeOK, Timer
  <2> QED
    BY <1>1, <1>5, <2>1, CommandKeepsTicks DEF set_start_at
<1>6. ASSUME NEW at \in OpenTimes \cup {None}, set_open_vulnbox_access_at(at) PROVE TickInv'
  <2>1. Unscheduled(s) => Unscheduled([s EXCEPT !.openAt = at])
    BY DEF Unscheduled, TypeOK, Timer
  <2> QED
    BY <1>1, <1>6, <2>1, CommandKeepsTicks DEF set_open_vulnbox_access_at
<1> QED
  BY <1>2, <1>3, <1>4, <1>5, <1>6 DEF Administrator

(* So does sending a command.                                               *)
LEMMA SlaveKeepsTicks == TypeOK /\ TickInv /\ (SlaveSets \/ SlavePublishes) => TickInv'
<1> SUFFICES ASSUME TypeOK, TickInv, SlaveSets \/ SlavePublishes PROVE TickInv'
  OBVIOUS
<1>1. CASE SlaveSets
  <2> DEFINE keys == Head(todo)
             u == Msg(keys, s)
  <2>1. /\ todo # <<>> /\ todo' = Tail(todo) /\ redis' = Merge(u.keys, u.val, redis)
        /\ stored' = stored \cup keys /\ sending' = <<u>>
        /\ UNCHANGED <<pc, m, s, chanM, chanS, begun, ended>>
    BY <1>1 DEF SlaveSets, Apply, history
  <2>2. Len(todo) \in Nat /\ Len(todo) >= 1 /\ keys = todo[1]
    BY <2>1 DEF TypeOK
  <2>3. \A i \in 1..Len(todo') : i + 1 \in 1..Len(todo) /\ todo'[i] = todo[i + 1]
    BY <2>1 DEF TypeOK
  <2>4. "tick" \notin keys /\ "state" \notin keys /\ "start" \notin keys
    BY <2>2 DEF TickInv, EchoOnly
  <2> HIDE DEF keys
  <2>5. /\ u.keys = keys
        /\ u.val.start = IF "start" \in keys THEN s.start ELSE None
        /\ u.val.end = IF "end" \in keys THEN s.end ELSE None
    BY MsgFields DEF TypeOK
  <2> HIDE DEF u
  <2>6. /\ redis'.tick = redis.tick /\ redis'.state = redis.state
        /\ redis'.start = redis.start
        /\ redis'.end = IF "end" \in keys THEN u.val.end ELSE redis.end
    BY <2>1, <2>4, <2>5, MergeFields
  <2>7. NoTickSkipped' /\ Sound(m)' /\ Sound(redis)' /\ Located'
    BY <2>1, <2>4, <2>6 DEF TickInv, NoTickSkipped, Sound, Located, Listening
  <2>8. EchoOnly'
    BY <2>1, <2>3, <2>4, <2>5 DEF TickInv, EchoOnly
  <2>9. NoEarlySchedule'
    BY <2>1, <2>5, <2>6 DEF TickInv, NoEarlySchedule, Unscheduled
  <2> QED
    BY <2>7, <2>8, <2>9 DEF TickInv
<1>2. CASE SlavePublishes
  <2> DEFINE u == Head(sending)
  <2>1. /\ sending # <<>> /\ sending' = <<>> /\ chanS' = Append(chanS, u)
        /\ chanM' = IF Listening THEN Append(chanM, u) ELSE chanM
        /\ UNCHANGED <<pc, m, s, redis, stored, todo, begun, ended>>
    BY <1>2 DEF SlavePublishes, Publish, history
  <2>2. Len(sending) >= 1 /\ u = sending[1]
    BY <2>1 DEF TypeOK
  <2>3. "tick" \notin u.keys /\ "state" \notin u.keys /\ "start" \notin u.keys
    BY <2>2 DEF TickInv, EchoOnly
  <2>4. redis.tick = 0 => Unscheduled(u.val)
    BY <2>2 DEF TickInv, NoEarlySchedule
  <2> HIDE DEF u
  <2>5. NoTickSkipped' /\ Sound(m)' /\ Sound(redis)' /\ Located'
    BY <2>1 DEF TickInv, NoTickSkipped, Sound, Located, Listening
  <2>6. EchoOnly'
    BY <2>1, <2>3 DEF TickInv, EchoOnly, TypeOK
  <2>7. NoEarlySchedule'
    BY <2>1, <2>4 DEF TickInv, NoEarlySchedule, Unscheduled, TypeOK
  <2> QED
    BY <2>5, <2>6, <2>7 DEF TickInv
<1> QED
  BY <1>1, <1>2

(* TickInv is inductive, given the types.                                   *)
LEMMA TickStep == TypeOK /\ TickInv /\ [Next]_vars => TickInv'
<1> SUFFICES ASSUME TypeOK, TickInv, [Next]_vars PROVE TickInv'
  OBVIOUS
<1>1. CASE Second
  <2>1. Located' /\ chanM = <<>>
    BY <1>1 DEF Second, NothingInFlight, TickInv, Located, Listening, history
  <2>2. ended \subseteq begun /\ (m.state # "RUNNING" /\ m.tick # 0 => m.tick \in ended)
    BY DEF TickInv, NoTickSkipped, Sound
  <2> QED
    BY <1>1, <2>1, <2>2, SameClock DEF Second, slaveVars, history
<1>2. CASE UNCHANGED vars
  BY <1>2 DEF vars, slaveVars, history, TickInv, NoTickSkipped, Sound, Located, Listening, EchoOnly,
     NoEarlySchedule, Unscheduled
<1> QED
  BY <1>1, <1>2, MasterKeepsTicks, FailureKeepsTicks, ListenersKeepTicks, AdministratorKeepsTicks,
     SlaveKeepsTicks DEF Next

(* Ticks follow each other without a gap in every run of the master timer:  *)
(* for every number of crashes and commands, every schedule of the two      *)
(* listeners and every choice of times, check_time begins a tick only when  *)
(* the one before it was ended, and ends only what was begun.               *)
THEOREM TicksFollow == Spec => []NoTickSkipped
<1>1. Init => TickInv
  BY DEF Init, Fresh, TickInv, NoTickSkipped, Sound, Located, Listening, EchoOnly,
     NoEarlySchedule, Unscheduled
<1>2. TickInv => NoTickSkipped
  BY DEF TickInv
<1> QED
  BY <1>1, <1>2, TickStep, TypeCorrect, PTL DEF Spec

(* Whenever the master is between two calls of check_time the keys hold its *)
(* state, its tick and the start of it, whatever commands are under way: a  *)
(* master that dies there resumes that very tick.                           *)
THEOREM ClockPersisted == Spec => []Persisted
<1>1. Init => TickInv
  BY DEF Init, Fresh, TickInv, NoTickSkipped, Sound, Located, Listening, EchoOnly,
     NoEarlySchedule, Unscheduled
<1>2. TickInv => Persisted
  BY DEF TickInv, Located, Persisted
<1> QED
  BY <1>1, <1>2, TickStep, TypeCorrect, PTL DEF Spec

-----------------------------------------------------------------------------
(* The last tick.                                                           *)

(* A clock that is still to run is at the tick before the final one, and    *)
(* will recognise it.                                                       *)
StopWaits(c) == c.desired = "RUNNING" => c.tick + 1 = final /\ c.stopAfter = final

(* Nothing tells a listener to go on.                                       *)
Quiet(msg) == "desired" \in msg.keys => msg.val.desired # "RUNNING"

(* What holds until an administrator changes his mind: the keys and the     *)
(* master stop, or come to the final tick again and then stop; the master's *)
(* update does not forget the last tick without stopping; no command under  *)
(* way alters either.                                                       *)
StaysOver ==
  /\ \A n \in begun : n <= final
  /\ StopWaits(m) /\ StopWaits(redis)
  /\ pc = "update" => m.desired # "RUNNING"
  /\ \A i \in 1..Len(todo) :
       /\ "stopAfter" \notin todo[i]
       /\ "desired" \in todo[i] => s.desired # "RUNNING"
  /\ \A i \in 1..Len(sending) : Quiet(sending[i]) /\ "stopAfter" \notin sending[i].keys
  /\ \A i \in 1..Len(chanM) : Quiet(chanM[i]) /\ ("stopAfter" \in chanM[i].keys => "desired" \in chanM[i].keys)
  /\ \A i \in 1..Len(chanS) : Quiet(chanS[i])

(* At most one tick is begun that the keys do not hold.                     *)
OneAhead == \A n \in begun : n <= redis.tick + 1

FinalInv == OneAhead /\ (final # None => StaysOver)

(* Merge's other two fields that matter here.                               *)
LEMMA MergeStop ==
  ASSUME NEW keys, NEW c, NEW d
  PROVE  /\ Merge(keys, c, d).desired = IF "desired" \in keys THEN c.desired ELSE d.desired
         /\ Merge(keys, c, d).stopAfter = IF "stopAfter" \in keys THEN c.stopAfter ELSE d.stopAfter
BY DEF Merge

(* They are in a message as the sender has them.                            *)
LEMMA MsgStop ==
  ASSUME NEW keys, NEW c \in Timer
  PROVE  /\ Msg(keys, c).keys = keys
         /\ "desired" \in keys => Msg(keys, c).val.desired = c.desired
         /\ "stopAfter" \in keys => Msg(keys, c).val.stopAfter = c.stopAfter
<1>1. Msg(keys, c).keys = keys /\ Msg(keys, c).val = Merge(keys, c, Fresh)
  BY DEF Msg
<1> QED
  BY <1>1, MergeStop

(* on_update_times writes desired before the tick and the last tick.        *)
LEMMA DesiredFirst ==
  ASSUME NEW k \in 1..9
  PROVE  "tick" \in FirstKeys(k) \/ "stopAfter" \in FirstKeys(k) => "desired" \in FirstKeys(k)
<1>1. KeyOrder[1] = "state" /\ KeyOrder[2] = "desired"
  BY DEF KeyOrder
<1>2. k >= 2 => "desired" \in FirstKeys(k)
  BY <1>1 DEF FirstKeys
<1>3. k < 2 => FirstKeys(k) = {"state"}
  <2> SUFFICES ASSUME k < 2 PROVE FirstKeys(k) = {"state"}
    OBVIOUS
  <2>1. k = 1 /\ 1..k = {1}
    OBVIOUS
  <2> QED
    BY <1>1, <2>1 DEF FirstKeys
<1> QED
  BY <1>2, <1>3

(* on_start_tick for the tick after the keys', with the final tick f: it is *)
(* recorded as final only if it is the last one, and then it is to stop.    *)
LEMMA NewTickFinal ==
  ASSUME TypeOK, TickInv, FinalInv, NEW c \in Timer, NEW f \in {final, None}, on_start_tick(c, f),
         pc \in {"due", "ended"}, c.tick = m.tick + 1,
         f # None => c.stopAfter = final /\ c.tick = final,
         UNCHANGED <<redis, s, todo, sending, chanM, chanS>>
  PROVE  FinalInv'
<1>1. redis.tick = m.tick /\ m.tick \in Nat /\ begun \subseteq Nat /\ final \in Nat
  BY TimerFields DEF TickInv, Located, TypeOK
<1>2. begun' = begun \cup {m.tick + 1}
  BY DEF on_start_tick
<1>3. OneAhead'
  BY <1>1, <1>2 DEF FinalInv, OneAhead
<1>4. ASSUME final' # None PROVE StaysOver'
  <2>1. IsLastTick(c) /\ final' = c.tick
    BY <1>4, <1>1 DEF on_start_tick, IsLastTick
  <2>2. m' = [c EXCEPT !.desired = "STOPPED", !.stopAfter = None]
    BY <2>1 DEF on_start_tick
  <2>3. m'.desired = "STOPPED"
    BY <2>2 DEF Timer
  <2>4. \A n \in begun' : n <= final'
    BY <1>1, <1>2, <2>1 DEF FinalInv, OneAhead
  <2>5. CASE redis.stopAfter = c.tick /\ NothingInFlight
    BY <1>1, <2>1, <2>3, <2>4, <2>5 DEF StaysOver, StopWaits, NothingInFlight
  <2>6. CASE ~(redis.stopAfter = c.tick /\ NothingInFlight)
    <3>1. f = final /\ final # None /\ final' = final
      BY <1>4, <2>1, <2>6 DEF on_start_tick
    <3>2. StaysOver
      BY <3>1 DEF FinalInv
    <3> QED
      BY <2>3, <2>4, <3>1, <3>2 DEF StaysOver, StopWaits
  <2> QED
    BY <2>5, <2>6
<1> QED
  BY <1>3, <1>4 DEF FinalInv

(* start_ctf is such a step.                                                *)
LEMMA StartFinal ==
  ASSUME TypeOK, TickInv, FinalInv, NEW c \in Timer, NEW f \in {final, None}, start_ctf(c, f),
         pc = "due", c.tick = m.tick,
         f # None => c.stopAfter = final /\ c.tick + 1 = final,
         UNCHANGED <<redis, s, todo, sending, chanM, chanS>>
  PROVE  FinalInv'
<1>1. PICK d : d = [c EXCEPT !.desired = "RUNNING", !.tick = c.tick + 1, !.start = now,
                             !.end = now + c.time, !.state = "RUNNING"]
  OBVIOUS
<1>2. c.tick + 1 \in Nat /\ now \in Nat /\ now + c.time \in Nat
  BY TimerFields DEF TypeOK
<1>3. d \in Timer
  BY <1>1, <1>2, StartedType DEF CTFState
<1>4. d.tick = c.tick + 1 /\ d.stopAfter = c.stopAfter
  BY <1>1 DEF Timer
<1>5. on_start_tick(d, f)
  BY <1>1 DEF start_ctf
<1> QED
  BY <1>3, <1>4, <1>5, NewTickFinal

(* A step that begins nothing, writes no key and delivers nothing.          *)
LEMMA SameFinal ==
  ASSUME FinalInv, m'.desired = m.desired, m'.tick = m.tick, m'.stopAfter = m.stopAfter,
         pc' = "update" => m.desired # "RUNNING",
         UNCHANGED <<redis, s, todo, sending, chanM, chanS, begun, final>>
  PROVE  FinalInv'
BY DEF FinalInv, OneAhead, StaysOver, StopWaits, Quiet

(* The steps of the master's thread keep FinalInv.                          *)
LEMMA MasterKeepsFinal == TypeOK /\ TickInv /\ FinalInv /\ MasterStep => FinalInv'
<1> SUFFICES ASSUME TypeOK, TickInv, FinalInv, MasterStep PROVE FinalInv'
  OBVIOUS
<1>1. CASE EndTick
  BY <1>1, SameFinal DEF EndTick, slaveVars
<1>2. CASE NextTick
  <2>1. PICK start : start = IF t > m.end + 1 THEN t ELSE m.end
    OBVIOUS
  <2>2. PICK c : c = [m EXCEPT !.tick = m.tick + 1, !.start = start, !.end = start + m.time]
    OBVIOUS
  <2>3. m \in Timer /\ start \in Nat /\ m.tick + 1 \in Nat /\ start + m.time \in Nat
    BY SMTT(60), <2>1, TimerFields DEF TypeOK
  <2>4. c \in Timer
    BY <2>2, <2>3, NewTickType
  <2>5. c.tick = m.tick + 1 /\ c.stopAfter = m.stopAfter
    BY <2>2, <2>3 DEF Timer
  <2>6. on_start_tick(c, final) /\ m.desired = "RUNNING" /\ pc = "ended"
    BY <1>2, <2>1, <2>2 DEF NextTick
  <2>7. final # None => c.stopAfter = final /\ c.tick = final
    BY <2>5, <2>6 DEF FinalInv, StaysOver, StopWaits
  <2>8. UNCHANGED <<redis, s, todo, sending, chanM, chanS>>
    BY <1>2 DEF NextTick, slaveVars
  <2>9. \A f \in {final, None} : on_start_tick(c, f) /\ (f # None => c.stopAfter = final /\ c.tick = final) => FinalInv'
    BY <2>4, <2>5, <2>6, <2>8, NewTickFinal
  <2> QED
    BY <2>6, <2>7, <2>9
<1>3. CASE StopAfterTick
  <2>1. m'.desired = m.desired /\ m'.tick = m.tick /\ m'.stopAfter = m.stopAfter /\ m.desired # "RUNNING"
    BY <1>3 DEF StopAfterTick, TypeOK, Timer
  <2> QED
    BY <1>3, <2>1, SameFinal DEF StopAfterTick, slaveVars, history
<1>4. CASE StartOnCommand
  <2>1. PICK c : c = m
    OBVIOUS
  <2>2. c \in Timer /\ c.tick = m.tick /\ start_ctf(c, final) /\ pc = "due" /\ m.desired = "RUNNING"
    BY <1>4, <2>1 DEF StartOnCommand, TypeOK
  <2>3. final # None => c.stopAfter = final /\ c.tick + 1 = final
    BY <2>1, <2>2 DEF FinalInv, StaysOver, StopWaits
  <2>4. UNCHANGED <<redis, s, todo, sending, chanM, chanS>>
    BY <1>4 DEF StartOnCommand, slaveVars
  <2>5. \A f \in {final, None} : start_ctf(c, f) /\ (f # None => c.stopAfter = final /\ c.tick + 1 = final) => FinalInv'
    BY <2>2, <2>4, StartFinal
  <2> QED
    BY <2>2, <2>3, <2>5
<1>5. CASE StartOnTime
  <2>1. PICK c : c = [m EXCEPT !.startAt = None]
    OBVIOUS
  <2>2. c \in Timer
    BY <2>1, NatField DEF TypeOK, None
  <2>3. c.tick = m.tick
    BY <2>1 DEF Timer, TypeOK
  <2>4. start_ctf(c, None) /\ pc = "due"
    BY <1>5, <2>1 DEF StartOnTime, Waiting
  <2>5. UNCHANGED <<redis, s, todo, sending, chanM, chanS>>
    BY <1>5 DEF StartOnTime, slaveVars
  <2> QED
    BY <2>2, <2>3, <2>4, <2>5, StartFinal
<1>6. CASE OpenVulnboxOnTime
  <2>1. m'.desired = m.desired /\ m'.tick = m.tick /\ m'.stopAfter = m.stopAfter /\ m.desired # "RUNNING"
    BY <1>6 DEF OpenVulnboxOnTime, Waiting, TypeOK, Timer
  <2> QED
    BY <1>6, <2>1, SameFinal DEF OpenVulnboxOnTime, slaveVars, history
<1>7. CASE NothingDue
  BY <1>7, SameFinal DEF NothingDue, slaveVars, history
<1>8. CASE on_update_times
  <2>1. PICK u : u = Msg(Keys, m)
    OBVIOUS
  <2>2. u.keys = Keys /\ "desired" \in Keys /\ u.val.desired = m.desired
    BY <2>1, MsgStop, CommandKeys DEF TypeOK
  <2>3. /\ UNCHANGED <<m, s, todo, sending, begun, final>> /\ pc = "update" /\ pc' = "sleep" /\ redis' = m
        /\ chanM' = Append(chanM, u) /\ chanS' = Append(chanS, u) /\ chanM \in Seq(Message) /\ chanS \in Seq(Message)
    BY <1>8, <2>1 DEF on_update_times, Publish, Listening, slaveVars, history, TypeOK
  <2>4. m.tick \in Nat /\ redis.tick \in Nat /\ m.tick >= redis.tick /\ begun \subseteq Nat
    BY <2>3, TimerFields DEF TickInv, Located, TypeOK
  <2>5. OneAhead'
    BY <2>3, <2>4 DEF FinalInv, OneAhead
  <2>6. ASSUME final # None PROVE StaysOver'
    <3>1. StaysOver /\ m.desired # "RUNNING"
      BY <2>3, <2>6 DEF FinalInv, StaysOver
    <3>2. Quiet(u)
      BY <2>2, <3>1 DEF Quiet
    <3>3. \A i \in 1..Len(chanM') : Quiet(chanM'[i]) /\ ("stopAfter" \in chanM'[i].keys => "desired" \in chanM'[i].keys)
      BY <2>2, <2>3, <3>1, <3>2 DEF StaysOver
    <3>4. \A i \in 1..Len(chanS') : Quiet(chanS'[i])
      BY <2>3, <3>1, <3>2 DEF StaysOver
    <3> QED
      BY <2>3, <3>1, <3>3, <3>4 DEF StaysOver, StopWaits, Quiet
  <2> QED
    BY <2>3, <2>5, <2>6 DEF FinalInv
<1>9. CASE init_from_redis
  <2>1. /\ UNCHANGED <<redis, s, todo, sending, chanM, chanS, begun, final>> /\ pc' = "init"
        /\ m' = redis \/ m'.desired = "STOPPED"
    BY <1>9 DEF init_from_redis, slaveVars, history, Fresh
  <2> QED
    BY <2>1 DEF FinalInv, OneAhead, StaysOver, StopWaits, Quiet
<1>10. CASE bind_to_redis
  BY <1>10, SameFinal DEF bind_to_redis, slaveVars, history
<1> QED
  BY <1>1, <1>2, <1>3, <1>4, <1>5, <1>6, <1>7, <1>8, <1>9, <1>10 DEF MasterStep

(* So does a crash, whichever of its nine keys on_update_times dies at.     *)
LEMMA FailureKeepsFinal == TypeOK /\ TickInv /\ FinalInv /\ Failure => FinalInv'
<1> SUFFICES ASSUME TypeOK, TickInv, FinalInv, Failure PROVE FinalInv'
  OBVIOUS
<1>1. /\ UNCHANGED <<s, todo, sending, begun, final>> /\ pc' = "down" /\ m'.desired = "STOPPED" /\ chanM' = <<>>
  BY DEF Failure, Crash, CrashInUpdate, Die, slaveVars, history, Fresh
<1>2. CASE Crash
  <2>1. UNCHANGED <<redis, chanS>>
    BY <1>2 DEF Crash
  <2> QED
    BY <1>1, <2>1 DEF FinalInv, OneAhead, StaysOver, StopWaits, Quiet
<1>3. ASSUME NEW k \in 1..9, CrashInUpdate(k) PROVE FinalInv'
  <2>1. PICK keys : keys = FirstKeys(k)
    OBVIOUS
  <2>2. PICK u : u = Msg(keys, m)
    OBVIOUS
  <2>3. redis' = Merge(keys, m, redis) /\ pc = "update" /\ chanS' = Append(chanS, u) /\ chanS \in Seq(Message)
    BY <1>3, <2>1, <2>2 DEF CrashInUpdate, TypeOK
  <2>4. "tick" \in keys \/ "stopAfter" \in keys => "desired" \in keys
    BY <2>1, DesiredFirst
  <2>5. /\ redis'.desired = IF "desired" \in keys THEN m.desired ELSE redis.desired
        /\ redis'.stopAfter = IF "stopAfter" \in keys THEN m.stopAfter ELSE redis.stopAfter
        /\ redis'.tick = IF "tick" \in keys THEN m.tick ELSE redis.tick
    BY <2>3, MergeStop, MergeFields
  <2>6. u.keys = keys /\ ("desired" \in keys => u.val.desired = m.desired)
    BY <2>2, MsgStop DEF TypeOK
  <2>7. m.tick \in Nat /\ redis.tick \in Nat /\ m.tick >= redis.tick /\ begun \subseteq Nat
    BY <2>3, TimerFields DEF TickInv, Located, TypeOK
  <2>8. OneAhead'
    <3>1. redis'.tick \in Nat /\ redis'.tick >= redis.tick
      BY <2>5, <2>7
    <3>2. \A n \in begun : n <= redis.tick + 1
      BY DEF FinalInv, OneAhead
    <3> QED
      BY <1>1, <2>7, <3>1, <3>2 DEF OneAhead
  <2>9. ASSUME final # None PROVE StaysOver'
    <3>1. StaysOver /\ m.desired # "RUNNING"
      BY <2>3, <2>9 DEF FinalInv, StaysOver
    <3>2. StopWaits(redis)'
      BY <1>1, <2>4, <2>5, <3>1 DEF StaysOver, StopWaits
    <3>3. \A i \in 1..Len(chanS') : Quiet(chanS'[i])
      BY <2>3, <2>6, <3>1 DEF StaysOver, Quiet
    <3> QED
      BY <1>1, <3>1, <3>2, <3>3 DEF StaysOver, StopWaits, Quiet
  <2> QED
    BY <1>1, <2>8, <2>9 DEF FinalInv
<1> QED
  BY <1>2, <1>3 DEF Failure

(* So do the listeners.                                                     *)
LEMMA ListenersKeepFinal == TypeOK /\ TickInv /\ FinalInv /\ (MasterHears \/ SlaveHears) => FinalInv'
<1> SUFFICES ASSUME TypeOK, TickInv, FinalInv, MasterHears \/ SlaveHears PROVE FinalInv'
  OBVIOUS
<1>1. CASE MasterHears
  <2>1. PICK u : u = Head(chanM)
    OBVIOUS
  <2>2. /\ chanM # <<>> /\ chanM' = Tail(chanM) /\ m' = Merge(u.keys, u.val, m)
        /\ UNCHANGED <<pc, redis, s, todo, sending, chanS, begun, final>>
    BY <1>1, <2>1 DEF MasterHears, Apply, slaveVars, history
  <2>3. Len(chanM) \in Nat /\ Len(chanM) >= 1 /\ u = chanM[1]
    BY <2>1, <2>2 DEF TypeOK
  <2>4. \A i \in 1..Len(chanM') : i + 1 \in 1..Len(chanM) /\ chanM'[i] = chanM[i + 1]
    BY <2>2 DEF TypeOK
  <2>5. "tick" \in u.keys => u.val.tick = m.tick
    BY <2>3 DEF TickInv, EchoOnly
  <2>6. /\ m'.tick = m.tick
        /\ m'.desired = IF "desired" \in u.keys THEN u.val.desired ELSE m.desired
        /\ m'.stopAfter = IF "stopAfter" \in u.keys THEN u.val.stopAfter ELSE m.stopAfter
    BY <2>2, <2>5, MergeFields, MergeStop
  <2>7. ASSUME StaysOver PROVE StaysOver'
    <3>1. Quiet(u) /\ ("stopAfter" \in u.keys => "desired" \in u.keys)
      BY <2>3, <2>7 DEF StaysOver
    <3>2. StopWaits(m)' /\ (pc' = "update" => m'.desired # "RUNNING")
      BY <2>2, <2>6, <2>7, <3>1 DEF StaysOver, StopWaits, Quiet
    <3>3. \A i \in 1..Len(chanM') : Quiet(chanM'[i]) /\ ("stopAfter" \in chanM'[i].keys => "desired" \in chanM'[i].keys)
      BY <2>4, <2>7 DEF StaysOver
    <3> QED
      BY <2>2, <2>7, <3>2, <3>3 DEF StaysOver, StopWaits, Quiet
  <2> QED
    BY <2>2, <2>7 DEF FinalInv, OneAhead
<1>2. CASE SlaveHears
  <2>1. PICK u : u = Head(chanS)
    OBVIOUS
  <2>2. /\ chanS # <<>> /\ chanS' = Tail(chanS) /\ s' = Merge(u.keys, u.val, s)
        /\ UNCHANGED <<pc, m, redis, todo, sending, chanM, begun, final>>
    BY <1>2, <2>1 DEF SlaveHears, Apply, history
  <2>3. Len(chanS) \in Nat /\ Len(chanS) >= 1 /\ u = chanS[1]
    BY <2>1, <2>2 DEF TypeOK
  <2>4. \A i \in 1..Len(chanS') : i + 1 \in 1..Len(chanS) /\ chanS'[i] = chanS[i + 1]
    BY <2>2 DEF TypeOK
  <2>5. s'.desired = IF "desired" \in u.keys THEN u.val.desired ELSE s.desired
    BY <2>2, MergeStop
  <2>6. ASSUME StaysOver PROVE StaysOver'
    <3>1. Quiet(u) /\ \A i \in 1..Len(chanS') : Quiet(chanS'[i])
      BY <2>3, <2>4, <2>6 DEF StaysOver
    <3>2. \A i \in 1..Len(todo) : "stopAfter" \notin todo[i] /\ ("desired" \in todo[i] => s'.desired # "RUNNING")
      BY <2>5, <2>6, <3>1 DEF StaysOver, Quiet
    <3> QED
      BY <2>2, <2>6, <3>1, <3>2 DEF StaysOver, StopWaits, Quiet
  <2> QED
    BY <2>2, <2>6 DEF FinalInv, OneAhead
<1> QED
  BY <1>1, <1>2

(* A command that keeps the final tick tells nobody to go on.               *)
LEMMA CommandKeepsFinal ==
  ASSUME NEW c, NEW keys, FinalInv, Command(c, keys), final' \in {final, None},
         final' # None => \A i \in 1..Len(keys) :
           "stopAfter" \notin keys[i] /\ ("desired" \in keys[i] => c.desired # "RUNNING")
  PROVE  FinalInv'
<1>1. /\ s' = c /\ todo' = keys
      /\ UNCHANGED <<pc, m, redis, sending, chanM, chanS, begun>>
  BY DEF Command
<1>2. ASSUME final' # None PROVE StaysOver'
  <2>1. StaysOver /\ final' = final
    BY <1>2 DEF FinalInv
  <2> QED
    BY <1>1, <1>2, <2>1 DEF StaysOver, StopWaits, Quiet
<1> QED
  BY <1>1, <1>2 DEF FinalInv, OneAhead

(* So do the commands of the control panel.                                 *)
LEMMA AdministratorKeepsFinal == TypeOK /\ FinalInv /\ Administrator => FinalInv'
<1> SUFFICES ASSUME TypeOK, FinalInv, Administrator PROVE FinalInv'
  OBVIOUS
<1>1. ASSUME NEW d \in CTFState, set_state(d) PROVE FinalInv'
  <2>1. PICK c : c = [s EXCEPT !.desired = d]
    OBVIOUS
  <2>2. PICK keys : keys = <<{"desired"}>>
    OBVIOUS
  <2>3. c.desired = d
    BY <2>1 DEF TypeOK, Timer
  <2>4. Command(c, keys) /\ final' = IF d = "RUNNING" THEN None ELSE final
    BY <1>1, <2>1, <2>2 DEF set_state
  <2>5. \A i \in 1..Len(keys) : keys[i] = {"desired"}
    BY <2>2
  <2> QED
    BY <2>3, <2>4, <2>5, CommandKeepsFinal
<1>2. ASSUME NEW c, NEW keys, Command(c, keys), final' = final,
             \A i \in 1..Len(keys) : keys[i] \cap {"desired", "stopAfter"} = {}
      PROVE  FinalInv'
  BY <1>2, CommandKeepsFinal
<1>3. ASSUME NEW f \in {"time", "startAt", "openAt"}
      PROVE  \A i \in 1..Len(<<{f}>>) : <<{f}>>[i] \cap {"desired", "stopAfter"} = {}
  OBVIOUS
<1>4. ASSUME NEW x \in TickTimes, set_tick_time(x) PROVE FinalInv'
  <2>1. \A i \in 1..Len(<<{"end"}, {"time"}>>) : <<{"end"}, {"time"}>>[i] \cap {"desired", "stopAfter"} = {}
    OBVIOUS
  <2> QED
    BY <1>2, <1>3, <1>4, <2>1 DEF set_tick_time
<1>5. ASSUME NEW n \in LastTicks \cup {None}, set_last_tick(n) PROVE FinalInv'
  <2>1. set_state("STOPPED") => FinalInv'
    BY <1>1 DEF CTFState
  <2>2. ASSUME Command([s EXCEPT !.stopAfter = n], <<{"stopAfter"}>>), final' = None PROVE FinalInv'
    BY <2>2, CommandKeepsFinal
  <2> QED
    BY <1>5, <2>1, <2>2 DEF set_last_tick
<1>6. ASSUME NEW at \in StartTimes \cup {None}, set_start_at(at) PROVE FinalInv'
  BY <1>2, <1>3, <1>6 DEF set_start_at
<1>7. ASSUME NEW at \in OpenTimes \cup {None}, set_open_vulnbox_access_at(at) PROVE FinalInv'
  BY <1>2, <1>3, <1>7 DEF set_open_vulnbox_access_at
<1> QED
  BY <1>1, <1>4, <1>5, <1>6, <1>7 DEF Administrator

(* So does sending a command.                                               *)
LEMMA SlaveKeepsFinal == TypeOK /\ TickInv /\ FinalInv /\ (SlaveSets \/ SlavePublishes) => FinalInv'
<1> SUFFICES ASSUME TypeOK, TickInv, FinalInv, SlaveSets \/ SlavePublishes PROVE FinalInv'
  OBVIOUS
<1>1. CASE SlaveSets
  <2>1. PICK keys : keys = Head(todo)
    OBVIOUS
  <2>2. PICK u : u = Msg(keys, s)
    OBVIOUS
  <2>3. /\ todo # <<>> /\ todo' = Tail(todo) /\ redis' = Merge(u.keys, u.val, redis) /\ sending' = <<u>>
        /\ UNCHANGED <<pc, m, s, chanM, chanS, begun, final>>
    BY <1>1, <2>1, <2>2 DEF SlaveSets, Apply, history
  <2>4. Len(todo) \in Nat /\ Len(todo) >= 1 /\ keys = todo[1]
    BY <2>1, <2>3 DEF TypeOK
  <2>5. \A i \in 1..Len(todo') : i + 1 \in 1..Len(todo) /\ todo'[i] = todo[i + 1]
    BY <2>3 DEF TypeOK
  <2>6. "tick" \notin keys
    BY <2>4 DEF TickInv, EchoOnly
  <2>7. u.keys = keys /\ ("desired" \in keys => u.val.desired = s.desired)
    BY <2>2, MsgStop DEF TypeOK
  <2>8. /\ redis'.tick = redis.tick
        /\ redis'.desired = IF "desired" \in keys THEN u.val.desired ELSE redis.desired
        /\ redis'.stopAfter = IF "stopAfter" \in keys THEN u.val.stopAfter ELSE redis.stopAfter
    BY <2>3, <2>6, <2>7, MergeFields, MergeStop
  <2>9. ASSUME StaysOver PROVE StaysOver'
    <3>1. "stopAfter" \notin keys /\ ("desired" \in keys => s.desired # "RUNNING")
      BY <2>4, <2>9 DEF StaysOver
    <3>2. StopWaits(redis)'
      BY <2>3, <2>7, <2>8, <2>9, <3>1 DEF StaysOver, StopWaits
    <3>3. Quiet(u) /\ "stopAfter" \notin u.keys
      BY <2>7, <3>1 DEF Quiet
    <3>4. \A i \in 1..Len(sending') : Quiet(sending'[i]) /\ "stopAfter" \notin sending'[i].keys
      BY <2>3, <3>3
    <3>5. \A i \in 1..Len(todo') : "stopAfter" \notin todo'[i] /\ ("desired" \in todo'[i] => s.desired # "RUNNING")
      BY <2>5, <2>9 DEF StaysOver
    <3> QED
      BY <2>3, <2>9, <3>2, <3>4, <3>5 DEF StaysOver, StopWaits, Quiet
  <2> QED
    BY <2>3, <2>8, <2>9 DEF FinalInv, OneAhead
<1>2. CASE SlavePublishes
  <2>1. PICK u : u = Head(sending)
    OBVIOUS
  <2>2. /\ sending # <<>> /\ sending' = <<>> /\ chanS' = Append(chanS, u)
        /\ chanM' = IF Listening THEN Append(chanM, u) ELSE chanM
        /\ UNCHANGED <<pc, m, s, redis, todo, begun, final>> /\ chanM \in Seq(Message) /\ chanS \in Seq(Message)
    BY <1>2, <2>1 DEF SlavePublishes, Publish, history, TypeOK
  <2>3. Len(sending) >= 1 /\ u = sending[1]
    BY <2>1, <2>2 DEF TypeOK
  <2>4. ASSUME StaysOver PROVE StaysOver'
    <3>1. Quiet(u) /\ "stopAfter" \notin u.keys
      BY <2>3, <2>4 DEF StaysOver
    <3>2. \A i \in 1..Len(chanM') : Quiet(chanM'[i]) /\ ("stopAfter" \in chanM'[i].keys => "desired" \in chanM'[i].keys)
      BY <2>2, <2>4, <3>1 DEF StaysOver
    <3>3. \A i \in 1..Len(chanS') : Quiet(chanS'[i])
      BY <2>2, <2>4, <3>1 DEF StaysOver
    <3> QED
      BY <2>2, <2>4, <3>2, <3>3 DEF StaysOver, StopWaits, Quiet
  <2> QED
    BY <2>2, <2>4 DEF FinalInv, OneAhead
<1> QED
  BY <1>1, <1>2

(* FinalInv is inductive, given TickInv.                                    *)
LEMMA FinalStep == TypeOK /\ TickInv /\ FinalInv /\ [Next]_vars => FinalInv'
<1> SUFFICES ASSUME TypeOK, TickInv, FinalInv, [Next]_vars PROVE FinalInv'
  OBVIOUS
<1>1. CASE Second
  <2>1. /\ UNCHANGED <<m, redis, s, todo, sending, chanM, chanS, begun, final>>
        /\ pc' = "update" => pc = "update"
    BY <1>1 DEF Second, slaveVars, history
  <2> QED
    BY <2>1 DEF FinalInv, OneAhead, StaysOver, StopWaits, Quiet
<1>2. CASE UNCHANGED vars
  BY <1>2 DEF vars, slaveVars, history, FinalInv, OneAhead, StaysOver, StopWaits, Quiet
<1> QED
  BY <1>1, <1>2, MasterKeepsFinal, FailureKeepsFinal, ListenersKeepFinal, AdministratorKeepsFinal,
     SlaveKeepsFinal DEF Next

(* Once the last tick is recognised no later tick begins until an           *)
(* administrator changes his mind, wherever on_update_times dies and        *)
(* however often the master is restarted (on_start_tick, init_from_redis).  *)
THEOREM LastTickEnds == Spec => []LastTickIsFinal
<1>1. Init => TickInv /\ FinalInv
  BY DEF Init, Fresh, TickInv, NoTickSkipped, Sound, Located, Listening, EchoOnly,
     NoEarlySchedule, Unscheduled, FinalInv, OneAhead
<1>2. FinalInv => LastTickIsFinal
  BY DEF FinalInv, StaysOver, LastTickIsFinal
<1> QED
  BY <1>1, <1>2, TickStep, FinalStep, TypeCorrect, PTL DEF Spec

-----------------------------------------------------------------------------
(* The replica.                                                             *)

(* The timer c that applies all messages of ch will have v in its field f.  *)
Settles(f, v, ch, c) ==
  \/ \E i \in 1..Len(ch) :
       f \in ch[i].keys /\ ch[i].val[f] = v /\ \A j \in (i + 1)..Len(ch) : f \notin ch[j].keys
  \/ (\A j \in 1..Len(ch) : f \notin ch[j].keys) /\ c[f] = v

(* The control panel has still to set or to publish the field.              *)
Pending(f) ==
  \/ \E i \in 1..Len(todo) : f \in todo[i]
  \/ \E i \in 1..Len(sending) : f \in sending[i].keys

(* Both timers will have the same.                                          *)
Agrees(f) == \E v : Settles(f, v, chanM, m) /\ Settles(f, v, chanS, s)

(* Without a crash, what the master begins is new, and a field on which the *)
(* two timers are not about to agree is to be sent by one of them.          *)
AgreeInv ==
  crashes = 0 =>
    /\ pc \notin {"down", "init"} /\ Len(sending) <= 1
    /\ repeated = {} /\ \A n \in begun : n <= m.tick
    /\ pc # "update" => \A f \in Keys : Pending(f) \/ Agrees(f)

(* The nine keys.                                                           *)
LEMMA NineKeys ==
  Keys = {"state", "desired", "tick", "start", "end", "time", "stopAfter", "startAt", "openAt"}
<1>1. /\ KeyOrder[1] = "state" /\ KeyOrder[2] = "desired" /\ KeyOrder[3] = "tick"
      /\ KeyOrder[4] = "start" /\ KeyOrder[5] = "end" /\ KeyOrder[6] = "time"
      /\ KeyOrder[7] = "stopAfter" /\ KeyOrder[8] = "startAt" /\ KeyOrder[9] = "openAt"
  BY DEF KeyOrder
<1>2. 1..9 = {1, 2, 3, 4, 5, 6, 7, 8, 9}
  OBVIOUS
<1> QED
  BY <1>1, <1>2 DEF Keys

(* Merge, for any of them.                                                  *)
LEMMA MergeAt ==
  ASSUME NEW keys, NEW c, NEW d, NEW f \in Keys
  PROVE  Merge(keys, c, d)[f] = IF f \in keys THEN c[f] ELSE d[f]
BY NineKeys DEF Merge

(* Timers that agree on them are the same.                                  *)
LEMMA SameTimer ==
  ASSUME NEW c \in Timer, NEW d \in Timer, \A f \in Keys : c[f] = d[f]
  PROVE  c = d
<1>1. /\ c.state = d.state /\ c.desired = d.desired /\ c.tick = d.tick /\ c.start = d.start /\ c.end = d.end
      /\ c.time = d.time /\ c.stopAfter = d.stopAfter /\ c.startAt = d.startAt /\ c.openAt = d.openAt
  BY NineKeys
<1> QED
  BY <1>1 DEF Timer

(* The last message decides.                                                *)
LEMMA SettlesLast ==
  ASSUME NEW f, NEW c, NEW ch \in Seq(Message), NEW msg \in Message, f \in msg.keys
  PROVE  Settles(f, msg.val[f], Append(ch, msg), c)
<1>1. Len(ch) + 1 \in 1..Len(Append(ch, msg)) /\ Append(ch, msg)[Len(ch) + 1] = msg /\ Len(Append(ch, msg)) = Len(ch) + 1
  OBVIOUS
<1>2. (Len(ch) + 1 + 1)..(Len(ch) + 1) = {}
  OBVIOUS
<1> QED
  BY <1>1, <1>2 DEF Settles

(* A message without the field decides nothing.                             *)
LEMMA SettlesOther ==
  ASSUME NEW f, NEW v, NEW c, NEW ch \in Seq(Message), NEW msg \in Message, f \notin msg.keys,
         Settles(f, v, ch, c)
  PROVE  Settles(f, v, Append(ch, msg), c)
<1>1. Len(ch) \in Nat /\ Len(Append(ch, msg)) = Len(ch) + 1 /\ Append(ch, msg)[Len(ch) + 1] = msg
  OBVIOUS
<1>2. \A i \in 1..Len(ch) : Append(ch, msg)[i] = ch[i]
  OBVIOUS
<1>3. \A i \in 1..(Len(ch) + 1) : i \in 1..Len(ch) \/ i = Len(ch) + 1
  BY <1>1
<1>4. CASE (\A j \in 1..Len(ch) : f \notin ch[j].keys) /\ c[f] = v
  BY <1>1, <1>2, <1>3, <1>4 DEF Settles
<1>5. ASSUME NEW i \in 1..Len(ch), f \in ch[i].keys, ch[i].val[f] = v, \A j \in (i + 1)..Len(ch) : f \notin ch[j].keys
      PROVE  Settles(f, v, Append(ch, msg), c)
  <2>1. i \in 1..Len(Append(ch, msg)) /\ Append(ch, msg)[i] = ch[i]
    BY <1>1, <1>2
  <2>2. ASSUME NEW j \in (i + 1)..Len(Append(ch, msg)) PROVE f \notin Append(ch, msg)[j].keys
    <3>1. CASE j = Len(ch) + 1
      BY <1>1, <3>1
    <3>2. CASE j # Len(ch) + 1
      <4>1. j \in (i + 1)..Len(ch) /\ j \in 1..Len(ch)
        BY <1>1, <3>2
      <4> QED
        BY <1>2, <1>5, <4>1
    <3> QED
      BY <3>1, <3>2
  <2> QED
    BY <1>5, <2>1, <2>2 DEF Settles
<1> QED
  BY <1>4, <1>5 DEF Settles

(* Hearing a message changes nothing of what will be.                       *)
LEMMA SettlesHear ==
  ASSUME NEW f \in Keys, NEW v, NEW c, NEW ch \in Seq(Message), ch # <<>>, Settles(f, v, ch, c)
  PROVE  Settles(f, v, Tail(ch), Apply(c, Head(ch)))
<1>1. Len(ch) \in Nat /\ Len(ch) >= 1 /\ Head(ch) = ch[1] /\ Len(Tail(ch)) = Len(ch) - 1
  OBVIOUS
<1>2. \A j \in 1..Len(Tail(ch)) : j + 1 \in 1..Len(ch) /\ Tail(ch)[j] = ch[j + 1]
  OBVIOUS
<1>3. Apply(c, Head(ch))[f] = IF f \in ch[1].keys THEN ch[1].val[f] ELSE c[f]
  BY <1>1, MergeAt DEF Apply
<1>4. CASE (\A j \in 1..Len(ch) : f \notin ch[j].keys) /\ c[f] = v
  <2>1. \A j \in 1..Len(Tail(ch)) : f \notin Tail(ch)[j].keys
    BY <1>2, <1>4
  <2> QED
    BY <1>1, <1>3, <1>4, <2>1 DEF Settles
<1>5. ASSUME NEW i \in 1..Len(ch), f \in ch[i].keys, ch[i].val[f] = v, \A j \in (i + 1)..Len(ch) : f \notin ch[j].keys
      PROVE  Settles(f, v, Tail(ch), Apply(c, Head(ch)))
  <2>1. CASE i = 1
    <3>1. \A j \in 1..Len(Tail(ch)) : j + 1 \in (1 + 1)..Len(ch)
      BY <1>1
    <3>2. \A j \in 1..Len(Tail(ch)) : f \notin Tail(ch)[j].keys
      BY <1>2, <1>5, <2>1, <3>1
    <3> QED
      BY <1>3, <1>5, <2>1, <3>2 DEF Settles
  <2>2. CASE i # 1
    <3>1. i - 1 \in 1..Len(Tail(ch)) /\ Tail(ch)[i - 1] = ch[i]
      BY <1>1, <1>2, <2>2
    <3>2. ASSUME NEW j \in ((i - 1) + 1)..Len(Tail(ch)) PROVE f \notin Tail(ch)[j].keys
      <4>1. j \in 1..Len(Tail(ch)) /\ j + 1 \in (i + 1)..Len(ch)
        BY <1>1, <2>2
      <4> QED
        BY <1>2, <1>5, <4>1
    <3> QED
      BY <1>5, <3>1, <3>2 DEF Settles
  <2> QED
    BY <2>1, <2>2
<1> QED
  BY <1>4, <1>5 DEF Settles

(* A new tick was not begun before.                                         *)
LEMMA NewTickAgrees ==
  ASSUME TypeOK, AgreeInv, NEW c \in Timer, NEW f, on_start_tick(c, f), c.tick = m.tick + 1,
         pc \in {"due", "ended"}, pc' = "update", sending' = sending, crashes' = crashes
  PROVE  AgreeInv'
<1> SUFFICES ASSUME crashes = 0
             PROVE  Len(sending) <= 1 /\ repeated' = {} /\ \A n \in begun' : n <= m'.tick
  BY DEF AgreeInv
<1>1. m'.tick = m.tick + 1 /\ begun' = begun \cup {m.tick + 1} /\ repeated' = repeated \cup ({m.tick + 1} \cap begun)
  BY OnStartTickFields DEF on_start_tick
<1>2. Len(sending) <= 1 /\ repeated = {} /\ \A n \in begun : n <= m.tick
  BY DEF AgreeInv
<1>3. m.tick \in Nat /\ begun \subseteq Nat
  BY TimerFields DEF TypeOK
<1>4. m.tick + 1 \notin begun
  BY <1>2, <1>3
<1> QED
  BY <1>1, <1>2, <1>3, <1>4

(* start_ctf is such a step.                                                *)
LEMMA StartAgrees ==
  ASSUME TypeOK, AgreeInv, NEW c \in Timer, NEW f, start_ctf(c, f), c.tick = m.tick,
         pc = "due", pc' = "update", sending' = sending, crashes' = crashes
  PROVE  AgreeInv'
<1>1. PICK d : d = [c EXCEPT !.desired = "RUNNING", !.tick = c.tick + 1, !.start = now,
                             !.end = now + c.time, !.state = "RUNNING"]
  OBVIOUS
<1>2. c.tick + 1 \in Nat /\ now \in Nat /\ now + c.time \in Nat
  BY TimerFields DEF TypeOK
<1>3. d \in Timer
  BY <1>1, <1>2, StartedType DEF CTFState
<1>4. d.tick = c.tick + 1
  BY <1>1 DEF Timer
<1>5. on_start_tick(d, f)
  BY <1>1 DEF start_ctf
<1> QED
  BY <1>3, <1>4, <1>5, NewTickAgrees

(* A step that sends, delivers and begins nothing.                          *)
LEMMA SameAgrees ==
  ASSUME AgreeInv, pc' = pc \/ pc' \in {"due", "ended", "sleep", "update"},
         m'.tick = m.tick, pc' = "update" \/ (pc # "update" /\ m' = m),
         UNCHANGED <<s, todo, sending, chanM, chanS, begun, repeated, crashes>>
  PROVE  AgreeInv'
<1> SUFFICES ASSUME crashes = 0, AgreeInv PROVE AgreeInv'
  BY DEF AgreeInv
<1>1. pc' # "update" => \A f \in Keys : Pending(f)' \/ Agrees(f)'
  BY DEF AgreeInv, Pending, Agrees
<1> QED
  BY <1>1 DEF AgreeInv

(* The steps of the master's thread keep AgreeInv.                          *)
LEMMA MasterKeepsAgreed == TypeOK /\ AgreeInv /\ MasterStep => AgreeInv'
<1> SUFFICES ASSUME TypeOK, AgreeInv, MasterStep PROVE AgreeInv'
  OBVIOUS
<1>1. CASE EndTick
  BY <1>1, SameAgrees DEF EndTick, slaveVars
<1>2. CASE NextTick
  <2>1. PICK start : start = IF t > m.end + 1 THEN t ELSE m.end
    OBVIOUS
  <2>2. PICK c : c = [m EXCEPT !.tick = m.tick + 1, !.start = start, !.end = start + m.time]
    OBVIOUS
  <2>3. m \in Timer /\ start \in Nat /\ m.tick + 1 \in Nat /\ start + m.time \in Nat
    BY SMTT(60), <2>1, TimerFields DEF TypeOK
  <2>4. c \in Timer
    BY <2>2, <2>3, NewTickType
  <2>5. c.tick = m.tick + 1
    BY <2>2, <2>3 DEF Timer
  <2>6. PICK f : on_start_tick(c, f)
    BY <1>2, <2>1, <2>2 DEF NextTick
  <2> QED
    BY <1>2, <2>4, <2>5, <2>6, NewTickAgrees DEF NextTick, slaveVars
<1>3. CASE StopAfterTick
  <2>1. m'.tick = m.tick
    BY <1>3 DEF StopAfterTick, TypeOK, Timer
  <2> QED
    BY <1>3, <2>1, SameAgrees DEF StopAfterTick, slaveVars, history
<1>4. CASE StartOnCommand
  <2>1. PICK c : c = m
    OBVIOUS
  <2>2. PICK f : c \in Timer /\ c.tick = m.tick /\ start_ctf(c, f)
    BY <1>4, <2>1 DEF StartOnCommand, TypeOK
  <2> QED
    BY <1>4, <2>2, StartAgrees DEF StartOnCommand, slaveVars
<1>5. CASE StartOnTime
  <2>1. PICK c : c = [m EXCEPT !.startAt = None]
    OBVIOUS
  <2>2. c \in Timer
    BY <2>1, NatField DEF TypeOK, None
  <2>3. c.tick = m.tick
    BY <2>1 DEF Timer, TypeOK
  <2>4. start_ctf(c, None)
    BY <1>5, <2>1 DEF StartOnTime
  <2> QED
    BY <1>5, <2>2, <2>3, <2>4, StartAgrees DEF StartOnTime, Waiting, slaveVars
<1>6. CASE OpenVulnboxOnTime
  <2>1. m'.tick = m.tick
    BY <1>6 DEF OpenVulnboxOnTime, TypeOK, Timer
  <2> QED
    BY <1>6, <2>1, SameAgrees DEF OpenVulnboxOnTime, slaveVars, history
<1>7. CASE NothingDue
  BY <1>7, SameAgrees DEF NothingDue, slaveVars, history
<1>8. CASE on_update_times
  <2>1. PICK u : u = Msg(Keys, m)
    OBVIOUS
  <2>2. u \in Message /\ u.keys = Keys
    BY <2>1, MsgType, MsgFields DEF TypeOK
  <2>3. /\ UNCHANGED <<m, s, todo, sending, begun, repeated, crashes>> /\ pc' = "sleep"
        /\ chanM' = Append(chanM, u) /\ chanS' = Append(chanS, u) /\ chanM \in Seq(Message) /\ chanS \in Seq(Message)
    BY <1>8, <2>1 DEF on_update_times, Publish, Listening, slaveVars, history, TypeOK
  <2>4. ASSUME NEW f \in Keys PROVE Agrees(f)'
    <3>1. \A c : Settles(f, u.val[f], Append(chanM, u), c) /\ Settles(f, u.val[f], Append(chanS, u), c)
      BY <2>2, <2>3, SettlesLast
    <3> QED
      BY <2>3, <3>1 DEF Agrees
  <2> QED
    BY <2>3, <2>4 DEF AgreeInv
<1>9. CASE init_from_redis \/ bind_to_redis
  BY <1>9 DEF AgreeInv, init_from_redis, bind_to_redis
<1> QED
  BY <1>1, <1>2, <1>3, <1>4, <1>5, <1>6, <1>7, <1>8, <1>9 DEF MasterStep

(* So do the listeners.                                                     *)
LEMMA ListenersKeepAgreed == TypeOK /\ TickInv /\ AgreeInv /\ (MasterHears \/ SlaveHears) => AgreeInv'
<1> SUFFICES ASSUME TypeOK, TickInv, AgreeInv, MasterHears \/ SlaveHears, crashes = 0 PROVE AgreeInv'
  BY DEF AgreeInv, MasterHears, SlaveHears
<1>1. CASE MasterHears
  <2>1. /\ chanM # <<>> /\ chanM' = Tail(chanM) /\ m' = Apply(m, Head(chanM)) /\ chanM \in Seq(Message)
        /\ UNCHANGED <<pc, s, todo, sending, chanS, begun, repeated, crashes>>
    BY <1>1 DEF MasterHears, slaveVars, history, TypeOK
  <2>2. m'.tick = m.tick
    <3>1. 1 \in 1..Len(chanM) /\ Head(chanM) = chanM[1]
      BY <2>1
    <3>2. "tick" \in Head(chanM).keys => Head(chanM).val.tick = m.tick
      BY <3>1 DEF TickInv, EchoOnly
    <3> QED
      BY <2>1, <3>2, MergeFields DEF Apply
  <2>3. ASSUME NEW f \in Keys, Agrees(f) PROVE Agrees(f)'
    <3>1. PICK v : Settles(f, v, chanM, m) /\ Settles(f, v, chanS, s)
      BY <2>3 DEF Agrees
    <3>2. Settles(f, v, Tail(chanM), Apply(m, Head(chanM)))
      BY <2>1, <3>1, SettlesHear
    <3> QED
      BY <2>1, <3>1, <3>2 DEF Agrees
  <2>4. \A f \in Keys : Pending(f) => Pending(f)'
    BY <2>1 DEF Pending
  <2> QED
    BY <2>1, <2>2, <2>3, <2>4 DEF AgreeInv
<1>2. CASE SlaveHears
  <2>1. /\ chanS # <<>> /\ chanS' = Tail(chanS) /\ s' = Apply(s, Head(chanS)) /\ chanS \in Seq(Message)
        /\ UNCHANGED <<pc, m, todo, sending, chanM, begun, repeated, crashes>>
    BY <1>2 DEF SlaveHears, history, TypeOK
  <2>2. ASSUME NEW f \in Keys, Agrees(f) PROVE Agrees(f)'
    <3>1. PICK v : Settles(f, v, chanM, m) /\ Settles(f, v, chanS, s)
      BY <2>2 DEF Agrees
    <3>2. Settles(f, v, Tail(chanS), Apply(s, Head(chanS)))
      BY <2>1, <3>1, SettlesHear
    <3> QED
      BY <2>1, <3>1, <3>2 DEF Agrees
  <2>3. \A f \in Keys : Pending(f) => Pending(f)'
    BY <2>1 DEF Pending
  <2> QED
    BY <2>1, <2>2, <2>3 DEF AgreeInv
<1> QED
  BY <1>1, <1>2

(* A command changes no field but those it is to send.                      *)
LEMMA CommandKeepsAgreed ==
  ASSUME NEW c, NEW keys, AgreeInv, Command(c, keys),
         \A f \in Keys : c[f] = s[f] \/ \E i \in 1..Len(keys) : f \in keys[i]
  PROVE  AgreeInv'
<1>1. /\ s' = c /\ todo' = keys /\ todo = <<>> /\ sending = <<>>
      /\ UNCHANGED <<pc, m, sending, chanM, chanS, begun, repeated, crashes>>
  BY DEF Command
<1>2. ASSUME NEW f \in Keys, Pending(f) \/ Agrees(f) PROVE Pending(f)' \/ Agrees(f)'
  <2>1. CASE \E i \in 1..Len(keys) : f \in keys[i]
    BY <1>1, <2>1 DEF Pending
  <2>2. CASE c[f] = s[f]
    <3>1. Agrees(f)
      BY <1>1, <1>2 DEF Pending
    <3>2. PICK v : Settles(f, v, chanM, m) /\ Settles(f, v, chanS, s)
      BY <3>1 DEF Agrees
    <3>3. Settles(f, v, chanS, c)
      BY <2>2, <3>2 DEF Settles
    <3> QED
      BY <1>1, <3>2, <3>3 DEF Agrees
  <2> QED
    BY <2>1, <2>2
<1> QED
  BY <1>1, <1>2 DEF AgreeInv

(* So do the commands of the control panel.                                 *)
LEMMA AdministratorKeepsAgreed == TypeOK /\ AgreeInv /\ Administrator => AgreeInv'
<1> SUFFICES ASSUME TypeOK, AgreeInv, Administrator PROVE AgreeInv'
  OBVIOUS
<1>1. ASSUME NEW k \in Keys, NEW x, Command([s EXCEPT ![k] = x], <<{k}>>) PROVE AgreeInv'
  <2>1. \A f \in Keys : [s EXCEPT ![k] = x][f] = s[f] \/ f = k
    BY NineKeys DEF TypeOK, Timer
  <2>2. \E i \in 1..Len(<<{k}>>) : k \in <<{k}>>[i]
    OBVIOUS
  <2>3. PICK c : c = [s EXCEPT ![k] = x]
    OBVIOUS
  <2>4. PICK keys : keys = <<{k}>>
    OBVIOUS
  <2>5. Command(c, keys)
    BY <1>1, <2>3, <2>4
  <2>6. \A f \in Keys : c[f] = s[f] \/ \E i \in 1..Len(keys) : f \in keys[i]
    BY <2>1, <2>2, <2>3, <2>4
  <2> QED
    BY <2>5, <2>6, CommandKeepsAgreed
<1>2. ASSUME NEW d \in CTFState, set_state(d) PROVE AgreeInv'
  BY <1>1, <1>2, NineKeys DEF set_state
<1>3. ASSUME NEW x \in TickTimes, set_tick_time(x) PROVE AgreeInv'
  <2>1. CASE s.start # None
    <3>1. Command([s EXCEPT !.time = x, !.end = s.start + x], <<{"end"}, {"time"}>>)
      BY <1>3, <2>1 DEF set_tick_time
    <3>2. \A f \in Keys : [s EXCEPT !.time = x, !.end = s.start + x][f] = s[f] \/ f \in {"end", "time"}
      BY NineKeys DEF TypeOK, Timer
    <3>3. \A f \in {"end", "time"} : \E i \in 1..Len(<<{"end"}, {"time"}>>) : f \in <<{"end"}, {"time"}>>[i]
      <4>1. 1 \in 1..Len(<<{"end"}, {"time"}>>) /\ "end" \in <<{"end"}, {"time"}>>[1]
        OBVIOUS
      <4>2. 2 \in 1..Len(<<{"end"}, {"time"}>>) /\ "time" \in <<{"end"}, {"time"}>>[2]
        OBVIOUS
      <4> QED
        BY <4>1, <4>2
    <3>4. PICK c : c = [s EXCEPT !.time = x, !.end = s.start + x]
      OBVIOUS
    <3>5. PICK keys : keys = <<{"end"}, {"time"}>>
      OBVIOUS
    <3>6. Command(c, keys)
      BY <3>1, <3>4, <3>5
    <3>7. \A f \in Keys : c[f] = s[f] \/ \E i \in 1..Len(keys) : f \in keys[i]
      BY <3>2, <3>3, <3>4, <3>5
    <3> QED
      BY <3>6, <3>7, CommandKeepsAgreed
  <2>2. CASE s.start = None
    BY <1>1, <1>3, <2>2, NineKeys DEF set_tick_time
  <2> QED
    BY <2>1, <2>2
<1>4. ASSUME NEW n \in LastTicks \cup {None}, set_last_tick(n) PROVE AgreeInv'
  <2>1. set_state("STOPPED") => AgreeInv'
    BY <1>2 DEF CTFState
  <2> QED
    BY <1>1, <1>4, <2>1, NineKeys DEF set_last_tick
<1>5. ASSUME NEW at \in StartTimes \cup {None}, set_start_at(at) PROVE AgreeInv'
  BY <1>1, <1>5, NineKeys DEF set_start_at
<1>6. ASSUME NEW at \in OpenTimes \cup {None}, set_open_vulnbox_access_at(at) PROVE AgreeInv'
  BY <1>1, <1>6, NineKeys DEF set_open_vulnbox_access_at
<1> QED
  BY <1>2, <1>3, <1>4, <1>5, <1>6 DEF Administrator

(* So does sending a command.                                               *)
LEMMA SlaveKeepsAgreed == TypeOK /\ AgreeInv /\ (SlaveSets \/ SlavePublishes) => AgreeInv'
<1> SUFFICES ASSUME TypeOK, AgreeInv, SlaveSets \/ SlavePublishes, crashes = 0 PROVE AgreeInv'
  BY DEF AgreeInv, SlaveSets, SlavePublishes
<1>1. CASE SlaveSets
  <2>1. PICK keys : keys = Head(todo)
    OBVIOUS
  <2>2. PICK u : u = Msg(keys, s)
    OBVIOUS
  <2>3. /\ todo # <<>> /\ sending = <<>> /\ todo' = Tail(todo) /\ sending' = <<u>> /\ todo \in Seq(SUBSET Keys)
        /\ UNCHANGED <<pc, m, s, chanM, chanS, begun, repeated, crashes>>
    BY <1>1, <2>1, <2>2 DEF SlaveSets, history, TypeOK
  <2>4. u.keys = keys /\ keys = todo[1]
    BY <2>1, <2>2, <2>3, MsgFields DEF TypeOK
  <2>5. ASSUME NEW f \in Keys, Pending(f) PROVE Pending(f)'
    <3>1. PICK i \in 1..Len(todo) : f \in todo[i]
      BY <2>3, <2>5 DEF Pending
    <3>2. CASE i = 1
      <4>1. 1 \in 1..Len(sending') /\ f \in sending'[1].keys
        BY <2>3, <2>4, <3>1, <3>2
      <4> QED
        BY <4>1 DEF Pending
    <3>3. CASE i # 1
      <4>1. i - 1 \in 1..Len(todo') /\ todo'[i - 1] = todo[i]
        BY <2>3, <3>3
      <4> QED
        BY <3>1, <4>1 DEF Pending
    <3> QED
      BY <3>2, <3>3
  <2>6. \A f \in Keys : Agrees(f) => Agrees(f)'
    BY <2>3 DEF Agrees
  <2>7. Len(sending') <= 1
    BY <2>3
  <2> QED
    BY <2>3, <2>5, <2>6, <2>7 DEF AgreeInv
<1>2. CASE SlavePublishes
  <2>1. PICK u : u = Head(sending)
    OBVIOUS
  <2>2. /\ sending # <<>> /\ sending' = <<>> /\ chanS' = Append(chanS, u) /\ chanM' = Append(chanM, u)
        /\ UNCHANGED <<pc, m, s, todo, begun, repeated, crashes>> /\ chanM \in Seq(Message) /\ chanS \in Seq(Message)
    BY <1>2, <2>1 DEF SlavePublishes, Publish, Listening, history, TypeOK, AgreeInv
  <2>3. u \in Message /\ \A i \in 1..Len(sending) : sending[i] = u
    BY <2>1, <2>2 DEF TypeOK, AgreeInv
  <2>4. ASSUME NEW f \in Keys, Pending(f) \/ Agrees(f) PROVE Pending(f)' \/ Agrees(f)'
    <3>1. CASE f \in u.keys
      <4>1. \A c : Settles(f, u.val[f], Append(chanM, u), c) /\ Settles(f, u.val[f], Append(chanS, u), c)
        BY <2>2, <2>3, <3>1, SettlesLast
      <4> QED
        BY <2>2, <4>1 DEF Agrees
    <3>2. CASE f \notin u.keys /\ Pending(f)
      BY <2>2, <2>3, <3>2 DEF Pending
    <3>3. CASE f \notin u.keys /\ Agrees(f)
      <4>1. PICK v : Settles(f, v, chanM, m) /\ Settles(f, v, chanS, s)
        BY <3>3 DEF Agrees
      <4>2. Settles(f, v, Append(chanM, u), m) /\ Settles(f, v, Append(chanS, u), s)
        BY <2>2, <2>3, <3>3, <4>1, SettlesOther
      <4> QED
        BY <2>2, <4>2 DEF Agrees
    <3> QED
      BY <2>4, <3>1, <3>2, <3>3
  <2>5. Len(sending') <= 1
    BY <2>2
  <2> QED
    BY <2>2, <2>4, <2>5 DEF AgreeInv
<1> QED
  BY <1>1, <1>2

(* AgreeInv is inductive, given TickInv.                                    *)
LEMMA AgreeStep == TypeOK /\ TickInv /\ AgreeInv /\ [Next]_vars => AgreeInv'
<1> SUFFICES ASSUME TypeOK, TickInv, AgreeInv, [Next]_vars PROVE AgreeInv'
  OBVIOUS
<1>1. CASE Failure
  <2>1. crashes' = crashes + 1 /\ crashes \in Nat
    BY <1>1 DEF Failure, Crash, CrashInUpdate, Die, TypeOK
  <2> QED
    BY <2>1 DEF AgreeInv
<1>2. CASE Second \/ UNCHANGED vars
  <2>1. /\ UNCHANGED <<m, s, todo, sending, chanM, chanS, begun, repeated, crashes>>
        /\ pc' = pc \/ (pc = "sleep" /\ pc' = "due")
    BY <1>2 DEF Second, vars, slaveVars, history
  <2>2. \A f \in Keys : (Pending(f) => Pending(f)') /\ (Agrees(f) => Agrees(f)')
    BY <2>1 DEF Pending, Agrees
  <2> QED
    BY <2>1, <2>2 DEF AgreeInv
<1> QED
  BY <1>1, <1>2, MasterKeepsAgreed, ListenersKeepAgreed, AdministratorKeepsAgreed, SlaveKeepsAgreed DEF Next

(* Unless the master crashed it begins no tick twice, and whenever nothing  *)
(* is in flight the control panel shows the master's clock, in all nine     *)
(* fields, however commands, echoes and updates crossed each other          *)
(* (on_update_times, redis_set_and_publish, CTFTimerSlave).                 *)
THEOREM SlaveFollows == Spec => []SlaveAgrees
<1>1. Init => TickInv
  BY DEF Init, Fresh, TickInv, NoTickSkipped, Sound, Located, Listening, EchoOnly,
     NoEarlySchedule, Unscheduled
<1>2. Init => AgreeInv
  <2> SUFFICES ASSUME Init PROVE AgreeInv
    OBVIOUS
  <2>1. \A f \in Keys : Agrees(f)
    <3> TAKE f \in Keys
    <3>1. Settles(f, m[f], chanM, m) /\ Settles(f, m[f], chanS, s)
      BY DEF Init, Settles
    <3> QED
      BY <3>1 DEF Agrees
  <2> QED
    BY <2>1 DEF Init, AgreeInv
<1>3. TypeOK /\ AgreeInv => SlaveAgrees
  <2> SUFFICES ASSUME TypeOK, AgreeInv, crashes = 0, NothingInFlight, pc = "sleep" PROVE s = m
    BY DEF SlaveAgrees, AgreeInv
  <2>1. todo = <<>> /\ sending = <<>> /\ chanM = <<>> /\ chanS = <<>>
    BY DEF NothingInFlight
  <2>2. ASSUME NEW f \in Keys PROVE s[f] = m[f]
    <3>1. Agrees(f)
      BY <2>1 DEF AgreeInv, Pending
    <3>2. PICK v : Settles(f, v, chanM, m) /\ Settles(f, v, chanS, s)
      BY <3>1 DEF Agrees
    <3> QED
      BY <2>1, <3>2 DEF Settles
  <2> QED
    BY <2>2, SameTimer DEF TypeOK
<1> QED
  BY <1>1, <1>2, <1>3, TickStep, AgreeStep, TypeCorrect, PTL DEF Spec

-----------------------------------------------------------------------------
(* The gates announced to the routers.                                      *)

(* check_time's local t is an instant that is past.                         *)
TPast == pc = "ended" => t <= now

(* Only EndTick, which reads the clock, leads to the location "ended".      *)
LEMMA TPastStep == TypeOK /\ TPast /\ [Next]_vars => TPast'
<1> SUFFICES ASSUME TypeOK, TPast, [Next]_vars PROVE TPast'
  OBVIOUS
<1>1. now \in Nat /\ t \in Nat
  BY DEF TypeOK
<1>2. CASE MasterStep
  BY <1>1, <1>2 DEF MasterStep, EndTick, NextTick, StopAfterTick, StartOnCommand, StartOnTime,
     OpenVulnboxOnTime, NothingDue, on_update_times, init_from_redis, bind_to_redis, TPast
<1>3. CASE Failure
  BY <1>3 DEF Failure, Crash, CrashInUpdate, Die, TPast
<1>4. CASE MasterHears \/ SlaveHears \/ SlaveSets \/ SlavePublishes \/ UNCHANGED vars
  BY <1>4 DEF MasterHears, SlaveHears, SlaveSets, SlavePublishes, vars, TPast
<1>5. CASE Administrator
  BY <1>5 DEF Administrator, set_state, set_tick_time, set_last_tick, set_start_at,
     set_open_vulnbox_access_at, Command, TPast
<1>6. CASE Second
  BY <1>1, <1>6 DEF Second, TPast
<1> QED
  BY <1>2, <1>3, <1>4, <1>5, <1>6 DEF Next

(* What ForecastHolds says of a step of the master alone.                   *)
KeepsGates ==
  \A vpn \in VpnStatus, n \in 1..(m.tick + 2) : \A g \in Gates(m, vpn, n) :
    g.at > now => \E h \in Gates(m', vpn, n) :
      /\ h.id = g.id /\ h.at >= g.at
      /\ Punctual => h.at = g.at

(* The instant x of a forecast becomes y.                                   *)
Kept(x, y) == x > now => y >= x /\ (Punctual => y = x)

(* A gate has the instant of one of four forecasts, so it is enough to      *)
(* compare those.                                                           *)
LEMMA FourForecasts ==
  ASSUME TypeOK,
         Kept(_get_game_start_time(m), _get_game_start_time(m')),
         Kept(VulnboxOpens(m), VulnboxOpens(m')),
         \A n \in Nat : Kept(_get_end_of_tick(m, n), _get_end_of_tick(m', n)),
         Kept(GameCloses(m), GameCloses(m')), GameCloses(m) > now => GameCloses(m') # None
  PROVE  KeepsGates
<1> SUFFICES ASSUME NEW vpn \in VpnStatus, NEW n \in 1..(m.tick + 2),
                    NEW g \in Gates(m, vpn, n), g.at > now
             PROVE  \E h \in Gates(m', vpn, n) :
                      h.id = g.id /\ h.at >= g.at /\ (Punctual => h.at = g.at)
  BY DEF KeepsGates
<1>1. CASE g \in add_per_team_gates(m, n)
  <2>1. n \in Nat
    BY TimerFields DEF TypeOK
  <2> DEFINE h == [id |-> "ban-team", at |-> _get_end_of_tick(m', n)]
  <2>2. h \in Gates(m', vpn, n)
    BY DEF Gates, add_per_team_gates
  <2>3. g.id = "ban-team" /\ g.at = _get_end_of_tick(m, n)
    BY <1>1 DEF add_per_team_gates
  <2>4. h.id = g.id /\ h.at >= g.at /\ (Punctual => h.at = g.at)
    BY <2>1, <2>3 DEF Kept
  <2> QED
    BY <2>2, <2>4
<1>2. CASE g \in add_vpn_gates(m, vpn)
  <2> DEFINE At(c, id) == CASE id = "after-game" -> GameCloses(c)
                            [] id = "teams-only-no-vulnbox" -> VulnboxOpens(c)
                            [] OTHER -> _get_game_start_time(c)
             h == [id |-> g.id, at |-> At(m', g.id)]
  <2>1. g.id \in {"off", "teams-only", "teams-only-no-vulnbox", "after-game"} /\ g.at = At(m, g.id)
    BY <1>2 DEF add_vpn_gates
  <2>2. \/ vpn = "off" /\ g.id = "off"
        \/ vpn \in {"team", "team-no-vulnbox"} /\ g.id = "teams-only"
        \/ vpn = "team-no-vulnbox" /\ g.id = "teams-only-no-vulnbox"
        \/ vpn = "on" /\ g.id = "after-game" /\ g.at # None
    <3> HIDE DEF At
    <3> QED
      BY <1>2 DEF add_vpn_gates
  <2>3. h.id = g.id /\ h.at >= g.at /\ (Punctual => h.at = g.at)
    BY <2>1 DEF Kept
  <2>4. g.id = "after-game" => h.at # None
    BY <2>1
  <2>5. h \in add_vpn_gates(m', vpn)
    <3> HIDE DEF Kept
    <3>1. /\ g.id = "off" => h = [id |-> "off", at |-> _get_game_start_time(m')]
          /\ g.id = "teams-only" => h = [id |-> "teams-only", at |-> _get_game_start_time(m')]
          /\ g.id = "teams-only-no-vulnbox" => h = [id |-> "teams-only-no-vulnbox", at |-> VulnboxOpens(m')]
          /\ g.id = "after-game" => h = [id |-> "after-game", at |-> GameCloses(m')]
      OBVIOUS
    <3> QED
      BY <2>1, <2>2, <2>4, <3>1 DEF add_vpn_gates
  <2> QED
    BY <2>3, <2>5 DEF Gates
<1> QED
  BY <1>1, <1>2 DEF Gates

(* The forecasts are instants.                                              *)
LEMMA ForecastTypes ==
  ASSUME TypeOK, NEW c \in Timer
  PROVE  _get_game_start_time(c) \in Nat /\ VulnboxOpens(c) \in Nat
BY TimerFields DEF TypeOK, _get_game_start_time, VulnboxOpens, None

(* So is the end of a tick.                                                 *)
LEMMA EndOfTickType ==
  ASSUME TypeOK, NEW c \in Timer, NEW n \in Nat
  PROVE  _get_end_of_tick(c, n) \in Int
BY TimerFields, ForecastTypes DEF _get_end_of_tick, None

(* One tick more is one duration more.                                      *)
LEMMA OneTickMore ==
  ASSUME NEW a \in Int, NEW b \in Int, NEW d \in Int
  PROVE  d + (a + 1 - b) * d = (a + 2 - b) * d /\ d + (a - (b + 1)) * d = (a - b) * d
OBVIOUS

(* If the master goes from tick n to n + 1 at the instant x or, being late, *)
(* at start, the end of every later tick moves by start - x.                *)
LEMMA ForecastMoves ==
  ASSUME TypeOK, m' \in Timer, m'.state = "RUNNING", m'.tick = m.tick + 1, m'.time = m.time,
         NEW x \in Nat, NEW start \in Nat, x # None, start >= x, x <= now,
         Punctual => start = x, m'.end = start + m.time,
         \A n \in Nat : _get_end_of_tick(m, n) # None =>
           n >= m.tick /\ _get_end_of_tick(m, n) = x + (n - m.tick) * m.time,
         NEW n \in Nat
  PROVE  Kept(_get_end_of_tick(m, n), _get_end_of_tick(m', n))
<1> SUFFICES ASSUME _get_end_of_tick(m, n) > now
             PROVE  /\ _get_end_of_tick(m', n) >= _get_end_of_tick(m, n)
                    /\ Punctual => _get_end_of_tick(m', n) = _get_end_of_tick(m, n)
  BY DEF Kept
<1>1. m.tick \in Nat /\ m.time \in Nat /\ now \in Nat
  BY TimerFields DEF TypeOK
<1>2. n >= m.tick /\ _get_end_of_tick(m, n) = x + (n - m.tick) * m.time
  BY <1>1 DEF None
<1>3. n # m.tick
  <2> SUFFICES ASSUME n = m.tick PROVE FALSE
    OBVIOUS
  <2>1. (n - m.tick) * m.time = 0
    BY <1>1
  <2> QED
    BY <1>1, <1>2, <2>1
<1>4. n >= m'.tick /\ n # None /\ m'.end # None
  BY <1>1, <1>2, <1>3 DEF None
<1>5. _get_end_of_tick(m', n) = m'.end + (n - m'.tick) * m'.time
  BY <1>4 DEF _get_end_of_tick
<1>6. m.time + (n - (m.tick + 1)) * m.time = (n - m.tick) * m.time
  BY <1>1, OneTickMore
<1>7. (n - (m.tick + 1)) * m.time \in Int /\ (n - m.tick) * m.time \in Int
  BY <1>1
<1>8. _get_end_of_tick(m', n) = start + (n - m.tick) * m.time
  BY <1>1, <1>5, <1>6, <1>7
<1> QED
  BY <1>2, <1>7, <1>8

(* The end of the game is forecast from the last tick until that tick       *)
(* begins, and from the desired state from then on.                         *)
LEMMA ClosingMoves ==
  ASSUME TypeOK, NEW c \in Timer, c.state = "RUNNING", c.desired = "RUNNING", c.stopAfter = m.stopAfter,
         m' = IF IsLastTick(c) THEN [c EXCEPT !.desired = "STOPPED", !.stopAfter = None] ELSE c,
         GameCloses(m) = _get_end_of_tick(m, m.stopAfter),
         \A n \in Nat : Kept(_get_end_of_tick(m, n), _get_end_of_tick(m', n))
  PROVE  Kept(GameCloses(m), GameCloses(m')) /\ (GameCloses(m) > now => GameCloses(m') # None)
<1> SUFFICES ASSUME GameCloses(m) > now
             PROVE  GameCloses(m') = _get_end_of_tick(m', m.stopAfter) /\ GameCloses(m') # None
  BY TimerFields DEF Kept, TypeOK
<1>1. m.stopAfter \in Nat /\ now \in Nat /\ _get_end_of_tick(m, m.stopAfter) \in Int
  BY TimerFields, EndOfTickType DEF TypeOK
<1>2. m' \in Timer /\ m'.state = "RUNNING" /\ m'.tick = c.tick
  <2>1. m' \in Timer
    BY LastTickType
  <2>2. m'.state = c.state /\ m'.tick = c.tick
    BY DEF Timer
  <2> QED
    BY <2>1, <2>2
<1>3. _get_end_of_tick(m', m.stopAfter) \in Int
  BY <1>1, <1>2, EndOfTickType
<1>4. _get_end_of_tick(m', m.stopAfter) # None
  <2>1. _get_end_of_tick(m', m.stopAfter) >= _get_end_of_tick(m, m.stopAfter)
    BY <1>1 DEF Kept
  <2> QED
    BY <1>1, <1>3, <2>1 DEF None
<1>5. CASE IsLastTick(c)
  <2>1. m.stopAfter = m'.tick /\ m.stopAfter # None
    BY <1>2, <1>5 DEF IsLastTick
  <2>2. m'.desired = "STOPPED"
    BY <1>5 DEF Timer
  <2>3. m'.end # None /\ m.stopAfter >= m'.tick
    BY <1>1, <1>2, <1>4, <2>1 DEF _get_end_of_tick
  <2>4. GameCloses(m') = m'.end
    BY <1>2, <2>2, <2>3 DEF GameCloses
  <2>5. (m.stopAfter - m'.tick) * m'.time = 0 /\ m'.end \in Nat
    BY <1>1, <1>2, <2>1, TimerFields
  <2>6. _get_end_of_tick(m', m.stopAfter) = m'.end + (m.stopAfter - m'.tick) * m'.time
    BY <1>2, <2>1, <2>3 DEF _get_end_of_tick
  <2> QED
    BY <2>3, <2>4, <2>5, <2>6
<1>6. CASE ~IsLastTick(c)
  <2>1. m'.desired = "RUNNING" /\ m'.stopAfter = m.stopAfter
    BY <1>6
  <2> QED
    BY <1>4, <2>1 DEF GameCloses
<1> QED
  BY <1>5, <1>6

(* The next tick: what was forecast for tick n + 1 and later still holds.   *)
LEMMA NextTickKeepsGates ==
  ASSUME TypeOK, TickInv, TPast, NextTick, OfItself
  PROVE  KeepsGates
<1> DEFINE start == IF t > m.end + 1 THEN t ELSE m.end
           c == [m EXCEPT !.tick = m.tick + 1, !.start = start, !.end = start + m.time]
<1>1. m \in Timer /\ start \in Nat /\ m.tick + 1 \in Nat /\ start + m.time \in Nat /\ now \in Nat /\ t \in Nat
  BY SMTT(60), TimerFields DEF TypeOK
<1>2. c \in Timer
  BY <1>1, NewTickType
<1>3. m.state = "RUNNING" /\ m.desired = "RUNNING" /\ pc = "ended" /\ m.end <= t /\ t <= now
  BY DEF NextTick, OfItself, TickInv, Located, TPast
<1>4. m' = IF IsLastTick(c) THEN [c EXCEPT !.desired = "STOPPED", !.stopAfter = None] ELSE c
  BY DEF NextTick, on_start_tick
<1>5. /\ m' \in Timer /\ m'.state = "RUNNING" /\ m'.tick = m.tick + 1 /\ m'.time = m.time
      /\ m'.end = start + m.time /\ m'.startAt = m.startAt /\ m'.openAt = m.openAt
  <2>1. m' \in Timer
    BY <1>2, <1>4, LastTickType
  <2>2. /\ c.state = "RUNNING" /\ c.tick = m.tick + 1 /\ c.time = m.time
        /\ c.end = start + m.time /\ c.startAt = m.startAt /\ c.openAt = m.openAt
    BY <1>1, <1>3 DEF Timer
  <2>3. \A f \in {"state", "tick", "time", "end", "startAt", "openAt"} : m'[f] = c[f]
    <3> HIDE DEF c
    <3> QED
      BY <1>2, <1>4 DEF Timer
  <2> HIDE DEF c
  <2> QED
    BY <2>1, <2>2, <2>3
<1>6. Kept(_get_game_start_time(m), _get_game_start_time(m')) /\ Kept(VulnboxOpens(m), VulnboxOpens(m'))
  <2>1. _get_game_start_time(m') = _get_game_start_time(m)
    BY <1>3, <1>5 DEF _get_game_start_time
  <2>2. VulnboxOpens(m') = VulnboxOpens(m)
    BY <1>5, <2>1 DEF VulnboxOpens
  <2> QED
    BY <1>1, <2>1, <2>2, ForecastTypes DEF Kept
<1>7. ASSUME NEW n \in Nat, _get_end_of_tick(m, n) # None
      PROVE  n >= m.tick /\ m.end # None /\ _get_end_of_tick(m, n) = m.end + (n - m.tick) * m.time
  BY <1>3, <1>7 DEF _get_end_of_tick
<1>8. Punctual => start = m.end
  BY <1>1, <1>3, TimerFields DEF Punctual
<1>9. ASSUME NEW n \in Nat PROVE Kept(_get_end_of_tick(m, n), _get_end_of_tick(m', n))
  <2>1. CASE _get_end_of_tick(m, n) = None
    BY <1>1, <2>1 DEF Kept, None
  <2>2. CASE _get_end_of_tick(m, n) # None
    <3>1. m.end \in Nat /\ m.end # None /\ start >= m.end /\ m.end <= now
      BY <1>1, <1>3, <1>7, <2>2, TimerFields
    <3> HIDE DEF start, c
    <3> QED
      BY <1>1, <1>5, <1>7, <1>8, <3>1, ForecastMoves
  <2> QED
    BY <2>1, <2>2
<1>10. c.state = "RUNNING" /\ c.desired = "RUNNING" /\ c.stopAfter = m.stopAfter
  BY <1>1, <1>3 DEF Timer
<1>11. GameCloses(m) = _get_end_of_tick(m, m.stopAfter)
  BY <1>3 DEF GameCloses
<1> HIDE DEF start, c
<1>12. Kept(GameCloses(m), GameCloses(m')) /\ (GameCloses(m) > now => GameCloses(m') # None)
  BY <1>2, <1>4, <1>9, <1>10, <1>11, ClosingMoves
<1> QED
  BY <1>6, <1>9, <1>12, FourForecasts

(* The game starts: what was counted from startAt still holds.              *)
LEMMA StartKeepsGates ==
  ASSUME TypeOK, TickInv, StartOnTime
  PROVE  KeepsGates
<1> DEFINE b == [m EXCEPT !.startAt = None]
           c == [b EXCEPT !.desired = "RUNNING", !.tick = b.tick + 1, !.start = now,
                          !.end = now + b.time, !.state = "RUNNING"]
<1>1. m \in Timer /\ now \in Nat /\ m.tick \in Nat /\ m.time \in Nat /\ m.startAt \in Nat /\ m.openAt \in Nat
  BY TimerFields DEF TypeOK
<1>2. b \in Timer /\ b.tick = m.tick /\ b.time = m.time /\ b.openAt = m.openAt /\ b.stopAfter = m.stopAfter /\ b.startAt = None
  BY <1>1, NatField DEF Timer, None
<1>3. c \in Timer
  <2> HIDE DEF b
  <2>1. b.tick + 1 \in Nat /\ now + b.time \in Nat
    BY <1>1, <1>2
  <2> QED
    BY <1>1, <1>2, <2>1, StartedType DEF CTFState
<1>4. /\ c.state = "RUNNING" /\ c.tick = m.tick + 1 /\ c.time = m.time /\ c.desired = "RUNNING"
      /\ c.end = now + m.time /\ c.startAt = None /\ c.openAt = m.openAt /\ c.stopAfter = m.stopAfter
  <2> HIDE DEF b
  <2> QED
    BY <1>1, <1>2 DEF Timer
<1>5. m' = IF IsLastTick(c) THEN [c EXCEPT !.desired = "STOPPED", !.stopAfter = None] ELSE c
  BY DEF StartOnTime, start_ctf, on_start_tick
<1>6. /\ m.state # "RUNNING" /\ m.startAt # None /\ m.startAt <= now /\ now <= m.startAt + 4
  BY DEF StartOnTime, Waiting, Due
<1> HIDE DEF b, c
<1>7. /\ m' \in Timer /\ m'.state = "RUNNING" /\ m'.tick = m.tick + 1 /\ m'.time = m.time
      /\ m'.end = now + m.time
  <2>1. m' \in Timer
    BY <1>3, <1>5, LastTickType
  <2>2. \A f \in {"state", "tick", "time", "end", "startAt", "openAt"} : m'[f] = c[f]
    BY <1>3, <1>5 DEF Timer
  <2> QED
    BY <1>4, <2>1, <2>2
<1>8. _get_game_start_time(m) = m.startAt
  BY <1>1, <1>6 DEF _get_game_start_time, _is_in_future
<1>9. Kept(_get_game_start_time(m), _get_game_start_time(m')) /\ Kept(VulnboxOpens(m), VulnboxOpens(m'))
  <2>1. VulnboxOpens(m) <= now
    BY <1>1, <1>6, <1>8 DEF VulnboxOpens
  <2> QED
    BY <1>1, <1>6, <1>8, <2>1, ForecastTypes DEF Kept
<1>10. ASSUME NEW n \in Nat, _get_end_of_tick(m, n) # None
       PROVE  n >= m.tick /\ _get_end_of_tick(m, n) = m.startAt + (n - m.tick) * m.time
  BY <1>6, <1>8, <1>10 DEF _get_end_of_tick
<1>11. Punctual => now = m.startAt
  BY <1>6 DEF Punctual
<1>12. ASSUME NEW n \in Nat PROVE Kept(_get_end_of_tick(m, n), _get_end_of_tick(m', n))
  BY <1>1, <1>6, <1>7, <1>10, <1>11, ForecastMoves
<1>13. GameCloses(m) = _get_end_of_tick(m, m.stopAfter)
  BY <1>6 DEF GameCloses
<1>14. Kept(GameCloses(m), GameCloses(m')) /\ (GameCloses(m) > now => GameCloses(m') # None)
  BY <1>3, <1>4, <1>5, <1>12, <1>13, ClosingMoves
<1> QED
  BY <1>9, <1>12, <1>14, FourForecasts

(* The vulnboxes open: the gate whose instant has come is the only one that *)
(* changes.                                                                 *)
LEMMA OpeningKeepsGates ==
  ASSUME TypeOK, OpenVulnboxOnTime
  PROVE  KeepsGates
<1>1. m \in Timer /\ now \in Nat /\ m.openAt \in Nat
  BY TimerFields DEF TypeOK
<1>2. m' = [m EXCEPT !.openAt = None] /\ m.openAt <= now
  BY DEF OpenVulnboxOnTime, Due
<1>3. /\ m'.state = m.state /\ m'.desired = m.desired /\ m'.tick = m.tick /\ m'.end = m.end
      /\ m'.time = m.time /\ m'.stopAfter = m.stopAfter /\ m'.startAt = m.startAt /\ m'.openAt = None
  BY <1>1, <1>2 DEF Timer
<1>4. _get_game_start_time(m') = _get_game_start_time(m)
  BY <1>3 DEF _get_game_start_time
<1>5. \A n : _get_end_of_tick(m', n) = _get_end_of_tick(m, n)
  BY <1>3, <1>4 DEF _get_end_of_tick
<1>6. GameCloses(m') = GameCloses(m)
  BY <1>3, <1>5 DEF GameCloses
<1>7. VulnboxOpens(m) > now => VulnboxOpens(m') = VulnboxOpens(m)
  BY <1>1, <1>2, <1>3, <1>4 DEF VulnboxOpens
<1>8. /\ Kept(_get_game_start_time(m), _get_game_start_time(m'))
      /\ Kept(VulnboxOpens(m), VulnboxOpens(m'))
  BY <1>1, <1>4, <1>7, ForecastTypes DEF Kept
<1> SUFFICES /\ \A n \in Nat : Kept(_get_end_of_tick(m, n), _get_end_of_tick(m', n))
             /\ Kept(GameCloses(m), GameCloses(m'))
             /\ GameCloses(m) > now => GameCloses(m') # None
  BY <1>8, FourForecasts
<1>9. \A n \in Nat : _get_end_of_tick(m, n) \in Int
  BY <1>1, EndOfTickType
<1>10. GameCloses(m) \in Int
  BY <1>1, <1>9, TimerFields DEF GameCloses
<1> QED
  BY <1>1, <1>5, <1>6, <1>9, <1>10 DEF Kept, None

(* A step that leaves the timer alone leaves the gates alone.               *)
LEMMA SameGates ==
  ASSUME TypeOK, m' = m
  PROVE  KeepsGates
<1>1. m \in Timer /\ now \in Nat
  BY DEF TypeOK
<1>2. \A n \in Nat : _get_end_of_tick(m, n) \in Int
  BY <1>1, EndOfTickType
<1>3. GameCloses(m) \in Int
  BY <1>1, <1>2, TimerFields DEF GameCloses
<1>4. /\ Kept(_get_game_start_time(m), _get_game_start_time(m'))
      /\ Kept(VulnboxOpens(m), VulnboxOpens(m')) /\ Kept(GameCloses(m), GameCloses(m'))
      /\ GameCloses(m) > now => GameCloses(m') # None
  BY <1>1, <1>3, ForecastTypes DEF Kept, None
<1>5. \A n \in Nat : Kept(_get_end_of_tick(m, n), _get_end_of_tick(m', n))
  BY <1>1, <1>2 DEF Kept
<1> QED
  BY <1>4, <1>5, FourForecasts

(* A step of the master alone keeps what a router was told.                 *)
LEMMA GatesStep == TypeOK /\ TickInv /\ TPast /\ [Next]_vars => [OfItself => KeepsGates]_vars
<1> SUFFICES ASSUME TypeOK, TickInv, TPast, Next, OfItself PROVE KeepsGates
  OBVIOUS
<1>1. pc' # pc /\ crashes' = crashes /\ pc \notin {"down", "init"} /\ crashes \in Nat
  BY DEF OfItself, TypeOK
<1>2. ~(MasterHears \/ SlaveHears \/ SlaveSets \/ SlavePublishes)
  BY <1>1 DEF MasterHears, SlaveHears, SlaveSets, SlavePublishes
<1>3. ~Administrator
  BY <1>1 DEF Administrator, set_state, set_tick_time, set_last_tick, set_start_at,
     set_open_vulnbox_access_at, Command
<1>4. ~Failure
  BY <1>1 DEF Failure, Crash, CrashInUpdate, Die
<1>5. ~StopAfterTick
  BY DEF StopAfterTick, OfItself, TickInv, Located
<1>6. ~StartOnCommand
  BY DEF StartOnCommand, OfItself
<1>7. CASE EndTick \/ NothingDue \/ on_update_times \/ Second
  BY <1>7, SameGates DEF EndTick, NothingDue, on_update_times, Second
<1> QED
  BY <1>1, <1>2, <1>3, <1>4, <1>5, <1>6, <1>7, NextTickKeepsGates, StartKeepsGates, OpeningKeepsGates
  DEF Next, MasterStep, init_from_redis, bind_to_redis

(* What the routers are told is kept: no step of the master alone, the      *)
(* start of the game and its last tick included, moves the instant of a     *)
(* gate forward, and none moves it at all if the master is punctual         *)
(* (ctfroute.py against check_time and on_start_tick).                      *)
THEOREM ForecastKept == Spec => ForecastHolds
<1>1. Init => TickInv /\ TPast
  BY DEF Init, Fresh, TickInv, NoTickSkipped, Sound, Located, Listening, EchoOnly,
     NoEarlySchedule, Unscheduled, TPast
<1>2. Spec => [][OfItself => KeepsGates]_vars
  BY <1>1, TickStep, TPastStep, GatesStep, TypeCorrect, PTL DEF Spec
<1> QED
  BY <1>2 DEF ForecastHolds, KeepsGates
=============================================================================
