----------------------------- MODULE TaskSpread -----------------------------
(***************************************************************************)
(* DelayingCeleryDispatcher._dispatch: the checker runs of a tick are      *)
(* spread over the tick.  A delay is a fraction, kept as the pair          *)
(* <<factor * seen, count>>.  Times are counted from the tick's start.     *)
(***************************************************************************)
EXTENDS Integers, Sequences, FiniteSets

CONSTANTS
  Services,   (* services with timeout (checker_timeout) and sub           *)
              (* (checker_subprocess)                                      *)
  Ends,       (* lengths of the tick that are tried                        *)
  MaxTasks    (* bound: checker runs of one dispatch                       *)

VARIABLES
  spread,     (* phase, or how the tasks are given to Celery               *)
  order,      (* services of the shuffled combinations                     *)
  clock,      (* tick of the combinations (or None if there are several),  *)
              (* Timer.current_tick, tick_end and now                      *)
  tasks       (* tasks built so far: service and delay                     *)

svars == <<spread, order, clock, tasks>>

Several == 99
MaxDelay == 900
TypeOK == /\ order \in Seq(Services) /\ Len(tasks) <= Len(order)
          /\ spread \in {"shuffle", "plain", "delayed", "done"}

(* The combinations: those of the running tick, or a test of the panel.    *)
Init ==
  /\ spread = "shuffle" /\ order = <<>> /\ tasks = <<>>
  /\ clock \in [tick: {-1, 1, Several}, current: {1, 2}, end: Ends, now: {0, 1, 8}]

Combine(service) ==
  /\ spread = "shuffle" /\ Len(order) < MaxTasks
  /\ order' = Append(order, service)
  /\ UNCHANGED <<spread, clock, tasks>>

(* Only the running tick is spread, and only if it ends soon.              *)
IsSpread == /\ clock.tick # Several /\ clock.tick >= 0
            /\ clock.tick = clock.current /\ 0 <= clock.now /\ clock.now < clock.end
            /\ clock.end - clock.now < MaxDelay
Dispatch ==
  /\ spread = "shuffle" /\ order # <<>>
  /\ spread' = IF IsSpread THEN "delayed" ELSE "plain"
  /\ UNCHANGED <<order, clock, tasks>>

(* Mutant: the time a checker may need is forgotten.                       *)
FactorFull(service) == clock.end - (IF service.sub THEN 15 ELSE 10)

Factor(service) == clock.end - service.timeout - (IF service.sub THEN 15 ELSE 10)

Count(service, q) == Cardinality({i \in 1..Len(q) : q[i] = service})
Delay(service, i) ==
  LET n == Count(service, order)
      d == Factor(service) * Count(service, SubSeq(order, 1, i - 1))
  IN IF d < 3 * n THEN <<0, n>> ELSE <<d, n>>

Task ==
  /\ spread \in {"plain", "delayed"} /\ Len(tasks) < Len(order)
  /\ LET i == Len(tasks) + 1
     IN tasks' = Append(tasks, [service |-> order[i],
                                delay |-> IF spread = "plain" THEN <<0, 1>> ELSE Delay(order[i], i)])
  /\ UNCHANGED <<spread, order, clock>>

Apply ==
  /\ spread \in {"plain", "delayed"} /\ Len(tasks) = Len(order)
  /\ spread' = "done"
  /\ UNCHANGED <<order, clock, tasks>>

Next == (\E v \in Services : Combine(v)) \/ Dispatch \/ Task \/ Apply
Spec == Init /\ [][Next]_svars

-----------------------------------------------------------------------------
(* A checker run that is delayed still has its whole timeout, and ten      *)
(* seconds more, before the tick ends; runs of a service start in their    *)
(* order, and two of them at the same time only at its beginning           *)
(* (_dispatch).                                                            *)
SpreadFits ==
  \A i \in 1..Len(tasks) :
    LET x == tasks[i].service  d == tasks[i].delay IN
      /\ d[1] > 0 => d[1] + d[2] * (x.timeout + 10) <= d[2] * clock.end
      /\ d[1] >= 0
      /\ \A j \in 1..(i - 1) : tasks[j].service = x =>
           tasks[j].delay[1] <= d[1] /\ (tasks[j].delay[1] = d[1] => d[1] = 0)
=============================================================================
