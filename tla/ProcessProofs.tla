--------------------------- MODULE ProcessProofs ----------------------------
(* Theorems about the processes beside the game that run for long or side   *)
(* by side, for every value of their constants: one run of an Eno checker,  *)
(* uploads and loaders of checker packages, wireguard-sync, and the traffic *)
(* counter.  Each is proved of the component by itself, under the names its *)
(* module has for the variables, and holds in Tools because a behaviour is  *)
(* one of a single component.                                               *)
EXTENDS Tools, FoldTheorems, TLAPS

(* The component of a behaviour does not change.                            *)
LEMMA OneComponent == [Next]_tools => component' = component
BY DEF Next, tools, Keep5, Keep8, Keep11, Keep12

-----------------------------------------------------------------------------
(* The Eno checker runner, for every job and any number of requests.       *)

(* The names of its variables.                                             *)
eno == v1
job == v2
slot == v3
begins == v4
state == v5
clock == v6
slow == v7
early == v8
status == v9
messages == v10
recovery == v11
data == v12
USE DEF eno, job, slot, begins, state, clock, slow, early, status, messages,
        recovery, data

-----------------------------------------------------------------------------
(* The verdict.                                                            *)

(* An answer r was given to a request for this tick, or for a past one.    *)
Now(r) == \E x \in DOMAIN state : state[x] = r /\ Eno!Current(x)
Then(r) == \E x \in DOMAIN state : state[x] = r /\ ~Eno!Current(x)
Either(r) == Now(r) \/ Then(r)
Broken == Either("ERROR") \/ Either("TIMEOUT")

(* What the status says about the answers that have come so far.           *)
StatusInv ==
  /\ status \in {"SUCCESS", "RECOVERING", "MUMBLE", "OFFLINE", "CRASHED", "TIMEOUT"}
  /\ status = "SUCCESS" <=> ~Broken /\ ~Either("MUMBLE") /\ ~Either("OFFLINE")
  /\ status \in {"CRASHED", "TIMEOUT"} <=> Broken
  /\ status = "RECOVERING" <=>
       /\ ~Broken /\ ~Now("MUMBLE") /\ ~Now("OFFLINE")
       /\ Then("MUMBLE") \/ Then("OFFLINE")
  /\ status = "MUMBLE" => Now("MUMBLE") /\ ~Now("OFFLINE")
  /\ status = "OFFLINE" => Now("OFFLINE") \/ (Now("MUMBLE") /\ Then("OFFLINE"))

(* Messages of this tick come with a failure in this tick.                 *)
MessageInv ==
  /\ status \in {"SUCCESS", "RECOVERING"} => messages = <<>>
  /\ status \in {"MUMBLE", "OFFLINE"} => messages # <<>>
  /\ status = "RECOVERING" => recovery # <<>>

(* There is a request for this tick; at the end all are answered.          *)
RunInv ==
  /\ eno \in {"idle", "swap", "run", "failed", "done"}
  /\ job \in Jobs
  /\ eno \in {"idle", "swap"} => status = "SUCCESS"
  /\ eno \notin {"run", "done"} => state = <<>>
  /\ eno = "swap" => Eno!Constrained(job) # 0
  /\ eno \in {"run", "done"} => \E x \in DOMAIN state : Eno!Current(x)
  /\ \A x \in DOMAIN state : state[x] \in Eno!Results \cup {"wait", "run"}
  /\ eno = "done" => \A x \in DOMAIN state : state[x] \in Eno!Results

VerdictInv == RunInv /\ StatusInv /\ MessageInv

(* The initial states have it.                                             *)
LEMMA VerdictInit == Eno!Init => VerdictInv
<1> SUFFICES ASSUME Eno!Init PROVE VerdictInv
  OBVIOUS
<1>1. state = <<>> /\ DOMAIN state = {}
  BY DEF Eno!Init
<1> QED
  BY <1>1 DEF Eno!Init, VerdictInv, RunInv, StatusInv, MessageInv, Now, Then, Either, Broken

(* A job with a flag or a noise has a request for its tick.                *)
LEMMA SomethingNow ==
  ASSUME JobsAreJobs, job \in Jobs, Eno!Constrained(job) # 0
  PROVE  \E x \in Eno!Requests(job) : Eno!Current(x)
<1>0. job \in [tick: Nat, len: Nat, flag: Nat, noise: Nat, havoc: Nat]
  BY DEF JobsAreJobs
<1>1. CASE job.flag # 0
  <2> DEFINE x == [method |-> "putflag", variant |-> 1, of |-> job.tick]
  <2>1. 1 \in 1..job.flag
    BY <1>0, <1>1
  <2>2. x \in Eno!Requests(job)
    BY <2>1 DEF Eno!Requests, Eno!Pairs
  <2> QED
    BY <2>2 DEF Eno!Current
<1>2. CASE job.noise # 0
  <2> DEFINE x == [method |-> "putnoise", variant |-> 1, of |-> job.tick]
  <2>1. 1 \in 1..job.noise
    BY <1>0, <1>2
  <2>2. x \in Eno!Requests(job)
    BY <2>1 DEF Eno!Requests, Eno!Pairs
  <2> QED
    BY <2>2 DEF Eno!Current
<1> QED
  BY <1>0, <1>1, <1>2 DEF Eno!Constrained

(* Requests that are not answered do not count.                            *)
LEMMA Unanswered ==
  ASSUME UNCHANGED job, DOMAIN state' = DOMAIN state,
         \A x \in DOMAIN state : state'[x] = state[x] \/ ({state[x], state'[x]} \cap Eno!Results = {})
  PROVE  /\ \A r \in Eno!Results : Now(r)' <=> Now(r)
         /\ \A r \in Eno!Results : Then(r)' <=> Then(r)
  BY DEF Now, Then, Eno!Current

(* An answer counts from the moment it comes.                              *)
LEMMA Answered ==
  ASSUME NEW x, NEW r \in Eno!Results, Eno!Answer(x, r)
  PROVE  /\ \A q \in Eno!Results : Now(q)' <=> Now(q) \/ (q = r /\ Eno!Current(x))
         /\ \A q \in Eno!Results : Then(q)' <=> Then(q) \/ (q = r /\ ~Eno!Current(x))
<1>1. x \in DOMAIN state /\ state[x] = "run" /\ state' = [state EXCEPT ![x] = r] /\ job' = job
  BY DEF Eno!Answer, Eno!Running
<1>2. DOMAIN state' = DOMAIN state /\ state'[x] = r /\ \A y \in DOMAIN state : y # x => state'[y] = state[y]
  BY <1>1
<1>3. "run" \notin Eno!Results
  BY DEF Eno!Results
<1> QED
  BY <1>1, <1>2, <1>3 DEF Now, Then, Eno!Current

(* A chain that has a message keeps one.                                   *)
LEMMA Written ==
  ASSUME NEW ms, NEW x, NEW r, ms # <<>> \/ Eno!chain(x) \notin DOMAIN ms
  PROVE  Eno!Write(ms, x, r) # <<>>
<1>1. CASE r = "OFFLINE" \/ Eno!chain(x) \notin DOMAIN ms
  <2>1. Eno!chain(x) \in DOMAIN Eno!Write(ms, x, r)
    BY <1>1 DEF Eno!Write
  <2>2. DOMAIN <<>> = {}
    OBVIOUS
  <2> QED
    BY <2>1, <2>2
<1>2. CASE ~(r = "OFFLINE" \/ Eno!chain(x) \notin DOMAIN ms)
  BY <1>2 DEF Eno!Write
<1> QED
  BY <1>1, <1>2

(* The status after an answer is right about it and those before it.       *)
LEMMA AnswerStatus ==
  ASSUME VerdictInv, NEW x, NEW r \in Eno!Results, Eno!Answer(x, r)
  PROVE  StatusInv'
<1>1. \A q \in Eno!Results : (Now(q)' <=> Now(q) \/ (q = r /\ Eno!Current(x))) /\ (Then(q)' <=> Then(q) \/ (q = r /\ ~Eno!Current(x)))
  BY Answered
<1>2. status' = Eno!Status(status, x, r)
  BY DEF Eno!Answer
<1> DEFINE n(q) == Now(q) \/ (q = r /\ Eno!Current(x))
           t(q) == Then(q) \/ (q = r /\ ~Eno!Current(x))
<1>3. /\ Now("OK")' = n("OK") /\ Now("MUMBLE")' = n("MUMBLE") /\ Now("OFFLINE")' = n("OFFLINE")
      /\ Now("ERROR")' = n("ERROR") /\ Now("TIMEOUT")' = n("TIMEOUT")
      /\ Then("OK")' = t("OK") /\ Then("MUMBLE")' = t("MUMBLE") /\ Then("OFFLINE")' = t("OFFLINE")
      /\ Then("ERROR")' = t("ERROR") /\ Then("TIMEOUT")' = t("TIMEOUT")
  BY <1>1 DEF Eno!Results, Now, Then
<1>4. CASE r = "OK"
  BY <1>2, <1>3, <1>4 DEF VerdictInv, StatusInv, Eno!Status, Either, Broken
<1>5. CASE r = "MUMBLE"
  BY <1>2, <1>3, <1>5 DEF VerdictInv, StatusInv, Eno!Status, Either, Broken
<1>6. CASE r = "OFFLINE"
  BY <1>2, <1>3, <1>6 DEF VerdictInv, StatusInv, Eno!Status, Either, Broken
<1>7. CASE r \in {"ERROR", "TIMEOUT"}
  BY <1>2, <1>3, <1>7 DEF VerdictInv, StatusInv, Eno!Status, Either, Broken
<1> QED
  BY <1>4, <1>5, <1>6, <1>7 DEF Eno!Results

(* So are the messages.                                                    *)
LEMMA AnswerMessages ==
  ASSUME VerdictInv, NEW x, NEW r \in Eno!Results, Eno!Answer(x, r)
  PROVE  MessageInv'
<1>1. /\ status' = Eno!Status(status, x, r)
      /\ messages' = IF r \notin {"OK", "ERROR"} /\ Eno!Current(x) THEN Eno!Write(messages, x, r) ELSE messages
      /\ recovery' = IF r \notin {"OK", "ERROR"} /\ ~Eno!Current(x) THEN Eno!Write(recovery, x, r) ELSE recovery
  BY DEF Eno!Answer
<1>2. \A ms : ms # <<>> \/ Eno!chain(x) \notin DOMAIN ms => Eno!Write(ms, x, r) # <<>>
  BY Written
<1>3. DOMAIN <<>> = {}
  OBVIOUS
<1>4. Eno!Write(messages, x, r) # <<>> /\ Eno!Write(recovery, x, r) # <<>>
  BY <1>2, <1>3
<1>5. CASE r = "OK"
  BY <1>1, <1>5 DEF VerdictInv, StatusInv, MessageInv, Eno!Status
<1>6. CASE r = "MUMBLE"
  BY <1>1, <1>4, <1>6 DEF VerdictInv, StatusInv, MessageInv, Eno!Status
<1>7. CASE r = "OFFLINE"
  BY <1>1, <1>4, <1>7 DEF VerdictInv, StatusInv, MessageInv, Eno!Status
<1>8. CASE r \in {"ERROR", "TIMEOUT"}
  BY <1>1, <1>8 DEF VerdictInv, StatusInv, MessageInv, Eno!Status
<1> QED
  BY <1>5, <1>6, <1>7, <1>8 DEF Eno!Results

(* A plan has requests that wait, one of them for this tick.               *)
LEMMA PlanStep ==
  ASSUME JobsAreJobs, VerdictInv, eno = "swap", NEW b, Eno!Plan(b)
  PROVE  VerdictInv'
<1>1. /\ eno' = "run" /\ job' = job /\ state' = [x \in Eno!Requests(job) |-> "wait"]
      /\ status' = status /\ messages' = messages /\ recovery' = recovery
  BY DEF Eno!Plan
<1>2. \E x \in Eno!Requests(job) : Eno!Current(x)
  BY SomethingNow DEF VerdictInv, RunInv
<1>3. status = "SUCCESS" /\ messages = <<>> /\ job \in Jobs
  BY DEF VerdictInv, RunInv, MessageInv
<1>4. RunInv'
  BY <1>1, <1>2, <1>3 DEF RunInv, Eno!Current
<1>5. \A r \in Eno!Results : ~Now(r)' /\ ~Then(r)'
  BY <1>1 DEF Eno!Results, Now, Then
<1>6. StatusInv' /\ MessageInv'
  BY <1>1, <1>3, <1>5 DEF StatusInv, MessageInv, Eno!Results, Either, Broken
<1> QED
  BY <1>4, <1>6 DEF VerdictInv

(* Nothing counts that did not change.                                     *)
LEMMA VerdictSame ==
  ASSUME StatusInv, MessageInv, UNCHANGED <<job, status, messages, recovery>>, DOMAIN state' = DOMAIN state,
         \A x \in DOMAIN state : state'[x] = state[x] \/ ({state[x], state'[x]} \cap Eno!Results = {})
  PROVE  StatusInv' /\ MessageInv'
<1>1. \A r \in Eno!Results : (Now(r)' <=> Now(r)) /\ (Then(r)' <=> Then(r))
  BY Unanswered
<1>2. /\ Now("MUMBLE")' = Now("MUMBLE") /\ Now("OFFLINE")' = Now("OFFLINE")
      /\ Now("ERROR")' = Now("ERROR") /\ Now("TIMEOUT")' = Now("TIMEOUT")
      /\ Then("MUMBLE")' = Then("MUMBLE") /\ Then("OFFLINE")' = Then("OFFLINE")
      /\ Then("ERROR")' = Then("ERROR") /\ Then("TIMEOUT")' = Then("TIMEOUT")
  BY <1>1 DEF Eno!Results, Now, Then
<1> QED
  BY <1>2 DEF StatusInv, MessageInv, Either, Broken

(* Every step keeps the invariant.                                         *)
LEMMA VerdictStep ==
  ASSUME JobsAreJobs, VerdictInv, [Eno!Next]_(Eno!evars)
  PROVE  VerdictInv'
<1> USE DEF VerdictInv
<1>1. CASE Eno!Begin \/ Eno!NoInfo
  <2>1. UNCHANGED <<job, status, messages, recovery, state>> /\ eno' \in {"swap", "failed"} /\ eno = "idle"
        /\ (eno' = "swap" => Eno!Constrained(job) # 0)
    BY <1>1 DEF Eno!Begin, Eno!NoInfo
  <2>2. RunInv'
    BY <2>1 DEF RunInv, Eno!Constrained
  <2> QED
    BY <2>1, <2>2, VerdictSame
<1>2. CASE Eno!PlanFlat
  <2>1. PICK b : Eno!Plan(b)
    BY <1>2 DEF Eno!PlanFlat
  <2> QED
    BY <1>2, <2>1, PlanStep DEF Eno!PlanFlat
<1>3. CASE Eno!PlanFallback
  <2>1. PICK b : Eno!Plan(b)
    BY <1>3 DEF Eno!PlanFallback
  <2> QED
    BY <1>3, <2>1, PlanStep DEF Eno!PlanFallback
<1>4. CASE Eno!Finish
  <2>1. /\ UNCHANGED <<job, status, messages, recovery, state>> /\ eno' = "done" /\ eno = "run"
        /\ \A x \in DOMAIN state : state[x] \notin {"wait", "run"}
    BY <1>4 DEF Eno!Finish, Eno!Waiting, Eno!Running
  <2>2. RunInv'
    BY <2>1 DEF RunInv, Eno!Current
  <2> QED
    BY <2>1, <2>2, VerdictSame
<1>5. CASE eno = "swap" /\ slot # <<>> /\ \E n \in 1..Eno!Constrained(job), f \in Eno!Entries(job) : Eno!Swap(n, f)
  <2>1. UNCHANGED <<eno, job, status, messages, recovery, state>>
    BY <1>5 DEF Eno!Swap
  <2>2. RunInv'
    BY <2>1 DEF RunInv, Eno!Constrained, Eno!Current
  <2> QED
    BY <2>1, <2>2, VerdictSame
<1>6. ASSUME NEW x \in DOMAIN state, Eno!Start(x) PROVE VerdictInv'
  <2>1. /\ UNCHANGED <<eno, job, status, messages, recovery>> /\ eno = "run" /\ state[x] = "wait"
        /\ state' = [state EXCEPT ![x] = "run"]
    BY <1>6 DEF Eno!Start, Eno!Waiting
  <2>2. RunInv'
    BY <2>1 DEF RunInv, Eno!Current
  <2>3. \A y \in DOMAIN state : state'[y] = state[y] \/ ({state[y], state'[y]} \cap Eno!Results = {})
    BY <2>1 DEF Eno!Results
  <2> QED
    BY <2>1, <2>2, <2>3, VerdictSame
<1>7. ASSUME NEW x \in DOMAIN state, NEW r \in Eno!Results, Eno!Answer(x, r) PROVE VerdictInv'
  <2>1. UNCHANGED <<eno, job>> /\ eno = "run" /\ state' = [state EXCEPT ![x] = r]
    BY <1>7 DEF Eno!Answer
  <2>2. RunInv'
    BY <2>1 DEF RunInv, Eno!Current
  <2>3. VerdictInv
    OBVIOUS
  <2> QED
    BY <1>7, <2>2, <2>3, AnswerStatus, AnswerMessages
<1>8. CASE UNCHANGED Eno!evars
  <2>1. UNCHANGED <<eno, job, status, messages, recovery, state>>
    BY <1>8 DEF Eno!evars
  <2>2. RunInv'
    BY <2>1 DEF RunInv, Eno!Constrained, Eno!Current
  <2> QED
    BY <2>1, <2>2, VerdictSame
<1> QED
  BY <1>1, <1>2, <1>3, <1>4, <1>5, <1>6, <1>7, <1>8 DEF Eno!Next

(* At the end the invariant is the verdict.                                *)
LEMMA VerdictFollows == VerdictInv => Eno!Verdict
<1> SUFFICES ASSUME VerdictInv, eno = "done" PROVE Eno!Verdict
  BY DEF Eno!Verdict
<1> DEFINE now == Eno!Res(TRUE)
           then == Eno!Res(FALSE)
           all == now \cup then
<1>1. \A r : (r \in now <=> Now(r)) /\ (r \in then <=> Then(r))
  BY DEF Eno!Res, Now, Then, Eno!Current
<1>2. \A r \in all : r \in Eno!Results
  BY DEF VerdictInv, RunInv, Eno!Res
<1>3. \E r : r \in now
  BY DEF VerdictInv, RunInv, Eno!Res, Eno!Current
<1> HIDE DEF now, then
<1>4. now = {"OK"} <=> ~Now("MUMBLE") /\ ~Now("OFFLINE") /\ ~Now("ERROR") /\ ~Now("TIMEOUT")
  BY <1>1, <1>2, <1>3 DEF Eno!Results
<1>5. all = {"OK"} <=> ~Broken /\ ~Either("MUMBLE") /\ ~Either("OFFLINE")
  BY <1>1, <1>2, <1>3 DEF Eno!Results, Broken, Either
<1>6. all \cap {"ERROR", "TIMEOUT"} # {} <=> Broken
  BY <1>1 DEF Broken, Either
<1>7. then \cap {"MUMBLE", "OFFLINE"} # {} <=> Then("MUMBLE") \/ Then("OFFLINE")
  BY <1>1
<1>8. StatusInv /\ MessageInv
  BY DEF VerdictInv
<1>9. /\ status = "SUCCESS" <=> all = {"OK"}
      /\ status \in {"CRASHED", "TIMEOUT"} <=> all \cap {"ERROR", "TIMEOUT"} # {}
      /\ status = "RECOVERING" <=> now = {"OK"} /\ then \cap {"MUMBLE", "OFFLINE"} # {} /\ all \cap {"ERROR", "TIMEOUT"} = {}
      /\ status = "MUMBLE" => "MUMBLE" \in now /\ "OFFLINE" \notin now
      /\ status = "OFFLINE" => "OFFLINE" \in now \/ ("MUMBLE" \in now /\ "OFFLINE" \in then)
  <2> HIDE DEF all
  <2>1. Broken <=> Either("ERROR") \/ Either("TIMEOUT")
    BY DEF Broken
  <2> QED
    BY <1>1, <1>4, <1>5, <1>6, <1>7, <1>8, <2>1 DEF StatusInv, Either
<1>10. /\ status \in {"MUMBLE", "OFFLINE"} => Eno!Shown = messages /\ messages # <<>>
       /\ status = "RECOVERING" => Eno!Shown = recovery /\ recovery # <<>>
  BY <1>8 DEF MessageInv, Eno!Shown
<1> QED
  BY <1>9, <1>10 DEF Eno!Verdict, now, then

(* The component by itself.                                               *)
LEMMA VerdictAlone ==
  ASSUME JobsAreJobs
  PROVE  Eno!Spec => []Eno!Verdict
<1>1. VerdictInv /\ [Eno!Next]_(Eno!evars) => VerdictInv'
  BY VerdictStep
<1> QED
  BY <1>1, VerdictInit, VerdictFollows, PTL DEF Eno!Spec

-----------------------------------------------------------------------------
(* The time slots.                                                         *)

(* A pair of slots leaves the time of a request between put and get.       *)
SlotInv ==
  /\ eno \in {"idle", "swap", "run", "failed", "done"}
  /\ job \in Jobs
  /\ eno = "idle" => slot = <<>>
  /\ slot # <<>> =>
       /\ Eno!Constrained(job) # 0 /\ Eno!Fits(job)
       /\ slot \in [Eno!Entries(job) -> 0..(Eno!Total(job) - 1)]
       /\ \A n \in 1..Eno!Constrained(job) :
            Eno!_valid_clearance(job, slot[<<"early", n>>], slot[<<"late", n>>])

(* So do the starts of the requests, in whichever way they were planned.   *)
StartInv ==
  eno \in {"run", "done"} =>
    /\ DOMAIN begins = Eno!Requests(job) /\ DOMAIN state = Eno!Requests(job)
    /\ \A y \in Eno!Chains : begins[y] + Eno!TaskTimeout * Eno!Total(job) < begins[Eno!Get(y)]
    /\ slot # <<>> => \A x \in Eno!Requests(job) : begins[x] < Eno!LastStart(job) * Eno!Total(job)

TimeInv == SlotInv /\ StartInv /\ early \subseteq slow

(* The numbers of requests and the length of a tick are integers.          *)
LEMMA Numbers ==
  ASSUME JobsAreJobs, job \in Jobs
  PROVE  /\ Eno!Constrained(job) \in Nat /\ Eno!Unconstrained(job) \in Nat
         /\ Eno!Total(job) \in Nat /\ Eno!LastStart(job) \in Int
         /\ Eno!Total(job) = 2 * Eno!Constrained(job) + Eno!Unconstrained(job)
<1>1. job \in [tick: Nat, len: Nat, flag: Nat, noise: Nat, havoc: Nat] /\ check_past_ticks \in Nat
  BY DEF JobsAreJobs
<1>2. check_past_ticks * job.flag \in Nat
  BY <1>1
<1> QED
  BY <1>1, <1>2 DEF Eno!Constrained, Eno!Unconstrained, Eno!Total, Eno!LastStart, Eno!Length,
     Eno!TIME_BUFFER, Eno!TaskTimeout, Eno!DefaultTick

(* Slots that fit have a length.                                           *)
LEMMA Positive ==
  ASSUME JobsAreJobs, job \in Jobs, Eno!Constrained(job) # 0, Eno!Fits(job)
  PROVE  Eno!LastStart(job) > 0 /\ Eno!Total(job) > 0
<1>1. PICK L \in Int, T \in Nat, C \in Nat :
        L = Eno!LastStart(job) /\ T = Eno!Total(job) /\ C = Eno!Constrained(job) /\ T >= 2 * C /\ C >= 1
  BY Numbers
<1>2. (T - C) * L >= 3 * T + L
  <2>1. ((T - C) - 0) * L >= 3 * T + L
    BY <1>1 DEF Eno!Fits, Eno!_valid_clearance, Eno!TaskTimeout
  <2> QED
    BY <2>1
<1>3. T - C - 1 >= 0 /\ T > 0 /\ (T - C) * L = (T - C - 1) * L + L
  BY <1>1
<1>4. ASSUME L <= 0 PROVE FALSE
  <2>1. (T - C - 1) * L <= 0
    BY <1>3, <1>4
  <2> QED
    BY <1>2, <1>3, <2>1
<1> QED
  BY <1>1, <1>3, <1>4

(* No slot is clear of itself.                                             *)
LEMMA NotItself ==
  ASSUME JobsAreJobs, job \in Jobs, Eno!Constrained(job) # 0, Eno!Fits(job), NEW a \in Int
  PROVE  ~Eno!_valid_clearance(job, a, a)
<1>1. Eno!LastStart(job) \in Int /\ Eno!Total(job) \in Nat /\ Eno!LastStart(job) > 0
  BY Numbers, Positive
<1>2. (a - a) * Eno!LastStart(job) = 0
  BY <1>1
<1> QED
  BY <1>1, <1>2 DEF Eno!_valid_clearance, Eno!TaskTimeout

(* The first slots: early ones, free ones, late ones.                      *)
LEMMA FirstSlots ==
  ASSUME JobsAreJobs, job \in Jobs, Eno!Constrained(job) # 0, Eno!Fits(job)
  PROVE  /\ Eno!Offsets(job) \in [Eno!Entries(job) -> 0..(Eno!Total(job) - 1)]
         /\ \A n \in 1..Eno!Constrained(job) :
              Eno!_valid_clearance(job, Eno!Offsets(job)[<<"early", n>>], Eno!Offsets(job)[<<"late", n>>])
<1>1. PICK T \in Nat, C \in Nat, U \in Nat :
        T = Eno!Total(job) /\ C = Eno!Constrained(job) /\ U = Eno!Unconstrained(job) /\ T = 2 * C + U
  BY Numbers
<1>2. ASSUME NEW e \in Eno!Entries(job) PROVE Eno!FirstOf(job, e[1]) + e[2] - 1 \in 0..(T - 1)
  <2>1. CASE e \in {"early", "late"} \X (1..C)
    BY <1>1, <2>1 DEF Eno!FirstOf
  <2>2. CASE e \in {"free"} \X (1..U)
    BY <1>1, <2>2 DEF Eno!FirstOf
  <2> QED
    BY <1>1, <1>2, <2>1, <2>2 DEF Eno!Entries
<1>3. Eno!Offsets(job) \in [Eno!Entries(job) -> 0..(T - 1)]
  BY <1>2 DEF Eno!Offsets
<1>4. ASSUME NEW n \in 1..C
      PROVE  Eno!_valid_clearance(job, Eno!Offsets(job)[<<"early", n>>], Eno!Offsets(job)[<<"late", n>>])
  <2>1. <<"early", n>> \in Eno!Entries(job) /\ <<"late", n>> \in Eno!Entries(job)
    BY <1>1 DEF Eno!Entries
  <2>2. Eno!Offsets(job)[<<"early", n>>] = 0 + n - 1 /\ Eno!Offsets(job)[<<"late", n>>] = C + U + n - 1
    BY <1>1, <2>1 DEF Eno!Offsets, Eno!FirstOf
  <2>3. (C + U + n - 1) - (0 + n - 1) = (T - C) - 0
    BY <1>1
  <2>4. Eno!_valid_clearance(job, 0, T - C)
    BY <1>1 DEF Eno!Fits
  <2> QED
    BY <2>2, <2>3, <2>4 DEF Eno!_valid_clearance
<1> QED
  BY <1>1, <1>3, <1>4

(* A swap keeps put and get of every pair apart.                           *)
LEMMA SwapStep ==
  ASSUME JobsAreJobs, SlotInv, slot # <<>>, NEW n \in 1..Eno!Constrained(job), NEW f \in Eno!Entries(job), Eno!Swap(n, f)
  PROVE  /\ slot' \in [Eno!Entries(job) -> 0..(Eno!Total(job) - 1)]
         /\ \A k \in 1..Eno!Constrained(job) : Eno!_valid_clearance(job, slot'[<<"early", k>>], slot'[<<"late", k>>])
<1> DEFINE C == 1..Eno!Constrained(job)
           V == 0..(Eno!Total(job) - 1)
           ok(a, b) == Eno!_valid_clearance(job, a, b)
<1>1. /\ slot \in [Eno!Entries(job) -> V] /\ \A k \in C : ok(slot[<<"early", k>>], slot[<<"late", k>>])
      /\ job \in Jobs /\ Eno!Constrained(job) # 0 /\ Eno!Fits(job)
  BY DEF SlotInv
<1>2. \A a \in V : ~ok(a, a)
  BY <1>1, NotItself, Numbers
<1>3. \A k \in C : <<"early", k>> \in Eno!Entries(job) /\ <<"late", k>> \in Eno!Entries(job)
  BY DEF Eno!Entries
<1>4. /\ f[1] \in {"early", "late", "free"} /\ f = <<f[1], f[2]>>
      /\ f[1] # "free" => f[2] \in C
  BY DEF Eno!Entries
<1>5. CASE slot' = slot
  BY <1>1, <1>5
<1>6. ASSUME ok(slot[<<"early", n>>], slot[f]), slot' = Eno!Swapped(<<"late", n>>, f),
             \/ f[1] = "free"
             \/ f[1] = "early" /\ ok(slot[<<"late", n>>], slot[<<"late", f[2]>>])
             \/ f[1] = "late" /\ ok(slot[<<"early", f[2]>>], slot[<<"late", n>>])
      PROVE  slot' \in [Eno!Entries(job) -> V] /\ \A k \in C : ok(slot'[<<"early", k>>], slot'[<<"late", k>>])
  <2> DEFINE e == <<"late", n>>
  <2>1. /\ e \in Eno!Entries(job) /\ slot' \in [Eno!Entries(job) -> V] /\ slot'[f] = slot[e] /\ slot'[e] = slot[f]
        /\ \A g \in Eno!Entries(job) : g # e /\ g # f => slot'[g] = slot[g]
    <3>1. e \in Eno!Entries(job) /\ slot \in [Eno!Entries(job) -> V] /\ slot' = Eno!Swapped(e, f)
      BY <1>1, <1>3, <1>6
    <3> HIDE DEF e, V
    <3> QED
      BY <3>1 DEF Eno!Swapped
  <2> HIDE DEF ok, C, V
  <2>2. ASSUME NEW k \in C PROVE ok(slot'[<<"early", k>>], slot'[<<"late", k>>])
    <3>0. /\ <<"early", k>> \in Eno!Entries(job) /\ <<"late", k>> \in Eno!Entries(job) /\ <<"early", n>> \in Eno!Entries(job)
          /\ <<"early", k>> # e /\ (k # n => <<"late", k>> # e)
      BY <1>3, <2>2 DEF C
    <3>1. CASE f[1] = "free"
      <4>1. <<"early", k>> # f /\ <<"late", k>> # f
        BY <3>1
      <4> QED
        BY <1>1, <1>6, <2>1, <3>0, <4>1
    <3>2. CASE f[1] = "early"
      <4>1. <<"late", k>> # f /\ f = <<"early", f[2]>> /\ f[2] \in C
        BY <1>4, <3>2
      <4>2. ok(slot[<<"late", n>>], slot[<<"late", f[2]>>])
        BY <1>6, <3>2
      <4>3. f[2] # n
        <5>1. slot[<<"late", n>>] \in V
          BY <1>1, <2>1
        <5> QED
          BY <1>2, <4>2, <5>1
      <4>4. CASE k = n
        BY <1>6, <2>1, <3>0, <4>1, <4>3, <4>4
      <4>5. CASE k = f[2]
        BY <2>1, <3>0, <4>1, <4>2, <4>3, <4>5
      <4>6. CASE k # n /\ k # f[2]
        BY <1>1, <2>1, <3>0, <4>1, <4>6
      <4> QED
        BY <4>4, <4>5, <4>6
    <3>3. CASE f[1] = "late"
      <4>1. <<"early", k>> # f /\ f = <<"late", f[2]>> /\ f[2] \in C
        BY <1>4, <3>3
      <4>2. ok(slot[<<"early", f[2]>>], slot[<<"late", n>>])
        BY <1>6, <3>3
      <4>4. CASE k = n
        BY <1>6, <2>1, <3>0, <4>1, <4>4
      <4>5. CASE k = f[2]
        BY <2>1, <3>0, <4>1, <4>2, <4>5
      <4>6. CASE k # n /\ k # f[2]
        BY <1>1, <2>1, <3>0, <4>1, <4>6
      <4> QED
        BY <4>4, <4>5, <4>6
    <3> QED
      BY <1>4, <3>1, <3>2, <3>3
  <2> QED
    BY <2>1, <2>2
<1>7. ASSUME ok(slot[f], slot[<<"late", n>>]), slot' = Eno!Swapped(<<"early", n>>, f),
             \/ f[1] = "free"
             \/ f[1] = "early" /\ ok(slot[<<"early", n>>], slot[<<"late", f[2]>>])
             \/ f[1] = "late" /\ ok(slot[<<"early", f[2]>>], slot[<<"early", n>>])
      PROVE  slot' \in [Eno!Entries(job) -> V] /\ \A k \in C : ok(slot'[<<"early", k>>], slot'[<<"late", k>>])
  <2> DEFINE e == <<"early", n>>
  <2>1. /\ e \in Eno!Entries(job) /\ slot' \in [Eno!Entries(job) -> V] /\ slot'[f] = slot[e] /\ slot'[e] = slot[f]
        /\ \A g \in Eno!Entries(job) : g # e /\ g # f => slot'[g] = slot[g]
    <3>1. e \in Eno!Entries(job) /\ slot \in [Eno!Entries(job) -> V] /\ slot' = Eno!Swapped(e, f)
      BY <1>1, <1>3, <1>7
    <3> HIDE DEF e, V
    <3> QED
      BY <3>1 DEF Eno!Swapped
  <2> HIDE DEF ok, C, V
  <2>2. ASSUME NEW k \in C PROVE ok(slot'[<<"early", k>>], slot'[<<"late", k>>])
    <3>0. /\ <<"early", k>> \in Eno!Entries(job) /\ <<"late", k>> \in Eno!Entries(job) /\ <<"late", n>> \in Eno!Entries(job)
          /\ <<"late", k>> # e /\ (k # n => <<"early", k>> # e)
      BY <1>3, <2>2 DEF C
    <3>1. CASE f[1] = "free"
      <4>1. <<"early", k>> # f /\ <<"late", k>> # f
        BY <3>1
      <4> QED
        BY <1>1, <1>7, <2>1, <3>0, <4>1
    <3>2. CASE f[1] = "late"
      <4>1. <<"early", k>> # f /\ f = <<"late", f[2]>> /\ f[2] \in C
        BY <1>4, <3>2
      <4>2. ok(slot[<<"early", f[2]>>], slot[<<"early", n>>])
        BY <1>7, <3>2
      <4>3. f[2] # n
        <5>1. slot[<<"early", n>>] \in V
          BY <1>1, <2>1
        <5> QED
          BY <1>2, <4>2, <5>1
      <4>4. CASE k = n
        BY <1>7, <2>1, <3>0, <4>1, <4>3, <4>4
      <4>5. CASE k = f[2]
        BY <2>1, <3>0, <4>1, <4>2, <4>3, <4>5
      <4>6. CASE k # n /\ k # f[2]
        BY <1>1, <2>1, <3>0, <4>1, <4>6
      <4> QED
        BY <4>4, <4>5, <4>6
    <3>3. CASE f[1] = "early"
      <4>1. <<"late", k>> # f /\ f = <<"early", f[2]>> /\ f[2] \in C
        BY <1>4, <3>3
      <4>2. ok(slot[<<"early", n>>], slot[<<"late", f[2]>>])
        BY <1>7, <3>3
      <4>4. CASE k = n
        BY <1>7, <2>1, <3>0, <4>1, <4>4
      <4>5. CASE k = f[2]
        BY <2>1, <3>0, <4>1, <4>2, <4>5
      <4>6. CASE k # n /\ k # f[2]
        BY <1>1, <2>1, <3>0, <4>1, <4>6
      <4> QED
        BY <4>4, <4>5, <4>6
    <3> QED
      BY <1>4, <3>1, <3>2, <3>3
  <2> QED
    BY <2>1, <2>2
<1> QED
  BY <1>5, <1>6, <1>7 DEF Eno!Swap, Eno!_try_perform_swap

(* Requests come in pairs, but for the free ones.                          *)
LEMMA PairOf ==
  ASSUME JobsAreJobs, job \in Jobs, NEW y \in Eno!Chains
  PROVE  /\ Eno!Get(y) \in Eno!Requests(job) /\ Eno!Get(y) \notin Eno!Chains /\ Eno!Get(y) \notin Eno!Free(job) /\ y \notin Eno!Free(job)
         /\ \A c \in Eno!Chains : Eno!Get(c) = Eno!Get(y) => c = y
<1>0. job.tick \in Nat
  BY DEF JobsAreJobs
<1>1. \A c \in Eno!Chains : \/ c \in Eno!Pairs(job, "putflag", "getflag", job.flag) /\ c.method = "putflag"
                            \/ c \in Eno!Pairs(job, "putnoise", "getnoise", job.noise) /\ c.method = "putnoise"
  BY DEF Eno!Chains, Eno!Requests, Eno!Puts, Eno!Pairs, Eno!Free, Eno!Past
<1>2. \A c \in Eno!Chains : /\ c = [method |-> c.method, variant |-> c.variant, of |-> c.of]
                            /\ c.of = job.tick /\ c.method \in Eno!Puts
                            /\ c.method = "putflag" => c.variant \in 1..job.flag
                            /\ c.method = "putnoise" => c.variant \in 1..job.noise
  BY <1>1 DEF Eno!Pairs, Eno!Puts
<1>3. \A c \in Eno!Chains : Eno!Get(c) = [method |-> IF c.method = "putflag" THEN "getflag" ELSE "getnoise",
                                  variant |-> c.variant, of |-> c.of]
  BY <1>2 DEF Eno!Get
<1>4. Eno!Get(y) \in Eno!Requests(job)
  BY <1>2, <1>3 DEF Eno!Requests, Eno!Pairs, Eno!Puts
<1>5. Eno!Get(y) \notin Eno!Chains
  BY <1>3 DEF Eno!Chains, Eno!Puts
<1>6. \A x \in Eno!Free(job) : x.method \notin Eno!Puts /\ (x.method = "getflag" => x.of # job.tick)
                               /\ x.method # "getnoise"
  BY <1>0 DEF Eno!Free, Eno!Past, Eno!Puts
<1>7. Eno!Get(y).of = job.tick /\ Eno!Get(y).method \in {"getflag", "getnoise"}
  BY <1>2, <1>3
<1>8. \A c \in Eno!Chains : Eno!Get(c) = Eno!Get(y) => c = y
  <2> SUFFICES ASSUME NEW c \in Eno!Chains, Eno!Get(c) = Eno!Get(y) PROVE c = y
    OBVIOUS
  <2>1. c.variant = y.variant /\ c.of = y.of
    BY <1>3
  <2>2. c.method = y.method
    BY <1>2, <1>3 DEF Eno!Puts
  <2> QED
    BY <1>2, <2>1, <2>2
<1> QED
  BY <1>2, <1>4, <1>5, <1>6, <1>7, <1>8

(* Every other request is the second of a pair.                            *)
LEMMA PairedOrFree ==
  ASSUME NEW x \in Eno!Requests(job), x \notin Eno!Chains, x \notin Eno!Free(job)
  PROVE  \E c \in Eno!Chains : Eno!Get(c) = x
<1>1. CASE x \in Eno!Pairs(job, "putflag", "getflag", job.flag)
  <2>1. PICK v \in 1..job.flag : x = [method |-> "getflag", variant |-> v, of |-> job.tick]
    BY <1>1 DEF Eno!Pairs, Eno!Chains, Eno!Puts
  <2> DEFINE c == [method |-> "putflag", variant |-> v, of |-> job.tick]
  <2>2. c \in Eno!Chains
    BY DEF Eno!Chains, Eno!Requests, Eno!Pairs, Eno!Puts
  <2>3. Eno!Get(c) = x
    BY <2>1 DEF Eno!Get
  <2> QED
    BY <2>2, <2>3
<1>2. CASE x \in Eno!Pairs(job, "putnoise", "getnoise", job.noise)
  <2>1. PICK v \in 1..job.noise : x = [method |-> "getnoise", variant |-> v, of |-> job.tick]
    BY <1>2 DEF Eno!Pairs, Eno!Chains, Eno!Puts
  <2> DEFINE c == [method |-> "putnoise", variant |-> v, of |-> job.tick]
  <2>2. c \in Eno!Chains
    BY DEF Eno!Chains, Eno!Requests, Eno!Pairs, Eno!Puts
  <2>3. Eno!Get(c) = x
    BY <2>1 DEF Eno!Get
  <2> QED
    BY <2>2, <2>3
<1> QED
  BY <1>1, <1>2 DEF Eno!Requests

(* A start lies in its slot.                                               *)
LEMMA InSlot ==
  ASSUME NEW J, NEW x, NEW first \in Int, NEW length \in Int, length >= 1
  PROVE  /\ Eno!Jitter(J, x, first, length) \in Int
         /\ Eno!Jitter(J, x, first, length) >= first /\ Eno!Jitter(J, x, first, length) <= first + length - 1
  BY DEF Eno!Jitter

(* The slots in time.                                                      *)
LEMMA ClearInTime ==
  ASSUME JobsAreJobs, job \in Jobs, Eno!Constrained(job) # 0, Eno!Fits(job),
         NEW a \in Int, NEW b \in Int, Eno!_valid_clearance(job, a, b)
  PROVE  a * Eno!LastStart(job) + Eno!LastStart(job) + Eno!TaskTimeout * Eno!Total(job) <= b * Eno!LastStart(job)
<1>1. PICK L \in Int, T \in Nat : L = Eno!LastStart(job) /\ T = Eno!Total(job)
  BY Numbers
<1>2. (b - a) * L >= 3 * T + L
  BY <1>1 DEF Eno!_valid_clearance, Eno!TaskTimeout
<1>3. (b - a) * L = b * L - a * L
  BY <1>1
<1> QED
  BY <1>1, <1>2, <1>3 DEF Eno!TaskTimeout

(* No slot ends after the last start.                                      *)
LEMMA LastSlot ==
  ASSUME NEW L \in Int, L > 0, NEW T \in Nat, NEW a \in 0..(T - 1)
  PROVE  a * L + L - 1 < L * T
<1>1. (T - 1 - a) * L >= 0
  OBVIOUS
<1>2. (T - 1 - a) * L = L * T - L - a * L
  OBVIOUS
<1> QED
  BY <1>1, <1>2

(* What both ways to plan have to ensure.                                  *)
LEMMA Planned ==
  ASSUME JobsAreJobs, TimeInv, eno = "swap", NEW b, Eno!Plan(b), DOMAIN b = Eno!Requests(job),
         \A y \in Eno!Chains : b[y] + Eno!TaskTimeout * Eno!Total(job) < b[Eno!Get(y)],
         slot # <<>> => \A x \in Eno!Requests(job) : b[x] < Eno!LastStart(job) * Eno!Total(job)
  PROVE  TimeInv'
<1>1. /\ eno' = "run" /\ begins' = b /\ state' = [x \in Eno!Requests(job) |-> "wait"]
      /\ UNCHANGED <<job, slot, slow, early>>
  BY DEF Eno!Plan
<1>2. SlotInv'
  BY <1>1 DEF TimeInv, SlotInv, Eno!Constrained, Eno!Unconstrained, Eno!Total, Eno!Entries, Eno!Fits,
     Eno!LastStart, Eno!Length, Eno!_valid_clearance
<1>3. Eno!Chains' = Eno!Chains /\ Eno!Requests(job)' = Eno!Requests(job)
  BY <1>1 DEF Eno!Chains
<1>4. StartInv'
  BY <1>1, <1>3 DEF StartInv, Eno!Total, Eno!LastStart, Eno!Constrained, Eno!Unconstrained, Eno!Length
<1> QED
  BY <1>1, <1>2, <1>4 DEF TimeInv

(* gen_timeslots_flat keeps put and get apart by its slots.                *)
LEMMA FlatStep ==
  ASSUME JobsAreJobs, TimeInv, Eno!PlanFlat
  PROVE  TimeInv'
<1> DEFINE T == Eno!Total(job)
           L == Eno!LastStart(job)
           C == 1..Eno!Constrained(job)
<1>1. /\ job \in Jobs /\ Eno!Constrained(job) # 0 /\ Eno!Fits(job) /\ slot # <<>> /\ eno = "swap"
      /\ slot \in [Eno!Entries(job) -> 0..(T - 1)]
      /\ \A n \in C : Eno!_valid_clearance(job, slot[<<"early", n>>], slot[<<"late", n>>])
  BY DEF TimeInv, SlotInv, Eno!PlanFlat
<1>2. T \in Nat /\ L \in Int /\ L > 0
  BY <1>1, Numbers, Positive
<1>3. PICK p \in Eno!Bijection(Eno!Chains, C), q \in Eno!Injection(Eno!Free(job), 1..Eno!Unconstrained(job)) :
        \E J \in Eno!Jitters :
            Eno!Plan([x \in Eno!Requests(job) |->
                        Eno!Jitter(J, x, slot[IF x \in Eno!Chains THEN <<"early", p[x]>>
                                          ELSE IF x \in Eno!Free(job) THEN <<"free", q[x]>>
                                          ELSE <<"late", p[CHOOSE c \in Eno!Chains : Eno!Get(c) = x]>>] * L, L)])
  BY DEF Eno!PlanFlat
<1> DEFINE e(x) == IF x \in Eno!Chains THEN <<"early", p[x]>>
                   ELSE IF x \in Eno!Free(job) THEN <<"free", q[x]>>
                   ELSE <<"late", p[CHOOSE c \in Eno!Chains : Eno!Get(c) = x]>>
<1>4. PICK J \in Eno!Jitters : Eno!Plan([x \in Eno!Requests(job) |-> Eno!Jitter(J, x, slot[e(x)] * L, L)])
  BY <1>3
<1> DEFINE b == [x \in Eno!Requests(job) |-> Eno!Jitter(J, x, slot[e(x)] * L, L)]
<1>5. p \in [Eno!Chains -> C] /\ q \in [Eno!Free(job) -> 1..Eno!Unconstrained(job)]
  BY DEF Eno!Bijection, Eno!Injection
<1>6. ASSUME NEW x \in Eno!Requests(job) PROVE e(x) \in Eno!Entries(job)
  <2>1. CASE x \in Eno!Chains
    BY <1>5, <2>1 DEF Eno!Entries
  <2>2. CASE x \notin Eno!Chains /\ x \in Eno!Free(job)
    BY <1>5, <2>2 DEF Eno!Entries
  <2>3. CASE x \notin Eno!Chains /\ x \notin Eno!Free(job)
    <3>1. \E c \in Eno!Chains : Eno!Get(c) = x
      BY <2>3, PairedOrFree
    <3>2. (CHOOSE c \in Eno!Chains : Eno!Get(c) = x) \in Eno!Chains
      BY <3>1
    <3>3. p[CHOOSE c \in Eno!Chains : Eno!Get(c) = x] \in C
      BY <1>5, <3>2
    <3> QED
      BY <2>3, <3>3 DEF Eno!Entries
  <2> QED
    BY <2>1, <2>2, <2>3
<1> HIDE DEF e
<1>7. ASSUME NEW x \in Eno!Requests(job)
      PROVE  /\ slot[e(x)] \in 0..(T - 1) /\ slot[e(x)] * L \in Int
             /\ b[x] \in Int /\ b[x] >= slot[e(x)] * L /\ b[x] <= slot[e(x)] * L + L - 1
  <2>1. PICK a : a = slot[e(x)]
    OBVIOUS
  <2>2. a \in 0..(T - 1) /\ a * L \in Int
    BY <1>1, <1>2, <1>6, <2>1
  <2>3. Eno!Jitter(J, x, a * L, L) \in Int /\ Eno!Jitter(J, x, a * L, L) >= a * L /\ Eno!Jitter(J, x, a * L, L) <= a * L + L - 1
    <3>1. PICK f \in Int, l \in Int : f = a * L /\ l = L /\ l >= 1
      BY <1>2, <2>2
    <3> QED
      BY <3>1, InSlot
  <2>4. b[x] = Eno!Jitter(J, x, a * L, L)
    BY <2>1
  <2> QED
    BY <2>1, <2>2, <2>3, <2>4
<1> HIDE DEF b
<1>8. ASSUME NEW y \in Eno!Chains PROVE b[y] + Eno!TaskTimeout * T < b[Eno!Get(y)]
  <2>1. /\ Eno!Get(y) \in Eno!Requests(job) /\ Eno!Get(y) \notin Eno!Chains /\ Eno!Get(y) \notin Eno!Free(job)
        /\ \A c \in Eno!Chains : Eno!Get(c) = Eno!Get(y) => c = y
    BY <1>1, PairOf
  <2>2. (CHOOSE c \in Eno!Chains : Eno!Get(c) = Eno!Get(y)) = y
    BY <2>1
  <2>3. e(y) = <<"early", p[y]>> /\ e(Eno!Get(y)) = <<"late", p[y]>> /\ p[y] \in C
    BY <1>5, <2>1, <2>2 DEF e
  <2>4. y \in Eno!Requests(job)
    BY DEF Eno!Chains
  <2>5. PICK m \in Int, n \in Int : m = slot[e(y)] /\ n = slot[e(Eno!Get(y))] /\ Eno!_valid_clearance(job, m, n)
    <3>1. slot[e(y)] \in Int /\ slot[e(Eno!Get(y))] \in Int
      BY <1>2, <1>7, <2>1, <2>4
    <3>2. Eno!_valid_clearance(job, slot[e(y)], slot[e(Eno!Get(y))])
      BY <1>1, <2>3
    <3> QED
      BY <3>1, <3>2
  <2>6. m * L + L + Eno!TaskTimeout * T <= n * L
    BY <1>1, <2>5, ClearInTime
  <2>7. b[y] \in Int /\ b[y] <= m * L + L - 1 /\ b[Eno!Get(y)] \in Int /\ b[Eno!Get(y)] >= n * L
    BY <1>7, <2>1, <2>4, <2>5
  <2>8. m * L \in Int /\ n * L \in Int /\ Eno!TaskTimeout * T \in Int
    BY <1>2, <2>5 DEF Eno!TaskTimeout
  <2> HIDE DEF T, L
  <2> QED
    BY <1>2, <2>6, <2>7, <2>8
<1>9. ASSUME NEW x \in Eno!Requests(job) PROVE b[x] < L * T
  <2>1. PICK a \in 0..(T - 1) : a = slot[e(x)]
    BY <1>7
  <2>2. a * L + L - 1 < L * T
    BY <1>2, <2>1, LastSlot
  <2>3. b[x] \in Int /\ b[x] <= a * L + L - 1 /\ a * L \in Int /\ L * T \in Int
    BY <1>2, <1>7, <2>1
  <2> HIDE DEF T, L
  <2> QED
    BY <1>2, <2>2, <2>3
<1>10. DOMAIN b = Eno!Requests(job) /\ Eno!Plan(b)
  BY <1>4 DEF b, e
<1> QED
  BY <1>1, <1>8, <1>9, <1>10, Planned

(* gen_timeslots_fallback by its constants.                                *)
LEMMA FallbackStep ==
  ASSUME JobsAreJobs, TimeInv, Eno!PlanFallback
  PROVE  TimeInv'
<1> DEFINE n == Eno!Total(job)
           first(x) == IF x \in Eno!Free(job) \/ x.method \in Eno!Puts THEN 0 ELSE 6 * n
           length(x) == CASE x \in Eno!Free(job) -> 8 * n [] x.method \in Eno!Puts -> 3 * n [] OTHER -> 2 * n
<1>1. job \in Jobs /\ eno = "swap" /\ slot = <<>>
  BY DEF TimeInv, SlotInv, Eno!PlanFallback
<1>2. PICK J \in Eno!Jitters : Eno!Plan([x \in Eno!Requests(job) |-> Eno!Jitter(J, x, first(x), length(x))])
  BY DEF Eno!PlanFallback
<1> DEFINE b == [x \in Eno!Requests(job) |-> Eno!Jitter(J, x, first(x), length(x))]
<1>3. n \in Nat
  BY <1>1, Numbers
<1>4. ASSUME NEW y \in Eno!Chains PROVE b[y] + Eno!TaskTimeout * n < b[Eno!Get(y)]
  <2>1. /\ Eno!Get(y) \in Eno!Requests(job) /\ Eno!Get(y) \notin Eno!Chains /\ Eno!Get(y) \notin Eno!Free(job) /\ y \notin Eno!Free(job)
    BY <1>1, PairOf
  <2>2. y \in Eno!Requests(job) /\ y.method \in Eno!Puts /\ Eno!Get(y).method \notin Eno!Puts
    BY <2>1 DEF Eno!Chains
  <2>3. b[y] = Eno!Jitter(J, y, 0, 3 * n) /\ b[Eno!Get(y)] = Eno!Jitter(J, Eno!Get(y), 6 * n, 2 * n)
    BY <2>1, <2>2
  <2>4. n >= 1
    <3>1. job.flag \in Nat /\ job.noise \in Nat /\ (job.flag # 0 \/ job.noise # 0)
      BY <1>1, <2>2 DEF JobsAreJobs, Eno!Chains, Eno!Requests, Eno!Pairs, Eno!Free, Eno!Past, Eno!Puts
    <3>2. Eno!Constrained(job) >= 1 /\ Eno!Constrained(job) \in Nat
      BY <3>1 DEF Eno!Constrained
    <3>3. Eno!Total(job) = 2 * Eno!Constrained(job) + Eno!Unconstrained(job) /\ Eno!Unconstrained(job) \in Nat
      BY <1>1, Numbers
    <3> QED
      BY <3>2, <3>3
  <2> QED
    BY <1>3, <2>3, <2>4 DEF Eno!Jitter, Eno!TaskTimeout
<1>5. DOMAIN b = Eno!Requests(job) /\ Eno!Plan(b)
  BY <1>2
<1> HIDE DEF b
<1> QED
  BY <1>1, <1>4, <1>5, Planned

(* The invariant looks at job, slots and starts only.                      *)
LEMMA TimeSame ==
  ASSUME TimeInv, UNCHANGED <<job, slot, begins>>, DOMAIN state' = DOMAIN state, early' \subseteq slow',
         eno' = eno \/ (eno = "run" /\ eno' = "done")
  PROVE  TimeInv'
<1>1. SlotInv'
  BY DEF TimeInv, SlotInv, Eno!Constrained, Eno!Unconstrained, Eno!Total, Eno!Entries, Eno!Fits,
     Eno!LastStart, Eno!Length, Eno!_valid_clearance
<1>2. Eno!Chains' = Eno!Chains /\ Eno!Requests(job)' = Eno!Requests(job) /\ Eno!Total(job)' = Eno!Total(job) /\ Eno!LastStart(job)' = Eno!LastStart(job)
  BY DEF Eno!Chains
<1> QED
  BY <1>1, <1>2 DEF TimeInv, StartInv

(* Every step keeps the invariant.                                         *)
LEMMA TimeStep ==
  ASSUME JobsAreJobs, TimeInv, [Eno!Next]_(Eno!evars)
  PROVE  TimeInv'
<1>1. CASE Eno!Begin \/ Eno!NoInfo
  <2>1. /\ UNCHANGED <<job, state, slow, early>> /\ eno' \in {"swap", "failed"} /\ eno = "idle"
        /\ slot' # <<>> => Eno!Constrained(job) # 0 /\ Eno!Fits(job) /\ slot' = Eno!Offsets(job)
    BY <1>1 DEF Eno!Begin, Eno!NoInfo, TimeInv, SlotInv
  <2>2. job \in Jobs /\ early \subseteq slow
    BY DEF TimeInv, SlotInv
  <2>3. slot' # <<>> => /\ slot' \in [Eno!Entries(job) -> 0..(Eno!Total(job) - 1)]
                        /\ \A n \in 1..Eno!Constrained(job) :
                             Eno!_valid_clearance(job, slot'[<<"early", n>>], slot'[<<"late", n>>])
    BY <2>1, <2>2, FirstSlots
  <2>4. SlotInv'
    BY <2>1, <2>2, <2>3 DEF SlotInv, Eno!Constrained, Eno!Unconstrained, Eno!Total, Eno!Entries,
       Eno!Fits, Eno!LastStart, Eno!Length, Eno!_valid_clearance
  <2> QED
    BY <2>1, <2>2, <2>4 DEF TimeInv, StartInv
<1>2. CASE Eno!PlanFlat
  BY <1>2, FlatStep
<1>3. CASE Eno!PlanFallback
  BY <1>3, FallbackStep
<1>4. CASE Eno!Finish
  <2>1. UNCHANGED <<job, slot, begins, state, slow, early>> /\ eno' = "done" /\ eno = "run"
    BY <1>4 DEF Eno!Finish
  <2> QED
    BY <2>1, TimeSame DEF TimeInv
<1>5. ASSUME eno = "swap", slot # <<>>, NEW n \in 1..Eno!Constrained(job), NEW f \in Eno!Entries(job), Eno!Swap(n, f) PROVE TimeInv'
  <2>1. UNCHANGED <<eno, job, begins, state, slow, early>>
    BY <1>5 DEF Eno!Swap
  <2>2. /\ slot' \in [Eno!Entries(job) -> 0..(Eno!Total(job) - 1)]
        /\ \A k \in 1..Eno!Constrained(job) : Eno!_valid_clearance(job, slot'[<<"early", k>>], slot'[<<"late", k>>])
    BY <1>5, SwapStep DEF TimeInv
  <2>3. Eno!Constrained(job) # 0 /\ Eno!Fits(job) /\ job \in Jobs
    BY <1>5 DEF TimeInv, SlotInv
  <2>4. SlotInv'
    BY <1>5, <2>1, <2>2, <2>3 DEF SlotInv, Eno!Constrained, Eno!Unconstrained, Eno!Total,
       Eno!Entries, Eno!Fits, Eno!LastStart, Eno!Length, Eno!_valid_clearance
  <2> QED
    BY <1>5, <2>1, <2>4 DEF TimeInv, StartInv
<1>6. ASSUME NEW x \in DOMAIN state, Eno!Start(x) PROVE TimeInv'
  <2>1. /\ UNCHANGED <<eno, job, slot, begins>> /\ eno = "run" /\ DOMAIN state' = DOMAIN state
        /\ slow' = slow \cup {y \in Eno!Running : begins[y] + Eno!TaskTimeout * Eno!Total(job) < begins[x]}
        /\ early' = early \cup {y \in Eno!Running : y.method \in Eno!Puts /\ x = Eno!Get(y)}
    BY <1>6 DEF Eno!Start
  <2>2. \A y \in Eno!Running : y.method \in Eno!Puts => begins[y] + Eno!TaskTimeout * Eno!Total(job) < begins[Eno!Get(y)]
    BY <2>1 DEF TimeInv, StartInv, Eno!Running, Eno!Chains
  <2>3. early' \subseteq slow'
    BY <2>1, <2>2 DEF TimeInv
  <2> QED
    BY <2>1, <2>3, TimeSame
<1>7. ASSUME NEW x \in DOMAIN state, NEW r \in Eno!Results, Eno!Answer(x, r) PROVE TimeInv'
  <2>1. UNCHANGED <<eno, job, slot, begins, slow, early>> /\ DOMAIN state' = DOMAIN state
    BY <1>7 DEF Eno!Answer
  <2> QED
    BY <2>1, TimeSame DEF TimeInv
<1>8. CASE UNCHANGED Eno!evars
  BY <1>8, TimeSame DEF Eno!evars, TimeInv
<1> QED
  BY <1>1, <1>2, <1>3, <1>4, <1>5, <1>6, <1>7, <1>8 DEF Eno!Next

(* The initial states have it.                                             *)
LEMMA TimeInit == Eno!Init => TimeInv
  BY DEF Eno!Init, TimeInv, SlotInv, StartInv

(* The component by itself.                                               *)
LEMMA GetAfterPutAlone ==
  ASSUME JobsAreJobs
  PROVE  Eno!Spec => [](Eno!TypeOK /\ Eno!GetAfterPut)
<1>1. VerdictInv /\ [Eno!Next]_(Eno!evars) => VerdictInv'
  BY VerdictStep
<1>2. TimeInv /\ [Eno!Next]_(Eno!evars) => TimeInv'
  BY TimeStep
<1>3. VerdictInv /\ TimeInv => Eno!TypeOK
  BY DEF VerdictInv, RunInv, StatusInv, TimeInv, SlotInv, Eno!TypeOK
<1>4. TimeInv => Eno!GetAfterPut
  BY DEF TimeInv, StartInv, Eno!GetAfterPut
<1> QED
  BY <1>1, <1>2, <1>3, <1>4, VerdictInit, TimeInit, PTL DEF Eno!Spec

(* The status of a finished run depends on the answers as _handle_result   *)
(* means it, in whichever order they come, for every job.                  *)
THEOREM VerdictCorrect == Spec => []Verdict
<1> DEFINE Chosen == component = "eno"
<1>1. Eno!Spec => [](Eno!TypeOK /\ Eno!Verdict)
  <2>1. Eno!Spec => []Eno!Verdict
    BY VerdictAlone, ToolsAssumption
  <2>2. Eno!Spec => [](Eno!TypeOK /\ Eno!GetAfterPut)
    BY GetAfterPutAlone, ToolsAssumption
  <2> QED
    BY <2>1, <2>2, PTL
<1>2. Init /\ Chosen => Eno!Init
  BY DEF Init
<1>3. Chosen /\ [Next]_tools => Chosen' /\ [Eno!Next]_(Eno!evars)
  BY OneComponent DEF Next, tools, Eno!evars
<1>4. ~Chosen /\ [Next]_tools => ~Chosen'
  BY OneComponent
<1> QED
  BY <1>1, <1>2, <1>3, <1>4, PTL DEF Spec, Eno!Spec, Verdict

(* For every job, a flag or a noise is got after its put was answered or   *)
(* had run into its time limit, and no request starts after the last slot, *)
(* whatever the loop of gen_timeslots_flat swapped.                        *)
THEOREM GetAfterPutCorrect == Spec => []GetAfterPut
<1> DEFINE Chosen == component = "eno"
<1>1. Eno!Spec => [](Eno!TypeOK /\ Eno!GetAfterPut)
  BY GetAfterPutAlone, ToolsAssumption
<1>2. Init /\ Chosen => Eno!Init
  BY DEF Init
<1>3. Chosen /\ [Next]_tools => Chosen' /\ [Eno!Next]_(Eno!evars)
  BY OneComponent DEF Next, tools, Eno!evars
<1>4. ~Chosen /\ [Next]_tools => ~Chosen'
  BY OneComponent
<1> QED
  BY <1>1, <1>2, <1>3, <1>4, PTL DEF Spec, Eno!Spec, GetAfterPut

-----------------------------------------------------------------------------
(* Checker packages, for every set of script folders.                      *)

(* The names of its variables.                                             *)
folder == v1
files == v2
rows == v3
service == v4
up == v5
disk == v6
part == v7
lfs == v8
lock == v9
load == v10
edits == v11
kills == v12
torn == v13
USE DEF folder, files, rows, service, up, disk, part, lfs, lock, load, edits,
        kills, torn

-----------------------------------------------------------------------------
(* The inductive invariant.                                                *)

Hashes == UNION {Packs!Range(f) : f \in Folders}

(* What a request has read is in the database, but for the file it is      *)
(* about to store; the package it is about to name has its rows.           *)
UploadInv ==
  /\ folder \in Folders /\ files \subseteq Hashes /\ DOMAIN up = Uploaders
  /\ \A u \in Uploaders :
       /\ up[u].step \in {"read", "rows"} => Packs!Range(up[u].read) \subseteq files
       /\ up[u].step = "store" =>
            Packs!Range(up[u].read) \subseteq files \cup {up[u].hash} /\ up[u].hash \in Hashes
       /\ up[u].step = "set" => up[u].read \in rows
  /\ Packs!UploadsWhole

(* The one loader that copies holds the lock; what it has done is in its   *)
(* temporary folder, and the file it writes is in the large file storage.  *)
LoadInv ==
  /\ DOMAIN load = Loaders /\ lock \in Loaders \cup {Packs!Nobody}
  /\ \A l \in Loaders : load[l].step \in {"copy", "large"} =>
       /\ lock = l /\ {"step", "package", "done"} \subseteq DOMAIN load[l]
       /\ load[l].package \in DOMAIN part /\ load[l].done \subseteq DOMAIN part[load[l].package]
  /\ \A l \in Loaders : load[l].step = "large" =>
       load[l].path \in DOMAIN load[l].package /\ load[l].package[load[l].path] \in DOMAIN lfs

(* A large file is complete, unless somebody writes it or was killed.      *)
StorageInv ==
  /\ DOMAIN lfs \subseteq Big
  /\ ~torn => \A h \in DOMAIN lfs : lfs[h] # "full" =>
       \E l \in Loaders : load[l].step = "large" /\ load[l].package[load[l].path] = h

(* An entry of a folder is the file of its path in package k.              *)
Right(k, p, e, storage, broken) ==
  e.hash = k[p] /\ (e.kind = "link" => k[p] \in DOMAIN storage /\ (~broken => storage[k[p]] = "full"))

PartInv ==
  \A k \in DOMAIN part :
    DOMAIN part[k] \subseteq DOMAIN k /\ \A p \in DOMAIN part[k] : Right(k, p, part[k][p], lfs, torn)

DiskInv ==
  \A k \in DOMAIN disk :
    DOMAIN disk[k] = DOMAIN k /\ \A p \in DOMAIN k : Right(k, p, disk[k][p], lfs, torn)

PackagesInv == UploadInv /\ LoadInv /\ StorageInv /\ PartInv /\ DiskInv
-----------------------------------------------------------------------------
(* The empty function.                                                     *)
LEMMA NothingFacts == DOMAIN Packs!Nothing = {} /\ Packs!Range(Packs!Nothing) = {}
BY DEF Packs!Nothing, Packs!Range

(* A large file that is complete stays so, and what is torn too.           *)
Grows ==
  /\ DOMAIN lfs \subseteq DOMAIN lfs' /\ (torn => torn')
  /\ \A h \in DOMAIN lfs : lfs[h] = "full" => lfs'[h] = "full"

(* What a package's entry says stays right while large files arrive.       *)
LEMMA RightStays ==
  ASSUME Grows, NEW k, NEW p, NEW e, Right(k, p, e, lfs, torn)
  PROVE  Right(k, p, e, lfs', torn')
BY DEF Grows, Right

(* The loader that copies is the only one.                                 *)
LEMMA OneLoader ==
  ASSUME LoadInv, NEW l \in Loaders, load[l].step \in {"copy", "large"}
  PROVE  lock = l /\ \A m \in Loaders : m # l => load[m].step \notin {"copy", "large"}
BY DEF LoadInv

(* While nobody has the lock no loader copies.                             *)
LEMMA NoLoader ==
  ASSUME LoadInv, Packs!Nobody \notin Loaders, lock = Packs!Nobody
  PROVE  \A m \in Loaders : load[m].step \notin {"copy", "large"}
BY DEF LoadInv

(* A loader gives up, with the lock and without a trace.                   *)
GivesUp(l) == load' = [load EXCEPT ![l] = Packs!Idle] /\ lock' = Packs!Nobody /\ part' = part

(* Or the path is in its temporary folder.                                 *)
Adds(l, p, kind) ==
  LET k == load[l].package IN
  /\ k \in DOMAIN part /\ DOMAIN part' = DOMAIN part /\ lock' = lock
  /\ part'[k] = Packs!Put(part[k], p, [kind |-> kind, hash |-> k[p]])
  /\ \A j \in DOMAIN part : j # k => part'[j] = part[j]
  /\ DOMAIN load' = Loaders /\ \A m \in Loaders : m # l => load'[m] = load[m]
  /\ load'[l].step = "copy" /\ load'[l].package = k /\ load'[l].done = load[l].done \cup {p}
  /\ {"step", "package", "done"} \subseteq DOMAIN load'[l]

(* Copying a file adds it to the package, or the loader gives up.          *)
LEMMA CopiedFacts ==
  ASSUME LoadInv, NEW l \in Loaders, load[l].step \in {"copy", "large"}, NEW p, NEW kind, Packs!Copied(l, p, kind)
  PROVE  GivesUp(l) \/ Adds(l, p, kind)
<1> DEFINE k == load[l].package
           r == [load[l] EXCEPT !.step = "copy", !.done = @ \cup {p}]
<1>1. CASE k \notin DOMAIN part \/ (kind = "link" /\ p \in DOMAIN part[k])
  BY <1>1 DEF Packs!Copied, Packs!Fails, Packs!Load, GivesUp
<1>2. CASE ~(k \notin DOMAIN part \/ (kind = "link" /\ p \in DOMAIN part[k]))
  <2>1. {"step", "package", "done"} \subseteq DOMAIN load[l] /\ DOMAIN load = Loaders
    BY DEF LoadInv
  <2>2. DOMAIN r = DOMAIN load[l] /\ r.step = "copy" /\ r.package = k /\ r.done = load[l].done \cup {p}
    BY <2>1
  <2>3. /\ part' = [part EXCEPT ![k] = Packs!Put(@, p, [kind |-> kind, hash |-> k[p]])]
        /\ load' = [load EXCEPT ![l] = r] /\ lock' = lock /\ k \in DOMAIN part
    BY <1>2 DEF Packs!Copied, Packs!Load
  <2>4. /\ DOMAIN part' = DOMAIN part /\ part'[k] = Packs!Put(part[k], p, [kind |-> kind, hash |-> k[p]])
        /\ \A j \in DOMAIN part : j # k => part'[j] = part[j]
    BY <2>3
  <2>5. DOMAIN load' = Loaders /\ load'[l] = r /\ \A m \in Loaders : m # l => load'[m] = load[m]
    BY <2>1, <2>3
  <2> QED
    BY <2>1, <2>2, <2>3, <2>4, <2>5 DEF Adds
<1> QED
  BY <1>1, <1>2


(* Every step keeps UploadInv.                                             *)
LEMMA UploadStep ==
  ASSUME UploadInv, [Packs!Next]_(Packs!pvars)
  PROVE  UploadInv'
<1>1. ASSUME NEW f \in Folders, Packs!Edit(f) PROVE UploadInv'
  BY <1>1, NothingFacts DEF Packs!Edit, UploadInv, Packs!UploadsWhole
<1>2. ASSUME NEW u \in Uploaders, Packs!UploadStart(u) PROVE UploadInv'
  BY <1>2, NothingFacts DEF Packs!UploadStart, Packs!Upload, Packs!UploadUnchanged, UploadInv,
     Packs!UploadsWhole
<1>3. ASSUME NEW u \in Uploaders, Packs!StoreFile(u) PROVE UploadInv'
  BY <1>3, NothingFacts DEF Packs!StoreFile, Packs!Upload, Packs!UploadUnchanged, UploadInv,
     Packs!UploadsWhole
<1>4. ASSUME NEW u \in Uploaders, Packs!LookUpPackage(u) PROVE UploadInv'
  BY <1>4, NothingFacts DEF Packs!LookUpPackage, Packs!Upload, Packs!UploadUnchanged, UploadInv,
     Packs!UploadsWhole
<1>5. ASSUME NEW u \in Uploaders, Packs!StoreRows(u) PROVE UploadInv'
  BY <1>5, NothingFacts DEF Packs!StoreRows, Packs!Upload, Packs!UploadUnchanged, UploadInv,
     Packs!UploadsWhole
<1>6. ASSUME NEW u \in Uploaders, Packs!SetPackage(u) PROVE UploadInv'
  BY <1>6, NothingFacts DEF Packs!SetPackage, Packs!Upload, Packs!UploadUnchanged, UploadInv,
     Packs!UploadsWhole
<1>7. ASSUME NEW u \in Uploaders, Packs!packages_test(u) PROVE UploadInv'
  BY <1>7, NothingFacts DEF Packs!packages_test, Packs!Upload, Packs!UploadUnchanged, UploadInv,
     Packs!UploadsWhole
<1>8. ASSUME NEW u \in Uploaders, NEW p \in DOMAIN folder, Packs!ReadFile(u, p) PROVE UploadInv'
  <2> DEFINE r == Packs!Put(up[u].read, p, folder[p])
  <2>1. Packs!Range(r) \subseteq Packs!Range(up[u].read) \cup {folder[p]} /\ folder[p] \in Hashes
    <3>1. Packs!Range(r) \subseteq Packs!Range(up[u].read) \cup {folder[p]}
      BY DEF Packs!Range, Packs!Put
    <3>2. folder \in Folders /\ folder[p] \in Packs!Range(folder)
      BY DEF UploadInv, Packs!Range
    <3> QED
      BY <3>1, <3>2 DEF Hashes
  <2>2. Packs!Range(up[u].read) \subseteq files
    BY <1>8 DEF Packs!ReadFile, UploadInv
  <2>3. CASE folder[p] \notin files
    BY <1>8, <2>1, <2>2, <2>3 DEF Packs!ReadFile, Packs!Missing, Packs!Upload, Packs!UploadUnchanged,
       UploadInv, Packs!UploadsWhole
  <2>4. CASE folder[p] \in files
    BY <1>8, <2>1, <2>2, <2>4 DEF Packs!ReadFile, Packs!Missing, Packs!Upload, Packs!UploadUnchanged,
       UploadInv, Packs!UploadsWhole
  <2> QED
    BY <2>3, <2>4
<1>9. ASSUME NEW l \in Loaders, Packs!Acquire(l) PROVE UploadInv'
  BY <1>9, NothingFacts DEF Packs!Acquire, Packs!Load, Packs!LoadUnchanged, Packs!LockFree,
     Packs!Idle, UploadInv, Packs!UploadsWhole
<1>10. ASSUME NEW l \in Loaders, Packs!WriteLarge(l) PROVE UploadInv'
  BY <1>10, NothingFacts DEF Packs!WriteLarge, Packs!Copied, Packs!Fails, Packs!Load,
     Packs!LoadUnchanged, Packs!Idle, UploadInv, Packs!UploadsWhole
<1>11. ASSUME NEW l \in Loaders, Packs!Rename(l) PROVE UploadInv'
  BY <1>11, NothingFacts DEF Packs!Rename, Packs!Fails, Packs!Load, Packs!LoadUnchanged, Packs!Idle,
     Packs!Drop, Packs!Restrict, UploadInv, Packs!UploadsWhole
<1>12. ASSUME NEW l \in Loaders, Packs!Kill(l) PROVE UploadInv'
  BY <1>12, NothingFacts DEF Packs!Kill, Packs!Load, Packs!LoadUnchanged, Packs!Idle, UploadInv,
     Packs!UploadsWhole
<1>13. ASSUME NEW l \in Loaders, NEW k \in rows, Packs!Need(l, k) PROVE UploadInv'
  BY <1>13, NothingFacts DEF Packs!Need, Packs!Load, Packs!LoadUnchanged, UploadInv, Packs!UploadsWhole
<1>14. ASSUME NEW l \in Loaders, NEW p \in DOMAIN load[l].package, Packs!CopyFile(l, p) PROVE UploadInv'
  BY <1>14, NothingFacts DEF Packs!CopyFile, Packs!Todo, Packs!Copied, Packs!Fails, Packs!Load,
     Packs!LoadUnchanged, Packs!Idle, UploadInv, Packs!UploadsWhole
<1>15. ASSUME NEW l \in Loaders, NEW p \in DOMAIN load[l].package, Packs!LinkFile(l, p) PROVE UploadInv'
  BY <1>15, NothingFacts DEF Packs!LinkFile, Packs!Todo, Packs!Copied, Packs!Fails, Packs!Load,
     Packs!LoadUnchanged, Packs!Idle, UploadInv, Packs!UploadsWhole
<1>16. ASSUME NEW l \in Loaders, NEW p \in DOMAIN load[l].package, Packs!OpenLarge(l, p) PROVE UploadInv'
  BY <1>16, NothingFacts DEF Packs!OpenLarge, Packs!Todo, Packs!Load, Packs!LoadUnchanged, Packs!Put,
     UploadInv, Packs!UploadsWhole
<1>17. CASE UNCHANGED Packs!pvars
  BY <1>17 DEF Packs!pvars, UploadInv, Packs!UploadsWhole
<1> QED
  BY <1>1, <1>2, <1>3, <1>4, <1>5, <1>6, <1>7, <1>8, <1>9, <1>10, <1>11, <1>12, <1>13, <1>14, <1>15,
     <1>16, <1>17 DEF Packs!Next, Packs!preload_packages, Packs!get_checker_class,
     Packs!packages_push, Packs!Need

(* No step takes a large file back.                                        *)
LEMMA GrowsStep ==
  ASSUME LoadInv, [Packs!Next]_(Packs!pvars)
  PROVE  Grows
<1>1. ASSUME NEW f \in Folders, Packs!Edit(f) PROVE Grows
  BY <1>1 DEF Packs!Edit, Grows
<1>2. ASSUME NEW u \in Uploaders, Packs!UploadStart(u) PROVE Grows
  BY <1>2 DEF Packs!UploadStart, Packs!Upload, Packs!UploadUnchanged, Grows
<1>3. ASSUME NEW u \in Uploaders, Packs!StoreFile(u) PROVE Grows
  BY <1>3 DEF Packs!StoreFile, Packs!Upload, Packs!UploadUnchanged, Grows
<1>4. ASSUME NEW u \in Uploaders, Packs!LookUpPackage(u) PROVE Grows
  BY <1>4 DEF Packs!LookUpPackage, Packs!Upload, Packs!UploadUnchanged, Grows
<1>5. ASSUME NEW u \in Uploaders, Packs!StoreRows(u) PROVE Grows
  BY <1>5 DEF Packs!StoreRows, Packs!Upload, Packs!UploadUnchanged, Grows
<1>6. ASSUME NEW u \in Uploaders, Packs!SetPackage(u) PROVE Grows
  BY <1>6 DEF Packs!SetPackage, Packs!Upload, Packs!UploadUnchanged, Grows
<1>7. ASSUME NEW u \in Uploaders, Packs!packages_test(u) PROVE Grows
  BY <1>7 DEF Packs!packages_test, Packs!Upload, Packs!UploadUnchanged, Grows
<1>8. ASSUME NEW u \in Uploaders, NEW p \in DOMAIN folder, Packs!ReadFile(u, p) PROVE Grows
  BY <1>8 DEF Packs!ReadFile, Packs!Upload, Packs!UploadUnchanged, Grows
<1>9. ASSUME NEW l \in Loaders, Packs!Acquire(l) PROVE Grows
  BY <1>9 DEF Packs!Acquire, Packs!Load, Packs!LoadUnchanged, Packs!LockFree, Packs!Idle, Grows
<1>10. ASSUME NEW l \in Loaders, Packs!WriteLarge(l) PROVE Grows
  <2>1. load[l].package[load[l].path] \in DOMAIN lfs
    BY <1>10 DEF Packs!WriteLarge, LoadInv
  <2> QED
    BY <1>10, <2>1 DEF Packs!WriteLarge, Packs!LoadUnchanged, Grows, Packs!Put
<1>11. ASSUME NEW l \in Loaders, Packs!Rename(l) PROVE Grows
  BY <1>11 DEF Packs!Rename, Packs!Fails, Packs!Load, Packs!LoadUnchanged, Packs!Idle, Packs!Drop,
     Packs!Restrict, Grows
<1>12. ASSUME NEW l \in Loaders, Packs!Kill(l) PROVE Grows
  BY <1>12 DEF Packs!Kill, Packs!Load, Packs!LoadUnchanged, Packs!Idle, Grows
<1>13. ASSUME NEW l \in Loaders, NEW k \in rows, Packs!Need(l, k) PROVE Grows
  BY <1>13 DEF Packs!Need, Packs!Load, Packs!LoadUnchanged, Grows
<1>14. ASSUME NEW l \in Loaders, NEW p \in DOMAIN load[l].package, Packs!CopyFile(l, p) PROVE Grows
  BY <1>14 DEF Packs!CopyFile, Packs!Todo, Packs!Copied, Packs!Fails, Packs!Load,
     Packs!LoadUnchanged, Packs!Idle, Grows
<1>15. ASSUME NEW l \in Loaders, NEW p \in DOMAIN load[l].package, Packs!LinkFile(l, p) PROVE Grows
  BY <1>15 DEF Packs!LinkFile, Packs!Todo, Packs!Copied, Packs!Fails, Packs!Load,
     Packs!LoadUnchanged, Packs!Idle, Grows
<1>16. ASSUME NEW l \in Loaders, NEW p \in DOMAIN load[l].package, Packs!OpenLarge(l, p) PROVE Grows
  BY <1>16 DEF Packs!OpenLarge, Packs!Todo, Packs!Load, Packs!LoadUnchanged, Packs!Put, Grows
<1>17. CASE UNCHANGED Packs!pvars
  BY <1>17 DEF Packs!pvars, Grows
<1> QED
  BY <1>1, <1>2, <1>3, <1>4, <1>5, <1>6, <1>7, <1>8, <1>9, <1>10, <1>11, <1>12, <1>13, <1>14, <1>15,
     <1>16, <1>17 DEF Packs!Next, Packs!preload_packages, Packs!get_checker_class,
     Packs!packages_push, Packs!Need

(* Every step keeps LoadInv.                                               *)
LEMMA LoadStep ==
  ASSUME Packs!Nobody \notin Loaders, UploadInv, LoadInv, StorageInv, PartInv, [Packs!Next]_(Packs!pvars)
  PROVE  LoadInv'
<1>1. ASSUME NEW f \in Folders, Packs!Edit(f) PROVE LoadInv'
  BY <1>1, NothingFacts DEF Packs!Edit, LoadInv
<1>2. ASSUME NEW u \in Uploaders, Packs!UploadStart(u) PROVE LoadInv'
  BY <1>2, NothingFacts DEF Packs!UploadStart, Packs!Upload, Packs!UploadUnchanged, LoadInv
<1>3. ASSUME NEW u \in Uploaders, Packs!StoreFile(u) PROVE LoadInv'
  BY <1>3, NothingFacts DEF Packs!StoreFile, Packs!Upload, Packs!UploadUnchanged, LoadInv
<1>4. ASSUME NEW u \in Uploaders, Packs!LookUpPackage(u) PROVE LoadInv'
  BY <1>4, NothingFacts DEF Packs!LookUpPackage, Packs!Upload, Packs!UploadUnchanged, LoadInv
<1>5. ASSUME NEW u \in Uploaders, Packs!StoreRows(u) PROVE LoadInv'
  BY <1>5, NothingFacts DEF Packs!StoreRows, Packs!Upload, Packs!UploadUnchanged, LoadInv
<1>6. ASSUME NEW u \in Uploaders, Packs!SetPackage(u) PROVE LoadInv'
  BY <1>6, NothingFacts DEF Packs!SetPackage, Packs!Upload, Packs!UploadUnchanged, LoadInv
<1>7. ASSUME NEW u \in Uploaders, Packs!packages_test(u) PROVE LoadInv'
  BY <1>7, NothingFacts DEF Packs!packages_test, Packs!Upload, Packs!UploadUnchanged, LoadInv
<1>8. ASSUME NEW u \in Uploaders, NEW p \in DOMAIN folder, Packs!ReadFile(u, p) PROVE LoadInv'
  BY <1>8, NothingFacts DEF Packs!ReadFile, Packs!Upload, Packs!UploadUnchanged, LoadInv
<1>9. ASSUME NEW l \in Loaders, Packs!Acquire(l) PROVE LoadInv'
  <2> DEFINE k == load[l].package
  <2>1. CASE k \in DOMAIN disk
    BY <1>9, <2>1 DEF Packs!Acquire, Packs!Load, Packs!Idle, Packs!LoadUnchanged, LoadInv
  <2>2. CASE k \notin DOMAIN disk
    <3>1. \A m \in Loaders : load[m].step \notin {"copy", "large"}
      BY <1>9, NoLoader DEF Packs!Acquire, Packs!LockFree
    <3>2. DOMAIN part' = DOMAIN part \cup {k}
      BY <1>9, <2>2 DEF Packs!Acquire, Packs!Put
    <3>3. /\ lock' = l /\ DOMAIN load' = Loaders /\ \A m \in Loaders : m # l => load'[m] = load[m]
          /\ load'[l] = [step |-> "copy", package |-> k, done |-> {}]
      BY <1>9, <2>2 DEF Packs!Acquire, Packs!Load, LoadInv
    <3> QED
      BY <3>1, <3>2, <3>3 DEF LoadInv
  <2> QED
    BY <2>1, <2>2
<1>10. ASSUME NEW l \in Loaders, Packs!WriteLarge(l) PROVE LoadInv'
  <2>1. load[l].step \in {"copy", "large"}
    BY <1>10 DEF Packs!WriteLarge
  <2>2. lock = l /\ \A m \in Loaders : m # l => load[m].step \notin {"copy", "large"}
    BY <2>1, OneLoader
  <2>3. GivesUp(l) \/ Adds(l, load[l].path, "link")
    BY <1>10, <2>1, CopiedFacts DEF Packs!WriteLarge
  <2>4. DOMAIN lfs \subseteq DOMAIN lfs'
    BY <1>10 DEF Packs!WriteLarge, Packs!Put
  <2>5. CASE GivesUp(l)
    BY <2>2, <2>4, <2>5 DEF GivesUp, Packs!Idle, LoadInv
  <2>6. CASE Adds(l, load[l].path, "link")
    <3>1. DOMAIN part'[load[l].package] = DOMAIN part[load[l].package] \cup {load[l].path}
      BY <2>6 DEF Adds, Packs!Put
    <3> QED
      BY <2>1, <2>2, <2>4, <2>6, <3>1 DEF Adds, LoadInv
  <2> QED
    BY <2>3, <2>5, <2>6
<1>11. ASSUME NEW l \in Loaders, Packs!Rename(l) PROVE LoadInv'
  BY <1>11, NothingFacts DEF Packs!Rename, Packs!Fails, Packs!Load, Packs!LoadUnchanged, Packs!Idle,
     Packs!Drop, Packs!Restrict, LoadInv
<1>12. ASSUME NEW l \in Loaders, Packs!Kill(l) PROVE LoadInv'
  BY <1>12, NothingFacts DEF Packs!Kill, Packs!Load, Packs!LoadUnchanged, Packs!Idle, LoadInv
<1>13. ASSUME NEW l \in Loaders, NEW k \in rows, Packs!Need(l, k) PROVE LoadInv'
  BY <1>13, NothingFacts DEF Packs!Need, Packs!Load, Packs!LoadUnchanged, LoadInv
<1>14. ASSUME NEW l \in Loaders, NEW p \in DOMAIN load[l].package, Packs!CopyFile(l, p) PROVE LoadInv'
  <2>1. load[l].step \in {"copy", "large"}
    BY <1>14 DEF Packs!CopyFile, Packs!Todo
  <2>2. lock = l /\ \A m \in Loaders : m # l => load[m].step \notin {"copy", "large"}
    BY <2>1, OneLoader
  <2>3. GivesUp(l) \/ Adds(l, p, "file")
    BY <1>14, <2>1, CopiedFacts DEF Packs!CopyFile
  <2>4. DOMAIN lfs \subseteq DOMAIN lfs'
    BY <1>14 DEF Packs!CopyFile, Packs!Put
  <2>5. CASE GivesUp(l)
    BY <2>2, <2>4, <2>5 DEF GivesUp, Packs!Idle, LoadInv
  <2>6. CASE Adds(l, p, "file")
    <3>1. DOMAIN part'[load[l].package] = DOMAIN part[load[l].package] \cup {p}
      BY <2>6 DEF Adds, Packs!Put
    <3> QED
      BY <2>1, <2>2, <2>4, <2>6, <3>1 DEF Adds, LoadInv
  <2> QED
    BY <2>3, <2>5, <2>6
<1>15. ASSUME NEW l \in Loaders, NEW p \in DOMAIN load[l].package, Packs!LinkFile(l, p) PROVE LoadInv'
  <2>1. load[l].step \in {"copy", "large"}
    BY <1>15 DEF Packs!LinkFile, Packs!Todo
  <2>2. lock = l /\ \A m \in Loaders : m # l => load[m].step \notin {"copy", "large"}
    BY <2>1, OneLoader
  <2>3. GivesUp(l) \/ Adds(l, p, "link")
    BY <1>15, <2>1, CopiedFacts DEF Packs!LinkFile
  <2>4. DOMAIN lfs \subseteq DOMAIN lfs'
    BY <1>15 DEF Packs!LinkFile, Packs!Put
  <2>5. CASE GivesUp(l)
    BY <2>2, <2>4, <2>5 DEF GivesUp, Packs!Idle, LoadInv
  <2>6. CASE Adds(l, p, "link")
    <3>1. DOMAIN part'[load[l].package] = DOMAIN part[load[l].package] \cup {p}
      BY <2>6 DEF Adds, Packs!Put
    <3> QED
      BY <2>1, <2>2, <2>4, <2>6, <3>1 DEF Adds, LoadInv
  <2> QED
    BY <2>3, <2>5, <2>6
<1>16. ASSUME NEW l \in Loaders, NEW p \in DOMAIN load[l].package, Packs!OpenLarge(l, p) PROVE LoadInv'
  <2> DEFINE k == load[l].package
  <2>1. load[l].step = "copy" /\ lock = l /\ \A m \in Loaders : m # l => load[m].step \notin {"copy", "large"}
    BY <1>16, OneLoader DEF Packs!OpenLarge, Packs!Todo
  <2>2. DOMAIN lfs' = DOMAIN lfs \cup {k[p]}
    BY <1>16 DEF Packs!OpenLarge, Packs!Put
  <2>3. /\ DOMAIN load' = Loaders /\ \A m \in Loaders : m # l => load'[m] = load[m]
        /\ load'[l] = [step |-> "large", package |-> k, done |-> load[l].done, path |-> p]
    BY <1>16 DEF Packs!OpenLarge, Packs!Load, LoadInv
  <2>4. /\ load'[l].step = "large" /\ load'[l].package = k /\ load'[l].done = load[l].done /\ load'[l].path = p
        /\ {"step", "package", "done"} \subseteq DOMAIN load'[l]
    BY <2>3
  <2>5. UNCHANGED <<part, lock>>
    BY <1>16 DEF Packs!OpenLarge
  <2> QED
    BY <2>1, <2>2, <2>3, <2>4, <2>5 DEF LoadInv
<1>17. CASE UNCHANGED Packs!pvars
  BY <1>17 DEF Packs!pvars, LoadInv
<1> QED
  BY <1>1, <1>2, <1>3, <1>4, <1>5, <1>6, <1>7, <1>8, <1>9, <1>10, <1>11, <1>12, <1>13, <1>14, <1>15,
     <1>16, <1>17 DEF Packs!Next, Packs!preload_packages, Packs!get_checker_class,
     Packs!packages_push, Packs!Need

(* Every step keeps StorageInv.                                            *)
LEMMA StorageStep ==
  ASSUME Packs!Nobody \notin Loaders, UploadInv, LoadInv, StorageInv, PartInv, [Packs!Next]_(Packs!pvars)
  PROVE  StorageInv'
<1>1. ASSUME NEW f \in Folders, Packs!Edit(f) PROVE StorageInv'
  BY <1>1 DEF Packs!Edit, StorageInv, LoadInv
<1>2. ASSUME NEW u \in Uploaders, Packs!UploadStart(u) PROVE StorageInv'
  BY <1>2 DEF Packs!UploadStart, Packs!Upload, Packs!UploadUnchanged, StorageInv, LoadInv
<1>3. ASSUME NEW u \in Uploaders, Packs!StoreFile(u) PROVE StorageInv'
  BY <1>3 DEF Packs!StoreFile, Packs!Upload, Packs!UploadUnchanged, StorageInv, LoadInv
<1>4. ASSUME NEW u \in Uploaders, Packs!LookUpPackage(u) PROVE StorageInv'
  BY <1>4 DEF Packs!LookUpPackage, Packs!Upload, Packs!UploadUnchanged, StorageInv, LoadInv
<1>5. ASSUME NEW u \in Uploaders, Packs!StoreRows(u) PROVE StorageInv'
  BY <1>5 DEF Packs!StoreRows, Packs!Upload, Packs!UploadUnchanged, StorageInv, LoadInv
<1>6. ASSUME NEW u \in Uploaders, Packs!SetPackage(u) PROVE StorageInv'
  BY <1>6 DEF Packs!SetPackage, Packs!Upload, Packs!UploadUnchanged, StorageInv, LoadInv
<1>7. ASSUME NEW u \in Uploaders, Packs!packages_test(u) PROVE StorageInv'
  BY <1>7 DEF Packs!packages_test, Packs!Upload, Packs!UploadUnchanged, StorageInv, LoadInv
<1>8. ASSUME NEW u \in Uploaders, NEW p \in DOMAIN folder, Packs!ReadFile(u, p) PROVE StorageInv'
  BY <1>8 DEF Packs!ReadFile, Packs!Upload, Packs!UploadUnchanged, StorageInv, LoadInv
<1>9. ASSUME NEW l \in Loaders, Packs!Acquire(l) PROVE StorageInv'
  BY <1>9 DEF Packs!Acquire, Packs!Load, Packs!LoadUnchanged, Packs!LockFree, Packs!Idle, StorageInv,
     LoadInv
<1>10. ASSUME NEW l \in Loaders, Packs!WriteLarge(l) PROVE StorageInv'
  <2> DEFINE h == load[l].package[load[l].path]
  <2>1. h \in DOMAIN lfs /\ load[l].step = "large"
    BY <1>10 DEF Packs!WriteLarge, LoadInv
  <2>2. \A m \in Loaders : m # l => load[m].step # "large"
    BY <2>1, OneLoader
  <2>3. /\ DOMAIN lfs' = DOMAIN lfs /\ lfs'[h] = "full" /\ torn' = torn
        /\ \A g \in DOMAIN lfs : g # h => lfs'[g] = lfs[g]
    BY <1>10, <2>1 DEF Packs!WriteLarge, Packs!Put
  <2>4. ~torn => \A g \in DOMAIN lfs' : lfs'[g] = "full"
    BY <2>1, <2>2, <2>3 DEF StorageInv
  <2> QED
    BY <2>3, <2>4 DEF StorageInv
<1>11. ASSUME NEW l \in Loaders, Packs!Rename(l) PROVE StorageInv'
  BY <1>11 DEF Packs!Rename, Packs!Fails, Packs!Load, Packs!LoadUnchanged, Packs!Idle, Packs!Drop,
     Packs!Restrict, StorageInv, LoadInv
<1>12. ASSUME NEW l \in Loaders, Packs!Kill(l) PROVE StorageInv'
  BY <1>12 DEF Packs!Kill, Packs!Load, Packs!LoadUnchanged, Packs!Idle, StorageInv, LoadInv
<1>13. ASSUME NEW l \in Loaders, NEW k \in rows, Packs!Need(l, k) PROVE StorageInv'
  BY <1>13 DEF Packs!Need, Packs!Load, Packs!LoadUnchanged, StorageInv, LoadInv
<1>14. ASSUME NEW l \in Loaders, NEW p \in DOMAIN load[l].package, Packs!CopyFile(l, p) PROVE StorageInv'
  BY <1>14 DEF Packs!CopyFile, Packs!Todo, Packs!Copied, Packs!Fails, Packs!Load,
     Packs!LoadUnchanged, Packs!Idle, StorageInv, LoadInv
<1>15. ASSUME NEW l \in Loaders, NEW p \in DOMAIN load[l].package, Packs!LinkFile(l, p) PROVE StorageInv'
  BY <1>15 DEF Packs!LinkFile, Packs!Todo, Packs!Copied, Packs!Fails, Packs!Load,
     Packs!LoadUnchanged, Packs!Idle, StorageInv, LoadInv
<1>16. ASSUME NEW l \in Loaders, NEW p \in DOMAIN load[l].package, Packs!OpenLarge(l, p) PROVE StorageInv'
  <2> DEFINE h == load[l].package[p]
  <2>1. DOMAIN lfs' = DOMAIN lfs \cup {h} /\ h \in Big /\ \A g \in DOMAIN lfs : g # h => lfs'[g] = lfs[g]
    BY <1>16 DEF Packs!OpenLarge, Packs!Put
  <2>2. /\ \A m \in Loaders : m # l => load'[m] = load[m]
        /\ load'[l] = [step |-> "large", package |-> load[l].package, done |-> load[l].done, path |-> p]
    BY <1>16 DEF Packs!OpenLarge, Packs!Load, LoadInv
  <2>3. load'[l].step = "large" /\ load'[l].package[load'[l].path] = h
    BY <2>2
  <2>4. load[l].step # "large" /\ torn' = torn
    BY <1>16 DEF Packs!OpenLarge, Packs!Todo
  <2> QED
    BY <2>1, <2>2, <2>3, <2>4 DEF StorageInv
<1>17. CASE UNCHANGED Packs!pvars
  BY <1>17 DEF Packs!pvars, StorageInv, LoadInv
<1> QED
  BY <1>1, <1>2, <1>3, <1>4, <1>5, <1>6, <1>7, <1>8, <1>9, <1>10, <1>11, <1>12, <1>13, <1>14, <1>15,
     <1>16, <1>17 DEF Packs!Next, Packs!preload_packages, Packs!get_checker_class,
     Packs!packages_push, Packs!Need

(* Every step keeps PartInv.                                               *)
LEMMA PartStep ==
  ASSUME Packs!Nobody \notin Loaders, UploadInv, LoadInv, StorageInv, PartInv, [Packs!Next]_(Packs!pvars)
  PROVE  PartInv'
<1>1. ASSUME NEW f \in Folders, Packs!Edit(f) PROVE PartInv'
  BY <1>1, NothingFacts DEF Packs!Edit, PartInv
<1>2. ASSUME NEW u \in Uploaders, Packs!UploadStart(u) PROVE PartInv'
  BY <1>2, NothingFacts DEF Packs!UploadStart, Packs!Upload, Packs!UploadUnchanged, PartInv
<1>3. ASSUME NEW u \in Uploaders, Packs!StoreFile(u) PROVE PartInv'
  BY <1>3, NothingFacts DEF Packs!StoreFile, Packs!Upload, Packs!UploadUnchanged, PartInv
<1>4. ASSUME NEW u \in Uploaders, Packs!LookUpPackage(u) PROVE PartInv'
  BY <1>4, NothingFacts DEF Packs!LookUpPackage, Packs!Upload, Packs!UploadUnchanged, PartInv
<1>5. ASSUME NEW u \in Uploaders, Packs!StoreRows(u) PROVE PartInv'
  BY <1>5, NothingFacts DEF Packs!StoreRows, Packs!Upload, Packs!UploadUnchanged, PartInv
<1>6. ASSUME NEW u \in Uploaders, Packs!SetPackage(u) PROVE PartInv'
  BY <1>6, NothingFacts DEF Packs!SetPackage, Packs!Upload, Packs!UploadUnchanged, PartInv
<1>7. ASSUME NEW u \in Uploaders, Packs!packages_test(u) PROVE PartInv'
  BY <1>7, NothingFacts DEF Packs!packages_test, Packs!Upload, Packs!UploadUnchanged, PartInv
<1>8. ASSUME NEW u \in Uploaders, NEW p \in DOMAIN folder, Packs!ReadFile(u, p) PROVE PartInv'
  BY <1>8, NothingFacts DEF Packs!ReadFile, Packs!Upload, Packs!UploadUnchanged, PartInv
<1>9. ASSUME NEW l \in Loaders, Packs!Acquire(l) PROVE PartInv'
  <2> DEFINE k == load[l].package
  <2>1. Grows
    BY <1>9, GrowsStep DEF Packs!Next
  <2>2. CASE part' = part
    BY <2>1, <2>2, RightStays DEF PartInv
  <2>3. CASE k \notin DOMAIN part /\ part' = Packs!Put(part, k, Packs!Nothing)
    <3>1. /\ DOMAIN part' = DOMAIN part \cup {k} /\ part'[k] = Packs!Nothing
          /\ \A j \in DOMAIN part : part'[j] = part[j]
      BY <2>3 DEF Packs!Put
    <3> QED
      BY <2>1, <3>1, NothingFacts, RightStays DEF PartInv
  <2> QED
    BY <1>9, <2>2, <2>3 DEF Packs!Acquire
<1>10. ASSUME NEW l \in Loaders, Packs!WriteLarge(l) PROVE PartInv'
  <2> DEFINE k == load[l].package
             e == [kind |-> "link", hash |-> k[load[l].path]]
  <2>1. Grows
    BY <1>10, GrowsStep DEF Packs!Next
  <2>2. load[l].step \in {"copy", "large"} /\ load[l].path \in DOMAIN k
    BY <1>10 DEF Packs!WriteLarge, LoadInv
  <2>3. GivesUp(l) \/ Adds(l, load[l].path, "link")
    BY <1>10, <2>2, CopiedFacts DEF Packs!WriteLarge
  <2>4. e.hash = k[load[l].path] /\ k[load[l].path] \in DOMAIN lfs' /\ lfs'[k[load[l].path]] = "full"
    BY <1>10 DEF Packs!WriteLarge, Packs!Put
  <2>5. CASE GivesUp(l)
    BY <2>1, <2>5, RightStays DEF GivesUp, PartInv
  <2>6. CASE Adds(l, load[l].path, "link")
    <3>1. PICK j : j = k
      OBVIOUS
    <3>2. PICK q : q = load[l].path
      OBVIOUS
    <3>3. PICK d : d = e
      OBVIOUS
    <3>4. /\ j \in DOMAIN part /\ DOMAIN part' = DOMAIN part /\ part'[j] = Packs!Put(part[j], q, d)
          /\ \A i \in DOMAIN part : i # j => part'[i] = part[i]
      BY <2>6, <3>1, <3>2, <3>3 DEF Adds
    <3>5. Right(j, q, d, lfs', torn')
      BY <2>4, <3>1, <3>2, <3>3 DEF Right
    <3>6. /\ DOMAIN part'[j] = DOMAIN part[j] \cup {q} /\ part'[j][q] = d
          /\ \A i \in DOMAIN part[j] : i # q => part'[j][i] = part[j][i]
      BY <3>4 DEF Packs!Put
    <3>7. q \in DOMAIN j
      BY <2>2, <3>1, <3>2
    <3>8. \A i \in DOMAIN part'[j] : Right(j, i, part'[j][i], lfs', torn')
      BY <2>1, <3>4, <3>5, <3>6, RightStays DEF PartInv
    <3>9. \A i \in DOMAIN part' : i # j => \A o \in DOMAIN part'[i] : Right(i, o, part'[i][o], lfs', torn')
      BY <2>1, <3>4, RightStays DEF PartInv
    <3> QED
      BY <3>4, <3>6, <3>7, <3>8, <3>9 DEF PartInv
  <2> QED
    BY <2>3, <2>5, <2>6
<1>11. ASSUME NEW l \in Loaders, Packs!Rename(l) PROVE PartInv'
  <2> DEFINE k == load[l].package
  <2>1. Grows
    BY <1>11, GrowsStep DEF Packs!Next
  <2>2. CASE part' = part
    BY <2>1, <2>2, RightStays DEF PartInv
  <2>3. CASE part' = Packs!Drop(part, k)
    BY <2>1, <2>3, RightStays DEF PartInv, Packs!Drop, Packs!Restrict
  <2> QED
    BY <1>11, <2>2, <2>3 DEF Packs!Rename
<1>12. ASSUME NEW l \in Loaders, Packs!Kill(l) PROVE PartInv'
  <2>1. Grows
    BY <1>12, GrowsStep DEF Packs!Next
  <2> QED
    BY <1>12, <2>1, RightStays DEF Packs!Kill, Packs!LoadUnchanged, PartInv
<1>13. ASSUME NEW l \in Loaders, NEW k \in rows, Packs!Need(l, k) PROVE PartInv'
  BY <1>13, NothingFacts DEF Packs!Need, Packs!Load, Packs!LoadUnchanged, PartInv
<1>14. ASSUME NEW l \in Loaders, NEW p \in DOMAIN load[l].package, Packs!CopyFile(l, p) PROVE PartInv'
  <2> DEFINE k == load[l].package
             e == [kind |-> "file", hash |-> k[p]]
  <2>1. Grows
    BY <1>14, GrowsStep DEF Packs!Next
  <2>2. load[l].step \in {"copy", "large"} /\ p \in DOMAIN k
    BY <1>14 DEF Packs!CopyFile, Packs!Todo, LoadInv
  <2>3. GivesUp(l) \/ Adds(l, p, "file")
    BY <1>14, <2>2, CopiedFacts DEF Packs!CopyFile
  <2>4. e.kind # "link" /\ e.hash = k[p]
    OBVIOUS
  <2>5. CASE GivesUp(l)
    BY <2>1, <2>5, RightStays DEF GivesUp, PartInv
  <2>6. CASE Adds(l, p, "file")
    <3>1. PICK j : j = k
      OBVIOUS
    <3>2. PICK q : q = p
      OBVIOUS
    <3>3. PICK d : d = e
      OBVIOUS
    <3>4. /\ j \in DOMAIN part /\ DOMAIN part' = DOMAIN part /\ part'[j] = Packs!Put(part[j], q, d)
          /\ \A i \in DOMAIN part : i # j => part'[i] = part[i]
      BY <2>6, <3>1, <3>2, <3>3 DEF Adds
    <3>5. Right(j, q, d, lfs', torn')
      BY <2>4, <3>1, <3>2, <3>3 DEF Right
    <3>6. /\ DOMAIN part'[j] = DOMAIN part[j] \cup {q} /\ part'[j][q] = d
          /\ \A i \in DOMAIN part[j] : i # q => part'[j][i] = part[j][i]
      BY <3>4 DEF Packs!Put
    <3>7. q \in DOMAIN j
      BY <2>2, <3>1, <3>2
    <3>8. \A i \in DOMAIN part'[j] : Right(j, i, part'[j][i], lfs', torn')
      BY <2>1, <3>4, <3>5, <3>6, RightStays DEF PartInv
    <3>9. \A i \in DOMAIN part' : i # j => \A o \in DOMAIN part'[i] : Right(i, o, part'[i][o], lfs', torn')
      BY <2>1, <3>4, RightStays DEF PartInv
    <3> QED
      BY <3>4, <3>6, <3>7, <3>8, <3>9 DEF PartInv
  <2> QED
    BY <2>3, <2>5, <2>6
<1>15. ASSUME NEW l \in Loaders, NEW p \in DOMAIN load[l].package, Packs!LinkFile(l, p) PROVE PartInv'
  <2> DEFINE k == load[l].package
             e == [kind |-> "link", hash |-> k[p]]
  <2>1. Grows
    BY <1>15, GrowsStep DEF Packs!Next
  <2>2. load[l].step \in {"copy", "large"} /\ p \in DOMAIN k
    BY <1>15 DEF Packs!LinkFile, Packs!Todo, LoadInv
  <2>3. GivesUp(l) \/ Adds(l, p, "link")
    BY <1>15, <2>2, CopiedFacts DEF Packs!LinkFile
  <2>4. e.hash = k[p] /\ k[p] \in DOMAIN lfs' /\ (~torn' => lfs'[k[p]] = "full")
    <3>1. k[p] \in DOMAIN lfs /\ lfs' = lfs /\ torn' = torn /\ load[l].step = "copy"
      BY <1>15 DEF Packs!LinkFile, Packs!Todo
    <3>2. \A m \in Loaders : load[m].step # "large"
      BY <3>1, OneLoader
    <3> QED
      BY <3>1, <3>2 DEF StorageInv
  <2>5. CASE GivesUp(l)
    BY <2>1, <2>5, RightStays DEF GivesUp, PartInv
  <2>6. CASE Adds(l, p, "link")
    <3>1. PICK j : j = k
      OBVIOUS
    <3>2. PICK q : q = p
      OBVIOUS
    <3>3. PICK d : d = e
      OBVIOUS
    <3>4. /\ j \in DOMAIN part /\ DOMAIN part' = DOMAIN part /\ part'[j] = Packs!Put(part[j], q, d)
          /\ \A i \in DOMAIN part : i # j => part'[i] = part[i]
      BY <2>6, <3>1, <3>2, <3>3 DEF Adds
    <3>5. Right(j, q, d, lfs', torn')
      BY <2>4, <3>1, <3>2, <3>3 DEF Right
    <3>6. /\ DOMAIN part'[j] = DOMAIN part[j] \cup {q} /\ part'[j][q] = d
          /\ \A i \in DOMAIN part[j] : i # q => part'[j][i] = part[j][i]
      BY <3>4 DEF Packs!Put
    <3>7. q \in DOMAIN j
      BY <2>2, <3>1, <3>2
    <3>8. \A i \in DOMAIN part'[j] : Right(j, i, part'[j][i], lfs', torn')
      BY <2>1, <3>4, <3>5, <3>6, RightStays DEF PartInv
    <3>9. \A i \in DOMAIN part' : i # j => \A o \in DOMAIN part'[i] : Right(i, o, part'[i][o], lfs', torn')
      BY <2>1, <3>4, RightStays DEF PartInv
    <3> QED
      BY <3>4, <3>6, <3>7, <3>8, <3>9 DEF PartInv
  <2> QED
    BY <2>3, <2>5, <2>6
<1>16. ASSUME NEW l \in Loaders, NEW p \in DOMAIN load[l].package, Packs!OpenLarge(l, p) PROVE PartInv'
  <2>1. Grows
    BY <1>16, GrowsStep DEF Packs!Next
  <2> QED
    BY <1>16, <2>1, RightStays DEF Packs!OpenLarge, Packs!LoadUnchanged, PartInv
<1>17. CASE UNCHANGED Packs!pvars
  BY <1>17 DEF Packs!pvars, PartInv
<1> QED
  BY <1>1, <1>2, <1>3, <1>4, <1>5, <1>6, <1>7, <1>8, <1>9, <1>10, <1>11, <1>12, <1>13, <1>14, <1>15,
     <1>16, <1>17 DEF Packs!Next, Packs!preload_packages, Packs!get_checker_class,
     Packs!packages_push, Packs!Need

(* Every step keeps DiskInv.                                               *)
LEMMA DiskStep ==
  ASSUME Packs!Nobody \notin Loaders, UploadInv, LoadInv, StorageInv, PartInv, DiskInv, [Packs!Next]_(Packs!pvars)
  PROVE  DiskInv'
<1>1. ASSUME NEW f \in Folders, Packs!Edit(f) PROVE DiskInv'
  BY <1>1 DEF Packs!Edit, DiskInv
<1>2. ASSUME NEW u \in Uploaders, Packs!UploadStart(u) PROVE DiskInv'
  BY <1>2 DEF Packs!UploadStart, Packs!Upload, Packs!UploadUnchanged, DiskInv
<1>3. ASSUME NEW u \in Uploaders, Packs!StoreFile(u) PROVE DiskInv'
  BY <1>3 DEF Packs!StoreFile, Packs!Upload, Packs!UploadUnchanged, DiskInv
<1>4. ASSUME NEW u \in Uploaders, Packs!LookUpPackage(u) PROVE DiskInv'
  BY <1>4 DEF Packs!LookUpPackage, Packs!Upload, Packs!UploadUnchanged, DiskInv
<1>5. ASSUME NEW u \in Uploaders, Packs!StoreRows(u) PROVE DiskInv'
  BY <1>5 DEF Packs!StoreRows, Packs!Upload, Packs!UploadUnchanged, DiskInv
<1>6. ASSUME NEW u \in Uploaders, Packs!SetPackage(u) PROVE DiskInv'
  BY <1>6 DEF Packs!SetPackage, Packs!Upload, Packs!UploadUnchanged, DiskInv
<1>7. ASSUME NEW u \in Uploaders, Packs!packages_test(u) PROVE DiskInv'
  BY <1>7 DEF Packs!packages_test, Packs!Upload, Packs!UploadUnchanged, DiskInv
<1>8. ASSUME NEW u \in Uploaders, NEW p \in DOMAIN folder, Packs!ReadFile(u, p) PROVE DiskInv'
  BY <1>8 DEF Packs!ReadFile, Packs!Upload, Packs!UploadUnchanged, DiskInv
<1>9. ASSUME NEW l \in Loaders, Packs!Acquire(l) PROVE DiskInv'
  BY <1>9 DEF Packs!Acquire, Packs!Load, Packs!LoadUnchanged, Packs!LockFree, Packs!Idle, DiskInv
<1>10. ASSUME NEW l \in Loaders, Packs!WriteLarge(l) PROVE DiskInv'
  <2>1. Grows
    BY <1>10, GrowsStep DEF Packs!Next
  <2> QED
    BY <1>10, <2>1, RightStays DEF Packs!WriteLarge, Packs!LoadUnchanged, DiskInv
<1>11. ASSUME NEW l \in Loaders, Packs!Rename(l) PROVE DiskInv'
  <2> DEFINE k == load[l].package
  <2>1. Grows
    BY <1>11, GrowsStep DEF Packs!Next
  <2>2. CASE disk' = disk
    BY <2>1, <2>2, RightStays DEF DiskInv
  <2>3. CASE k \in DOMAIN part /\ k \notin DOMAIN disk /\ disk' = Packs!Put(disk, k, part[k])
    <3>1. PICK j : j = k
      OBVIOUS
    <3>2. PICK d : d = part[j]
      OBVIOUS
    <3>3. DOMAIN disk' = DOMAIN disk \cup {j} /\ disk'[j] = d /\ \A i \in DOMAIN disk : disk'[i] = disk[i]
      BY <2>3, <3>1, <3>2 DEF Packs!Put
    <3>4. DOMAIN d = DOMAIN j
      BY <1>11, <2>3, <3>1, <3>2 DEF Packs!Rename, LoadInv, PartInv
    <3>5. \A p \in DOMAIN j : Right(j, p, d[p], lfs, torn)
      BY <2>3, <3>1, <3>2, <3>4 DEF PartInv
    <3>6. \A p \in DOMAIN j : Right(j, p, d[p], lfs', torn')
      BY <2>1, <3>5, RightStays
    <3>7. \A i \in DOMAIN disk : \A p \in DOMAIN i : Right(i, p, disk'[i][p], lfs', torn')
      BY <2>1, <3>3, RightStays DEF DiskInv
    <3> QED
      BY <3>3, <3>4, <3>6, <3>7 DEF DiskInv
  <2> QED
    BY <1>11, <2>2, <2>3 DEF Packs!Rename
<1>12. ASSUME NEW l \in Loaders, Packs!Kill(l) PROVE DiskInv'
  <2>1. Grows
    BY <1>12, GrowsStep DEF Packs!Next
  <2> QED
    BY <1>12, <2>1, RightStays DEF Packs!Kill, Packs!LoadUnchanged, DiskInv
<1>13. ASSUME NEW l \in Loaders, NEW k \in rows, Packs!Need(l, k) PROVE DiskInv'
  BY <1>13 DEF Packs!Need, Packs!Load, Packs!LoadUnchanged, DiskInv
<1>14. ASSUME NEW l \in Loaders, NEW p \in DOMAIN load[l].package, Packs!CopyFile(l, p) PROVE DiskInv'
  BY <1>14 DEF Packs!CopyFile, Packs!Todo, Packs!Copied, Packs!Fails, Packs!Load,
     Packs!LoadUnchanged, Packs!Idle, DiskInv
<1>15. ASSUME NEW l \in Loaders, NEW p \in DOMAIN load[l].package, Packs!LinkFile(l, p) PROVE DiskInv'
  BY <1>15 DEF Packs!LinkFile, Packs!Todo, Packs!Copied, Packs!Fails, Packs!Load,
     Packs!LoadUnchanged, Packs!Idle, DiskInv
<1>16. ASSUME NEW l \in Loaders, NEW p \in DOMAIN load[l].package, Packs!OpenLarge(l, p) PROVE DiskInv'
  <2>1. Grows
    BY <1>16, GrowsStep DEF Packs!Next
  <2> QED
    BY <1>16, <2>1, RightStays DEF Packs!OpenLarge, Packs!LoadUnchanged, DiskInv
<1>17. CASE UNCHANGED Packs!pvars
  BY <1>17 DEF Packs!pvars, DiskInv
<1> QED
  BY <1>1, <1>2, <1>3, <1>4, <1>5, <1>6, <1>7, <1>8, <1>9, <1>10, <1>11, <1>12, <1>13, <1>14, <1>15,
     <1>16, <1>17 DEF Packs!Next, Packs!preload_packages, Packs!get_checker_class,
     Packs!packages_push, Packs!Need

-----------------------------------------------------------------------------
(* Theorems.                                                               *)

(* The invariant holds in every reachable state.                           *)
THEOREM PackagesCorrect ==
  ASSUME Packs!Nobody \notin Loaders
  PROVE  Packs!Spec => []PackagesInv
<1>1. Packs!Init => PackagesInv
  BY NothingFacts DEF Packs!Init, PackagesInv, UploadInv, Packs!UploadsWhole, LoadInv, StorageInv,
     PartInv, DiskInv
<1>2. PackagesInv /\ [Packs!Next]_(Packs!pvars) => PackagesInv'
  BY UploadStep, LoadStep, StorageStep, PartStep, DiskStep DEF PackagesInv
<1> QED
  BY <1>1, <1>2, PTL DEF Packs!Spec

(* The component by itself.                                               *)
LEMMA PackagesAlone ==
  ASSUME Packs!Nobody \notin Loaders
  PROVE  Packs!Spec => [](Packs!TypeOK /\ Packs!PackagesWhole)
<1>1. PackagesInv => Packs!TypeOK /\ Packs!UploadsWhole
  BY DEF PackagesInv, UploadInv, LoadInv, StorageInv, Packs!TypeOK, Hashes
<1>2. PackagesInv => Packs!LoadedWhole
  BY DEF PackagesInv, DiskInv, Right, Packs!LoadedWhole
<1>3. PackagesInv => Packs!TypeOK /\ Packs!PackagesWhole
  BY <1>1, <1>2 DEF Packs!PackagesWhole
<1> QED
  BY <1>3, PackagesCorrect, PTL

(* move_folder_to_package, store_file_in_database: the package a service   *)
(* names, and every package in the database, is there with all its files,  *)
(* however many requests overlap with each other and with changes of the   *)
(* folder they read.  ensure_package_exists, load_package_to_folder: a     *)
(* package folder that other processes can see is complete, and so are the *)
(* large files it links to, unless a process was killed while it wrote a   *)
(* large file.                                                             *)
THEOREM PackagesWholeCorrect == Spec => []PackagesWhole
<1> DEFINE Chosen == component = "packages"
<1>1. Packs!Spec => [](Packs!TypeOK /\ Packs!PackagesWhole)
  BY PackagesAlone, ToolsAssumption
<1>2. Init /\ Chosen => Packs!Init
  BY DEF Init
<1>3. Chosen /\ [Next]_tools => Chosen' /\ [Packs!Next]_(Packs!pvars)
  BY OneComponent DEF Next, tools, Packs!pvars
<1>4. ~Chosen /\ [Next]_tools => ~Chosen'
  BY OneComponent
<1> QED
  BY <1>1, <1>2, <1>3, <1>4, PTL DEF Spec, Packs!Spec, PackagesWhole

-----------------------------------------------------------------------------
(* wireguard-sync, for every set of interfaces.                            *)

(* The names of its variables.                                             *)
api == v1
dev == v2
file == v3
tmp == v4
proc == v5
keys == v6
tasks == v7
errors == v8
crashes == v9
past == v10
USE DEF api, dev, file, tmp, proc, keys, tasks, errors, crashes, past

-----------------------------------------------------------------------------
(* The inductive invariant.                                                *)

Stores == [teams: SUBSET WireguardTeams]
Devices == [peers: PeerSets \cup {{}}]
Interfaces == [version: 1..MaxVersion, synced: 0..MaxVersion, peers: PeerSets, pub: BOOLEAN]
Tasks == [team: WireguardTeams, step: Wireguard!Steps, iface: {Wireguard!None} \cup Interfaces, waited: BOOLEAN]

(* The types of all variables; tasks exist in a running process only.      *)
TypeInv ==
  /\ api \in [WireguardTeams -> Interfaces]
  /\ dev \in [WireguardTeams -> {Wireguard!None} \cup Devices]
  /\ file \in {Wireguard!None} \cup Stores /\ tmp \in {Wireguard!None} \cup Stores
  /\ proc \in {"off", "start", "init", "loop"} /\ keys \in SUBSET WireguardTeams
  /\ tasks \in SUBSET Tasks
  /\ past \in [overlap: BOOLEAN, removed: BOOLEAN, failed: BOOLEAN]
  /\ proc \in {"off", "start"} => tasks = {}

(* What a task has fetched is the description, or an earlier one; a public *)
(* key that was there then is there still.                                 *)
FetchedInv ==
  \A x \in tasks : x.step # "fetch" =>
    /\ x.iface \in Interfaces
    /\ x.iface.pub => api[x.team].pub
    /\ x.iface.version <= api[x.team].version
    /\ x.iface.version = api[x.team].version => x.iface.peers = api[x.team].peers

(* One task writes the key store, and the others wait.                     *)
WriterInv == \A x, y \in Wireguard!Writing : x = y

Replacing == {x \in tasks : x.step = "replace"}
Removing == {x \in tasks : x.step = "remove"}
Stored == IF file = Wireguard!None THEN {} ELSE file.teams

(* The keys in memory are those of the file, but while a task writes: then *)
(* they are those of the temporary file.  All public keys have theirs in   *)
(* memory and in one of the files; what is published next too.             *)
KeyInv ==
  ~past.removed =>
    /\ ~past.failed
    /\ proc # "off" =>
         /\ Removing = {} /\ Replacing = {} => keys = Stored
         /\ Removing # {} => file # Wireguard!None /\ file.teams \subseteq keys
         /\ Removing # {} \/ Replacing # {} => tmp # Wireguard!None /\ tmp.teams = keys
         /\ Replacing # {} => file = Wireguard!None
         /\ \A t \in WireguardTeams : api[t].pub => t \in keys
         /\ \A x \in tasks : x.step \in {"remove", "replace", "publish"} => x.team \in keys
    /\ Replacing = {} => \A t \in WireguardTeams : api[t].pub => t \in Stored

(* An interface has one task, which applies what it has fetched before it  *)
(* acknowledges; nothing later than that is acknowledged meanwhile.        *)
SyncInv ==
  ~past.overlap =>
    /\ \A x, y \in tasks : x.team = y.team => x = y
    /\ \A x \in tasks : x.step # "fetch" => api[x.team].synced <= x.iface.version
    /\ \A x \in tasks : x.step = "ack" => dev[x.team] # Wireguard!None /\ dev[x.team].peers = x.iface.peers
    /\ \A t \in WireguardTeams : api[t].synced <= api[t].version
    /\ Wireguard!SyncedIsApplied

WireguardInv == TypeInv /\ FetchedInv /\ WriterInv /\ KeyInv /\ SyncInv

-----------------------------------------------------------------------------
(* Records are not the empty tuple that stands for what is missing.        *)
LEMMA Present ==
  /\ \A r \in Stores : r # Wireguard!None
  /\ \A r \in Devices : r # Wireguard!None
  /\ \A r \in Interfaces : r # Wireguard!None
<1>1. \A a : [teams |-> a] # <<>>
  OBVIOUS
<1>2. \A a : [peers |-> a] # <<>>
  OBVIOUS
<1>3. \A a, b, c, d : [version |-> a, synced |-> b, peers |-> c, pub |-> d] # <<>>
  OBVIOUS
<1> QED
  BY <1>1, <1>2, <1>3 DEF Stores, Devices, Interfaces, Wireguard!None

(* sync_peers: an interface gets exactly the peers that are wanted,        *)
(* whatever peers with the same keys or addresses it had.                  *)
LEMMA SyncPeersExact ==
  ASSUME Described, NEW have \in PeerSets \cup {{}}, NEW want \in PeerSets
  PROVE  Wireguard!sync_peers(have, want) = want
<1>1. Wireguard!RemovePeers(have, have \ want) = have \cap want
  BY DEF Wireguard!RemovePeers, Described
<1>2. Wireguard!AddPeers(have \cap want, want \ have) = want
  <2>1. ASSUME NEW p \in have \cap want, NEW q \in want \ have
        PROVE  p[2] # q[2] /\ p[1] # q[1]
    BY <2>1 DEF Described
  <2> QED
    BY <2>1 DEF Wireguard!AddPeers
<1> QED
  BY <1>1, <1>2 DEF Wireguard!sync_peers

(* A task at another step is the same task otherwise.                      *)
LEMMA StepOf ==
  ASSUME NEW x \in Tasks, NEW s \in Wireguard!Steps
  PROVE  LET y == [x EXCEPT !.step = s]
         IN y \in Tasks /\ y.step = s /\ y.team = x.team /\ y.iface = x.iface /\ y.waited = x.waited
BY DEF Tasks

(* So is a task nobody waits for any more.                                 *)
LEMMA LeftOf ==
  ASSUME NEW x \in Tasks
  PROVE  LET y == [x EXCEPT !.waited = FALSE]
         IN y \in Tasks /\ y.step = x.step /\ y.team = x.team /\ y.iface = x.iface
BY DEF Tasks

(* A task that has fetched its description.                                *)
LEMMA FetchOf ==
  ASSUME NEW x \in Tasks, NEW i \in Interfaces
  PROVE  LET y == [x EXCEPT !.step = "keys", !.iface = i]
         IN y \in Tasks /\ y.step = "keys" /\ y.team = x.team /\ y.iface = i /\ y.waited = x.waited
BY DEF Tasks, Wireguard!Steps

(* The tasks of a round.                                                   *)
LEMMA TaskType ==
  ASSUME NEW t \in WireguardTeams
  PROVE  Wireguard!Task(t) \in Tasks /\ Wireguard!Task(t).team = t /\ Wireguard!Task(t).step = "fetch" /\ Wireguard!Task(t).waited
BY DEF Wireguard!Task, Tasks, Wireguard!Steps

(* The fields of a task, of a description and of what it becomes.          *)
LEMMA Fields ==
  ASSUME Described
  PROVE  /\ \A x \in Tasks : /\ x.team \in WireguardTeams /\ x.step \in Wireguard!Steps /\ x.waited \in BOOLEAN
                              /\ x.iface \in {Wireguard!None} \cup Interfaces
         /\ \A i \in Interfaces :
              /\ i.version \in 1..MaxVersion /\ i.synced \in 0..MaxVersion
              /\ i.version \in Int /\ i.synced \in Int
              /\ i.peers \in PeerSets /\ i.pub \in BOOLEAN
              /\ [i EXCEPT !.pub = TRUE] \in Interfaces
              /\ \A n \in 0..MaxVersion : [i EXCEPT !.synced = n] \in Interfaces
<1>1. MaxVersion \in Nat
  BY DEF Described
<1>2. \A i \in Interfaces : i.version \in 1..MaxVersion /\ i.synced \in 0..MaxVersion
  BY DEF Interfaces
<1>3. \A i \in Interfaces : i.version \in Int /\ i.synced \in Int
  BY <1>1, <1>2
<1> QED
  BY <1>2, <1>3 DEF Tasks, Interfaces

(* A task that takes a step becomes another one for the same interface.    *)
Moved(x, y) == y \in Tasks /\ y.team = x.team /\ y.waited = x.waited /\ tasks' = (tasks \ {x}) \cup {y}

(* The steps that only move on keep the description of the interface.      *)
LEMMA StepMoves ==
  ASSUME TypeInv, NEW x \in tasks, NEW s \in Wireguard!Steps, Wireguard!Step(x, s)
  PROVE  \E y \in Tasks : Moved(x, y) /\ y.step = s /\ y.iface = x.iface
BY ZenonT(60), StepOf DEF Wireguard!Step, Moved, TypeInv

(* Fetching the interface takes the description the API has.               *)
LEMMA FetchMoves ==
  ASSUME Described, TypeInv, NEW x \in tasks, Wireguard!get_interface(x)
  PROVE  \E y \in Tasks : Moved(x, y) /\ y.step = "keys" /\ y.iface = api[x.team]
<1>1. x \in Tasks /\ api[x.team] \in Interfaces
  BY Fields DEF TypeInv
<1> QED
  BY <1>1, FetchOf DEF Wireguard!get_interface, Moved

(* A call that fails ends tasks; the others are left as they are, or all   *)
(* of them without anybody who waits.                                      *)
LEMMA FailLeaves ==
  ASSUME TypeInv, NEW x \in tasks, NEW code, Wireguard!CallFails(x, code)
  PROVE  /\ tasks' \subseteq tasks \/ tasks' = {[y EXCEPT !.waited = FALSE] : y \in tasks \ {x}}
         /\ \A z \in tasks' : \E y \in tasks : z.step = y.step /\ z.team = y.team /\ z.iface = y.iface
<1>1. CASE tasks' \subseteq tasks
  BY <1>1
<1>2. CASE tasks' = {[y EXCEPT !.waited = FALSE] : y \in tasks \ {x}}
  <2> SUFFICES ASSUME NEW z \in tasks'
               PROVE  \E y \in tasks : z.step = y.step /\ z.team = y.team /\ z.iface = y.iface
    BY <1>2
  <2>1. PICK y \in tasks : z = [y EXCEPT !.waited = FALSE]
    BY <1>2
  <2>2. y \in Tasks
    BY DEF TypeInv
  <2> QED
    BY <2>1, <2>2, LeftOf
<1>3. CASE proc = "init" \/ ~Wireguard!reraise_api_errors(code)
  BY <1>1, <1>3 DEF Wireguard!CallFails, Wireguard!Raises, Wireguard!Ends
<1>4. CASE ~(proc = "init" \/ ~Wireguard!reraise_api_errors(code)) /\ x.waited
  <2>1. tasks' = {[y EXCEPT !.waited = FALSE] : y \in tasks \ {x}}
    BY <1>4 DEF Wireguard!CallFails
  <2> QED
    BY <1>2, <2>1
<1>5. CASE ~(proc = "init" \/ ~Wireguard!reraise_api_errors(code)) /\ ~x.waited
  <2>1. tasks' = {y : y \in tasks \ {x}}
    BY <1>5 DEF Wireguard!CallFails
  <2> QED
    BY <1>1, <2>1
<1> QED
  BY <1>3, <1>4, <1>5


(* Every step keeps the types.                                              *)
LEMMA TypeStep == Described /\ TypeInv /\ FetchedInv /\ [Wireguard!Next]_(Wireguard!vars) => TypeInv'
<1> SUFFICES ASSUME Described, TypeInv, FetchedInv, [Wireguard!Next]_(Wireguard!vars) PROVE TypeInv'
  OBVIOUS
<1>1. ASSUME NEW t \in WireguardTeams, NEW P \in PeerSets, Wireguard!Change(t, P) PROVE TypeInv'
  BY <1>1 DEF Wireguard!Change, TypeInv, Tasks, Interfaces, Stores, Wireguard!Steps, Described
<1>2. ASSUME Wireguard!Start PROVE TypeInv'
  BY <1>2 DEF Wireguard!Start, TypeInv, Tasks, Interfaces, Stores, Wireguard!Steps, Described
<1>3. ASSUME Wireguard!Round PROVE TypeInv'
  <2> DEFINE todo == Wireguard!get_interfaces_to_update(proc = "start")
  <2>1. todo \subseteq WireguardTeams
    BY DEF Wireguard!get_interfaces_to_update
  <2>2. {Wireguard!Task(t) : t \in todo} \subseteq Tasks
    BY <2>1, TaskType
  <2>3. past' \in [overlap: BOOLEAN, removed: BOOLEAN, failed: BOOLEAN]
    BY <1>3 DEF Wireguard!Round, TypeInv
  <2> QED
    BY <1>3, <2>2, <2>3 DEF Wireguard!Round, TypeInv
<1>4. ASSUME Wireguard!RoundEnds PROVE TypeInv'
  BY <1>4 DEF Wireguard!RoundEnds, TypeInv, Tasks, Interfaces, Stores, Wireguard!Steps, Described
<1>5. ASSUME Wireguard!Crash PROVE TypeInv'
  BY <1>5 DEF Wireguard!Crash, Wireguard!Ends, TypeInv, Tasks, Interfaces, Stores, Wireguard!Steps,
     Described
<1>6. ASSUME NEW x \in tasks, NEW code \in {"4xx", "5xx"}, Wireguard!CallFails(x, code) PROVE TypeInv'
  <2>1. \A y \in tasks : [y EXCEPT !.waited = FALSE] \in Tasks
    BY LeftOf DEF TypeInv
  <2>2. tasks' \in SUBSET Tasks
    BY <1>6, <2>1 DEF Wireguard!CallFails, Wireguard!Raises, Wireguard!Ends, TypeInv
  <2> QED
    BY <1>6, <2>2 DEF Wireguard!CallFails, Wireguard!Raises, Wireguard!Ends, TypeInv
<1>7. ASSUME NEW x \in tasks, Wireguard!get_interface(x) PROVE TypeInv'
  <2>1. x \in Tasks /\ api[x.team] \in Interfaces
    BY Fields DEF TypeInv
  <2>2. [x EXCEPT !.step = "keys", !.iface = api[x.team]] \in Tasks
    BY <2>1, FetchOf
  <2> QED
    BY <1>7, <2>2 DEF Wireguard!get_interface, TypeInv
<1>8. ASSUME NEW x \in tasks, Wireguard!CheckKeys(x) PROVE TypeInv'
  <2>1. \A s \in Wireguard!Steps : [x EXCEPT !.step = s] \in Tasks
    BY StepOf DEF TypeInv
  <2>2. tasks' \in SUBSET Tasks
    <3>1. CASE x.iface.pub /\ x.team \notin keys
      BY <1>8, <3>1 DEF Wireguard!CheckKeys, Wireguard!Raises, Wireguard!Ends, TypeInv
    <3>2. CASE ~(x.iface.pub /\ x.team \notin keys)
      <4>1. (CASE x.team \notin keys -> "write" [] x.iface.pub -> "sync" [] OTHER -> "publish") \in Wireguard!Steps
        BY DEF Wireguard!Steps
      <4> QED
        BY <1>8, <2>1, <3>2, <4>1 DEF Wireguard!CheckKeys, Wireguard!Step, TypeInv
    <3> QED
      BY <3>1, <3>2
  <2>3. past' \in [overlap: BOOLEAN, removed: BOOLEAN, failed: BOOLEAN]
    BY <1>8 DEF Wireguard!CheckKeys, TypeInv
  <2> QED
    BY <1>8, <2>2, <2>3 DEF Wireguard!CheckKeys, Wireguard!Raises, Wireguard!Ends, TypeInv
<1>9. ASSUME NEW x \in tasks, Wireguard!WriteTmp(x) PROVE TypeInv'
  BY <1>9 DEF Wireguard!WriteTmp, Wireguard!Runs, Wireguard!Step, TypeInv, Tasks, Interfaces, Stores,
     Wireguard!Steps, Described
<1>10. ASSUME NEW x \in tasks, Wireguard!RemoveFile(x) PROVE TypeInv'
  BY <1>10 DEF Wireguard!RemoveFile, Wireguard!Runs, Wireguard!Step, TypeInv, Tasks, Interfaces,
     Stores, Wireguard!Steps, Described
<1>11. ASSUME NEW x \in tasks, Wireguard!ReplaceFile(x) PROVE TypeInv'
  BY SMTT(60), <1>11 DEF Wireguard!ReplaceFile, Wireguard!Runs, Wireguard!Step, TypeInv, Tasks, Interfaces,
     Stores, Wireguard!Steps, Described
<1>12. ASSUME NEW x \in tasks, Wireguard!set_pubk(x) PROVE TypeInv'
  <2>1. [x EXCEPT !.step = "sync"] \in Tasks
    BY StepOf DEF TypeInv, Wireguard!Steps
  <2> QED
    BY <1>12, <2>1, Fields DEF Wireguard!set_pubk, Wireguard!Step, TypeInv
<1>13. ASSUME NEW x \in tasks, Wireguard!sync(x) PROVE TypeInv'
  <2>1. x \in Tasks /\ [x EXCEPT !.step = "create"] \in Tasks /\ [x EXCEPT !.step = "ack"] \in Tasks
    BY StepOf DEF TypeInv, Wireguard!Steps
  <2>2. tasks' \in SUBSET Tasks
    BY <1>13, <2>1 DEF Wireguard!sync, Wireguard!Step, TypeInv
  <2>3. dev' \in [WireguardTeams -> {Wireguard!None} \cup Devices]
    <3>1. CASE dev[x.team] = Wireguard!None
      BY <1>13, <3>1 DEF Wireguard!sync, TypeInv
    <3>2. CASE dev[x.team] # Wireguard!None
      <4>1. x.team \in WireguardTeams /\ dev[x.team] \in Devices
        BY <2>1, <3>2, Fields DEF TypeInv
      <4>2. x.iface.peers \in PeerSets
        BY <1>13, <2>1, Fields DEF Wireguard!sync, Wireguard!Runs, FetchedInv
      <4>3. [dev[x.team] EXCEPT !.peers = Wireguard!sync_peers(@, x.iface.peers)] \in Devices
        BY <4>1, <4>2, SyncPeersExact DEF Devices
      <4> QED
        BY <1>13, <3>2, <4>1, <4>3 DEF Wireguard!sync, TypeInv
    <3> QED
      BY <3>1, <3>2
  <2> QED
    BY <1>13, <2>2, <2>3 DEF Wireguard!sync, TypeInv
<1>14. ASSUME NEW x \in tasks, Wireguard!initialize_interface(x) PROVE TypeInv'
  <2>1. x.team \in WireguardTeams /\ [x EXCEPT !.step = "hooks"] \in Tasks
    BY StepOf, Fields DEF TypeInv, Wireguard!Steps
  <2>2. dev' \in [WireguardTeams -> {Wireguard!None} \cup Devices]
    BY <1>14, <2>1 DEF Wireguard!initialize_interface, TypeInv, Devices
  <2> QED
    BY <1>14, <2>1, <2>2 DEF Wireguard!initialize_interface, Wireguard!Step, TypeInv
<1>15. ASSUME NEW x \in tasks, Wireguard!run_interface_up_hooks(x) PROVE TypeInv'
  <2>1. [x EXCEPT !.step = "again"] \in Tasks
    BY StepOf DEF TypeInv, Wireguard!Steps
  <2> QED
    BY <1>15, <2>1 DEF Wireguard!run_interface_up_hooks, Wireguard!Step, TypeInv
<1>16. ASSUME NEW x \in tasks, Wireguard!ack_interface(x) PROVE TypeInv'
  <2>1. x.team \in WireguardTeams /\ api[x.team] \in Interfaces
    BY Fields DEF TypeInv
  <2>2. x.iface.version \in 0..MaxVersion
    <3>1. x.iface \in Interfaces
      BY <1>16 DEF Wireguard!ack_interface, Wireguard!Runs, FetchedInv
    <3>2. x.iface.version \in 1..MaxVersion
      BY <3>1, Fields
    <3> QED
      BY <3>2 DEF Described
  <2>3. [api[x.team] EXCEPT !.synced = x.iface.version] \in Interfaces
    BY <2>1, <2>2, Fields
  <2> QED
    BY <1>16, <2>1, <2>3 DEF Wireguard!ack_interface, Wireguard!Acked, TypeInv
<1>17. CASE UNCHANGED Wireguard!vars
  BY <1>17 DEF TypeInv, Tasks, Interfaces, Stores, Wireguard!Steps, Described, Wireguard!vars
<1> QED
  BY <1>1, <1>2, <1>3, <1>4, <1>5, <1>6, <1>7, <1>8, <1>9, <1>10, <1>11, <1>12, <1>13, <1>14, <1>15,
     <1>16, <1>17 DEF Wireguard!Next

(* Every step keeps FetchedInv.                                             *)
LEMMA FetchedStep == Described /\ TypeInv /\ FetchedInv /\ [Wireguard!Next]_(Wireguard!vars) => FetchedInv'
<1> SUFFICES ASSUME Described, TypeInv, FetchedInv, [Wireguard!Next]_(Wireguard!vars) PROVE FetchedInv'
  OBVIOUS
<1>1. ASSUME NEW t \in WireguardTeams, NEW P \in PeerSets, Wireguard!Change(t, P) PROVE FetchedInv'
  <2>1. /\ \A u \in WireguardTeams : api'[u].pub = api[u].pub /\ api[u].version <= api'[u].version
        /\ \A u \in WireguardTeams : api'[u].version = api[u].version => api'[u].peers = api[u].peers
    <3>1. api[t] \in Interfaces /\ api[t].version \in Int
      BY Fields DEF TypeInv
    <3>2. \A u \in WireguardTeams : u # t => api'[u] = api[u]
      BY <1>1 DEF Wireguard!Change, TypeInv
    <3>3. api'[t].pub = api[t].pub /\ api'[t].version = api[t].version + 1
      BY <1>1, <3>1 DEF Wireguard!Change, TypeInv, Interfaces
    <3>4. \A u \in WireguardTeams : api[u].version \in Int
      BY Fields DEF TypeInv
    <3>5. api[t].version + 1 # api[t].version /\ api[t].version <= api[t].version + 1
      BY <3>1
    <3> QED
      BY <3>2, <3>3, <3>4, <3>5
  <2> SUFFICES ASSUME NEW z \in tasks, z.step # "fetch"
               PROVE  /\ z.iface \in Interfaces
                      /\ z.iface.pub => api'[z.team].pub
                      /\ z.iface.version <= api'[z.team].version
                      /\ z.iface.version = api'[z.team].version => z.iface.peers = api'[z.team].peers
    BY <1>1 DEF FetchedInv, Wireguard!Change
  <2>2. z.team \in WireguardTeams /\ z.iface \in Interfaces
    BY Fields DEF FetchedInv, TypeInv
  <2>3. z.iface.version \in Int /\ api[z.team].version \in Int /\ api'[z.team].version \in Int
    <3>1. TypeInv'
      BY <1>1, TypeStep DEF Wireguard!Next
    <3> QED
      BY <3>1, <2>2, Fields DEF TypeInv
  <2>4. z.iface.version <= api[z.team].version
    BY DEF FetchedInv
  <2> QED
    BY <2>1, <2>2, <2>3, <2>4 DEF FetchedInv
<1>2. ASSUME Wireguard!Start PROVE FetchedInv'
  BY <1>2 DEF Wireguard!Start, FetchedInv, TypeInv
<1>3. ASSUME Wireguard!Round PROVE FetchedInv'
  <2>1. \A z \in tasks' : z \in tasks \/ z.step = "fetch"
    BY <1>3, TaskType DEF Wireguard!Round, Wireguard!get_interfaces_to_update
  <2> QED
    BY <1>3, <2>1, Fields DEF Wireguard!Round, FetchedInv, TypeInv
<1>4. ASSUME Wireguard!RoundEnds PROVE FetchedInv'
  BY <1>4 DEF Wireguard!RoundEnds, FetchedInv, TypeInv
<1>5. ASSUME Wireguard!Crash PROVE FetchedInv'
  BY <1>5 DEF Wireguard!Crash, Wireguard!Ends, FetchedInv, TypeInv
<1>6. ASSUME NEW x \in tasks, NEW code \in {"4xx", "5xx"}, Wireguard!CallFails(x, code) PROVE FetchedInv'
  <2> SUFFICES ASSUME NEW z \in tasks', z.step # "fetch"
               PROVE  /\ z.iface \in Interfaces
                      /\ z.iface.pub => api[z.team].pub
                      /\ z.iface.version <= api[z.team].version
                      /\ z.iface.version = api[z.team].version => z.iface.peers = api[z.team].peers
    BY <1>6 DEF FetchedInv, Wireguard!CallFails
  <2>1. PICK y \in tasks : z.step = y.step /\ z.team = y.team /\ z.iface = y.iface
    BY <1>6, FailLeaves
  <2> QED
    BY <2>1 DEF FetchedInv
<1>7. ASSUME NEW x \in tasks, Wireguard!get_interface(x) PROVE FetchedInv'
  <2>1. PICK y \in Tasks : Moved(x, y) /\ y.step = "keys" /\ y.iface = api[x.team]
    BY <1>7, FetchMoves
  <2>2. x.team \in WireguardTeams /\ api[x.team] \in Interfaces /\ api[x.team].version \in Int
    BY Fields DEF TypeInv
  <2> QED
    BY <1>7, <2>1, <2>2 DEF Wireguard!get_interface, Moved, FetchedInv
<1>8. ASSUME NEW x \in tasks, Wireguard!CheckKeys(x) PROVE FetchedInv'
  <2>1. CASE x.iface.pub /\ x.team \notin keys
    BY <1>8, <2>1, Fields DEF Wireguard!CheckKeys, Wireguard!Runs, Wireguard!Raises, Wireguard!Ends,
       FetchedInv, TypeInv
  <2>2. CASE ~(x.iface.pub /\ x.team \notin keys)
    <3>1. PICK y \in Tasks :
            /\ Moved(x, y) /\ y.iface = x.iface
            /\ y.step = CASE x.team \notin keys -> "write" [] x.iface.pub -> "sync" [] OTHER -> "publish"
      BY <1>8, <2>2, StepMoves DEF Wireguard!CheckKeys, Wireguard!Steps
    <3> QED
      BY <1>8, <2>2, <3>1, Fields DEF Wireguard!CheckKeys, Wireguard!Runs, Moved, FetchedInv, TypeInv
  <2> QED
    BY <2>1, <2>2
<1>9. ASSUME NEW x \in tasks, Wireguard!WriteTmp(x) PROVE FetchedInv'
  <2>1. PICK y \in Tasks : Moved(x, y) /\ y.step \in {"replace", "remove"} /\ y.iface = x.iface /\ (y.step = "replace" <=> file = Wireguard!None)
    BY <1>9, StepMoves DEF Wireguard!WriteTmp, Wireguard!Steps
  <2> QED
    BY <1>9, <2>1, Fields DEF Wireguard!WriteTmp, Wireguard!Runs, Moved, FetchedInv, TypeInv
<1>10. ASSUME NEW x \in tasks, Wireguard!RemoveFile(x) PROVE FetchedInv'
  <2>1. PICK y \in Tasks : Moved(x, y) /\ y.step = "replace" /\ y.iface = x.iface
    BY <1>10, StepMoves DEF Wireguard!RemoveFile, Wireguard!Steps
  <2> QED
    BY <1>10, <2>1, Fields DEF Wireguard!RemoveFile, Wireguard!Runs, Moved, FetchedInv, TypeInv
<1>11. ASSUME NEW x \in tasks, Wireguard!ReplaceFile(x) PROVE FetchedInv'
  <2>1. PICK y \in Tasks : Moved(x, y) /\ y.step = "publish" /\ y.iface = x.iface
    BY <1>11, StepMoves DEF Wireguard!ReplaceFile, Wireguard!Steps
  <2> QED
    BY <1>11, <2>1, Fields DEF Wireguard!ReplaceFile, Wireguard!Runs, Moved, FetchedInv, TypeInv
<1>12. ASSUME NEW x \in tasks, Wireguard!set_pubk(x) PROVE FetchedInv'
  <2>1. PICK y \in Tasks : Moved(x, y) /\ y.step = "sync" /\ y.iface = x.iface
    BY <1>12, StepMoves DEF Wireguard!set_pubk, Wireguard!Steps
  <2> QED
    BY <1>12, <2>1, Fields DEF Wireguard!set_pubk, Wireguard!Runs, Moved, FetchedInv, TypeInv
<1>13. ASSUME NEW x \in tasks, Wireguard!sync(x) PROVE FetchedInv'
  <2>1. PICK y \in Tasks : Moved(x, y) /\ y.step = (IF dev[x.team] = Wireguard!None THEN "create" ELSE "ack") /\ y.iface = x.iface
    BY <1>13, StepMoves DEF Wireguard!sync, Wireguard!Steps
  <2> QED
    BY <1>13, <2>1, Fields DEF Wireguard!sync, Wireguard!Runs, Moved, FetchedInv, TypeInv
<1>14. ASSUME NEW x \in tasks, Wireguard!initialize_interface(x) PROVE FetchedInv'
  <2>1. PICK y \in Tasks : Moved(x, y) /\ y.step = "hooks" /\ y.iface = x.iface
    BY <1>14, StepMoves DEF Wireguard!initialize_interface, Wireguard!Steps
  <2> QED
    BY <1>14, <2>1, Fields DEF Wireguard!initialize_interface, Wireguard!Runs, Moved, FetchedInv,
       TypeInv
<1>15. ASSUME NEW x \in tasks, Wireguard!run_interface_up_hooks(x) PROVE FetchedInv'
  <2>1. PICK y \in Tasks : Moved(x, y) /\ y.step = "again" /\ y.iface = x.iface
    BY <1>15, StepMoves DEF Wireguard!run_interface_up_hooks, Wireguard!Steps
  <2> QED
    BY <1>15, <2>1, Fields DEF Wireguard!run_interface_up_hooks, Wireguard!Runs, Moved, FetchedInv,
       TypeInv
<1>16. ASSUME NEW x \in tasks, Wireguard!ack_interface(x) PROVE FetchedInv'
  BY <1>16 DEF Wireguard!ack_interface, Wireguard!Runs, Wireguard!Acked, FetchedInv, TypeInv
<1>17. CASE UNCHANGED Wireguard!vars
  BY <1>17 DEF FetchedInv, TypeInv, Wireguard!vars
<1> QED
  BY <1>1, <1>2, <1>3, <1>4, <1>5, <1>6, <1>7, <1>8, <1>9, <1>10, <1>11, <1>12, <1>13, <1>14, <1>15,
     <1>16, <1>17 DEF Wireguard!Next

(* Every step keeps WriterInv.                                              *)
LEMMA WriterStep == Described /\ TypeInv /\ WriterInv /\ [Wireguard!Next]_(Wireguard!vars) => WriterInv'
<1> SUFFICES ASSUME Described, TypeInv, WriterInv, [Wireguard!Next]_(Wireguard!vars) PROVE WriterInv'
  OBVIOUS
<1>1. ASSUME NEW t \in WireguardTeams, NEW P \in PeerSets, Wireguard!Change(t, P) PROVE WriterInv'
  BY <1>1 DEF Wireguard!Change, WriterInv, Wireguard!Writing
<1>2. ASSUME Wireguard!Start PROVE WriterInv'
  BY <1>2 DEF Wireguard!Start, WriterInv, Wireguard!Writing
<1>3. ASSUME Wireguard!Round PROVE WriterInv'
  <2>1. \A z \in tasks' : z \in tasks \/ z.step = "fetch"
    BY <1>3, TaskType DEF Wireguard!Round, Wireguard!get_interfaces_to_update
  <2> QED
    BY <1>3, <2>1 DEF Wireguard!Round, WriterInv, Wireguard!Writing
<1>4. ASSUME Wireguard!RoundEnds PROVE WriterInv'
  BY <1>4 DEF Wireguard!RoundEnds, WriterInv, Wireguard!Writing
<1>5. ASSUME Wireguard!Crash PROVE WriterInv'
  BY <1>5 DEF Wireguard!Crash, Wireguard!Ends, WriterInv, Wireguard!Writing
<1>6. ASSUME NEW x \in tasks, NEW code \in {"4xx", "5xx"}, Wireguard!CallFails(x, code) PROVE WriterInv'
  BY <1>6, FailLeaves DEF Wireguard!CallFails, Wireguard!Raises, Wireguard!Ends, WriterInv,
     Wireguard!Writing
<1>7. ASSUME NEW x \in tasks, Wireguard!get_interface(x) PROVE WriterInv'
  <2>1. PICK y \in Tasks : Moved(x, y) /\ y.step = "keys" /\ y.iface = api[x.team]
    BY <1>7, FetchMoves DEF Wireguard!get_interface, Wireguard!Steps
  <2> QED
    BY <1>7, <2>1 DEF Wireguard!get_interface, Wireguard!Runs, Moved, WriterInv, Wireguard!Writing
<1>8. ASSUME NEW x \in tasks, Wireguard!CheckKeys(x) PROVE WriterInv'
  <2>1. CASE x.iface.pub /\ x.team \notin keys
    BY <1>8, <2>1 DEF Wireguard!CheckKeys, Wireguard!Runs, Wireguard!Raises, Wireguard!Ends,
       WriterInv, Wireguard!Writing
  <2>2. CASE ~(x.iface.pub /\ x.team \notin keys)
    <3>1. PICK y \in Tasks :
            /\ Moved(x, y) /\ y.iface = x.iface
            /\ y.step = CASE x.team \notin keys -> "write" [] x.iface.pub -> "sync" [] OTHER -> "publish"
      BY <1>8, <2>2, StepMoves DEF Wireguard!CheckKeys, Wireguard!Steps
    <3> QED
      BY <1>8, <2>2, <3>1 DEF Wireguard!CheckKeys, Wireguard!Runs, Moved, WriterInv, Wireguard!Writing
  <2> QED
    BY <2>1, <2>2
<1>9. ASSUME NEW x \in tasks, Wireguard!WriteTmp(x) PROVE WriterInv'
  <2>1. PICK y \in Tasks : Moved(x, y) /\ y.step \in {"replace", "remove"} /\ y.iface = x.iface /\ (y.step = "replace" <=> file = Wireguard!None)
    BY <1>9, StepMoves DEF Wireguard!WriteTmp, Wireguard!Steps
  <2> QED
    BY <1>9, <2>1 DEF Wireguard!WriteTmp, Wireguard!Runs, Moved, WriterInv, Wireguard!Writing
<1>10. ASSUME NEW x \in tasks, Wireguard!RemoveFile(x) PROVE WriterInv'
  <2>1. PICK y \in Tasks : Moved(x, y) /\ y.step = "replace" /\ y.iface = x.iface
    BY <1>10, StepMoves DEF Wireguard!RemoveFile, Wireguard!Steps
  <2> QED
    BY <1>10, <2>1 DEF Wireguard!RemoveFile, Wireguard!Runs, Moved, WriterInv, Wireguard!Writing
<1>11. ASSUME NEW x \in tasks, Wireguard!ReplaceFile(x) PROVE WriterInv'
  <2>1. PICK y \in Tasks : Moved(x, y) /\ y.step = "publish" /\ y.iface = x.iface
    BY <1>11, StepMoves DEF Wireguard!ReplaceFile, Wireguard!Steps
  <2> QED
    BY <1>11, <2>1 DEF Wireguard!ReplaceFile, Wireguard!Runs, Moved, WriterInv, Wireguard!Writing
<1>12. ASSUME NEW x \in tasks, Wireguard!set_pubk(x) PROVE WriterInv'
  <2>1. PICK y \in Tasks : Moved(x, y) /\ y.step = "sync" /\ y.iface = x.iface
    BY <1>12, StepMoves DEF Wireguard!set_pubk, Wireguard!Steps
  <2> QED
    BY <1>12, <2>1 DEF Wireguard!set_pubk, Wireguard!Runs, Moved, WriterInv, Wireguard!Writing
<1>13. ASSUME NEW x \in tasks, Wireguard!sync(x) PROVE WriterInv'
  <2>1. PICK y \in Tasks : Moved(x, y) /\ y.step = (IF dev[x.team] = Wireguard!None THEN "create" ELSE "ack") /\ y.iface = x.iface
    BY <1>13, StepMoves DEF Wireguard!sync, Wireguard!Steps
  <2> QED
    BY <1>13, <2>1 DEF Wireguard!sync, Wireguard!Runs, Moved, WriterInv, Wireguard!Writing
<1>14. ASSUME NEW x \in tasks, Wireguard!initialize_interface(x) PROVE WriterInv'
  <2>1. PICK y \in Tasks : Moved(x, y) /\ y.step = "hooks" /\ y.iface = x.iface
    BY <1>14, StepMoves DEF Wireguard!initialize_interface, Wireguard!Steps
  <2> QED
    BY <1>14, <2>1 DEF Wireguard!initialize_interface, Wireguard!Runs, Moved, WriterInv,
       Wireguard!Writing
<1>15. ASSUME NEW x \in tasks, Wireguard!run_interface_up_hooks(x) PROVE WriterInv'
  <2>1. PICK y \in Tasks : Moved(x, y) /\ y.step = "again" /\ y.iface = x.iface
    BY <1>15, StepMoves DEF Wireguard!run_interface_up_hooks, Wireguard!Steps
  <2> QED
    BY <1>15, <2>1 DEF Wireguard!run_interface_up_hooks, Wireguard!Runs, Moved, WriterInv,
       Wireguard!Writing
<1>16. ASSUME NEW x \in tasks, Wireguard!ack_interface(x) PROVE WriterInv'
  BY <1>16 DEF Wireguard!ack_interface, Wireguard!Runs, Wireguard!Acked, WriterInv, Wireguard!Writing
<1>17. CASE UNCHANGED Wireguard!vars
  BY <1>17 DEF WriterInv, Wireguard!Writing, Wireguard!vars
<1> QED
  BY <1>1, <1>2, <1>3, <1>4, <1>5, <1>6, <1>7, <1>8, <1>9, <1>10, <1>11, <1>12, <1>13, <1>14, <1>15,
     <1>16, <1>17 DEF Wireguard!Next

(* Every step keeps KeyInv.                                                 *)
LEMMA KeyStep == Described /\ TypeInv /\ FetchedInv /\ WriterInv /\ KeyInv /\ [Wireguard!Next]_(Wireguard!vars) => KeyInv'
<1> SUFFICES ASSUME Described, TypeInv, FetchedInv, WriterInv, KeyInv, [Wireguard!Next]_(Wireguard!vars) PROVE KeyInv'
  OBVIOUS
<1>1. ASSUME NEW t \in WireguardTeams, NEW P \in PeerSets, Wireguard!Change(t, P) PROVE KeyInv'
  BY <1>1 DEF Wireguard!Change, KeyInv, Stored, Removing, Replacing, WriterInv, Wireguard!Writing,
     TypeInv
<1>2. ASSUME Wireguard!Start PROVE KeyInv'
  BY <1>2 DEF Wireguard!Start, KeyInv, Stored, Removing, Replacing, WriterInv, Wireguard!Writing,
     TypeInv
<1>3. ASSUME Wireguard!Round PROVE KeyInv'
  <2>1. \A z \in tasks' : z \in tasks \/ z.step = "fetch"
    BY <1>3, TaskType DEF Wireguard!Round, Wireguard!get_interfaces_to_update
  <2> QED
    BY <1>3, <2>1, Present DEF Wireguard!Round, KeyInv, Stored, Removing, Replacing, WriterInv,
       Wireguard!Writing, TypeInv
<1>4. ASSUME Wireguard!RoundEnds PROVE KeyInv'
  BY <1>4 DEF Wireguard!RoundEnds, KeyInv, Stored, Removing, Replacing, WriterInv, Wireguard!Writing,
     TypeInv
<1>5. ASSUME Wireguard!Crash PROVE KeyInv'
  BY <1>5 DEF Wireguard!Crash, Wireguard!Ends, KeyInv, Stored, Removing, Replacing, WriterInv,
     Wireguard!Writing, TypeInv
<1>6. ASSUME NEW x \in tasks, NEW code \in {"4xx", "5xx"}, Wireguard!CallFails(x, code) PROVE KeyInv'
  <2> SUFFICES ASSUME ~past.removed PROVE KeyInv'
    BY <1>6 DEF KeyInv, Wireguard!CallFails
  <2>1. proc # "off" /\ Removing = {} /\ Replacing = {}
    BY <1>6 DEF Wireguard!CallFails, Wireguard!Writing, Removing, Replacing, TypeInv
  <2>2. Removing' = {} /\ Replacing' = {}
    BY SMTT(60), <1>6, FailLeaves DEF Wireguard!CallFails, Wireguard!Writing, Removing, Replacing
  <2>3. proc' = "off" \/ (proc' = proc /\ keys' = keys)
    BY <1>6 DEF Wireguard!CallFails, Wireguard!Raises, Wireguard!Ends
  <2>4. \A z \in tasks' : z.step \in {"remove", "replace", "publish"} => z.team \in keys
    BY <1>6, <2>1, FailLeaves DEF KeyInv
  <2> QED
    BY <1>6, <2>1, <2>2, <2>3, <2>4 DEF Wireguard!CallFails, KeyInv, Stored
<1>7. ASSUME NEW x \in tasks, Wireguard!get_interface(x) PROVE KeyInv'
  <2>1. PICK y \in Tasks : Moved(x, y) /\ y.step = "keys" /\ y.iface = api[x.team]
    BY <1>7, FetchMoves DEF Wireguard!get_interface, Wireguard!Steps
  <2> QED
    BY <1>7, <2>1, Present DEF Wireguard!get_interface, Wireguard!Runs, Moved, KeyInv, Stored,
       Removing, Replacing, WriterInv, Wireguard!Writing, TypeInv
<1>8. ASSUME NEW x \in tasks, Wireguard!CheckKeys(x) PROVE KeyInv'
  <2> DEFINE fails == x.iface.pub /\ x.team \notin keys
  <2>1. proc # "off" /\ Removing = {} /\ Replacing = {}
    BY <1>8 DEF Wireguard!CheckKeys, Wireguard!Runs, Wireguard!Writing, Removing, Replacing, TypeInv
  <2>2. CASE fails
    <3>1. past' = [past EXCEPT !.failed = TRUE] /\ past'.removed = past.removed
      BY <1>8, <2>2 DEF Wireguard!CheckKeys, TypeInv
    <3>2. x.team \in WireguardTeams /\ api[x.team].pub
      BY <1>8, <2>2, Fields DEF Wireguard!CheckKeys, Wireguard!Runs, FetchedInv, TypeInv
    <3>3. past.removed
      BY <2>1, <2>2, <3>2 DEF KeyInv
    <3> QED
      BY <3>1, <3>3 DEF KeyInv
  <2>3. CASE ~fails
    <3>1. PICK y \in Tasks :
            /\ Moved(x, y) /\ y.iface = x.iface
            /\ y.step = CASE x.team \notin keys -> "write" [] x.iface.pub -> "sync" [] OTHER -> "publish"
      BY <1>8, <2>3, StepMoves DEF Wireguard!CheckKeys, Wireguard!Steps
    <3>2. Removing' = {} /\ Replacing' = {}
      BY <2>1, <3>1 DEF Moved, Removing, Replacing
    <3> QED
      BY <1>8, <2>1, <2>3, <3>1, <3>2 DEF Wireguard!CheckKeys, Moved, KeyInv, Stored
  <2> QED
    BY <2>2, <2>3
<1>9. ASSUME NEW x \in tasks, Wireguard!WriteTmp(x) PROVE KeyInv'
  <2> SUFFICES ASSUME ~past.removed PROVE KeyInv'
    BY <1>9 DEF KeyInv, Wireguard!WriteTmp
  <2>1. PICK y \in Tasks : Moved(x, y) /\ y.step = (IF file = Wireguard!None THEN "replace" ELSE "remove")
    BY <1>9, StepMoves DEF Wireguard!WriteTmp, Wireguard!Steps
  <2>2. proc # "off" /\ Removing = {} /\ Replacing = {}
    BY <1>9 DEF Wireguard!WriteTmp, Wireguard!Runs, WriterInv, Wireguard!Writing, Removing,
       Replacing, TypeInv
  <2>3. Removing' = (IF file = Wireguard!None THEN {} ELSE {y}) /\ Replacing' = (IF file = Wireguard!None THEN {y} ELSE {})
    BY <2>1, <2>2 DEF Moved, Removing, Replacing
  <2>4. tmp' = [teams |-> keys'] /\ tmp' # Wireguard!None /\ tmp'.teams = keys'
    BY <1>9 DEF Wireguard!WriteTmp, Wireguard!None
  <2>5. \A z \in tasks' : z.step \in {"remove", "replace", "publish"} => z.team \in keys'
    BY <1>9, <2>1, <2>2 DEF Wireguard!WriteTmp, Moved, KeyInv
  <2>6. keys = Stored /\ keys' = keys \cup {x.team}
    BY <1>9, <2>2 DEF Wireguard!WriteTmp, KeyInv
  <2>7. /\ UNCHANGED <<api, file, proc, past>>
        /\ ~past.failed /\ \A t \in WireguardTeams : api[t].pub => t \in keys /\ t \in Stored
    BY <1>9, <2>2 DEF Wireguard!WriteTmp, KeyInv
  <2>8. CASE file = Wireguard!None
    BY <2>2, <2>3, <2>4, <2>5, <2>6, <2>7, <2>8 DEF KeyInv, Stored
  <2>9. CASE file # Wireguard!None
    BY <2>2, <2>3, <2>4, <2>5, <2>6, <2>7, <2>9 DEF KeyInv, Stored
  <2> QED
    BY <2>8, <2>9
<1>10. ASSUME NEW x \in tasks, Wireguard!RemoveFile(x) PROVE KeyInv'
  <2>1. PICK y \in Tasks : Moved(x, y) /\ y.step = "replace" /\ y.iface = x.iface
    BY <1>10, StepMoves DEF Wireguard!RemoveFile, Wireguard!Steps
  <2> QED
    BY <1>10, <2>1, Present DEF Wireguard!RemoveFile, Wireguard!Runs, Moved, KeyInv, Stored,
       Removing, Replacing, WriterInv, Wireguard!Writing, TypeInv
<1>11. ASSUME NEW x \in tasks, Wireguard!ReplaceFile(x) PROVE KeyInv'
  <2> SUFFICES ASSUME ~past.removed PROVE KeyInv'
    BY <1>11 DEF KeyInv, Wireguard!ReplaceFile
  <2>1. PICK y \in Tasks : Moved(x, y) /\ y.step = "publish"
    BY <1>11, StepMoves DEF Wireguard!ReplaceFile, Wireguard!Steps
  <2>2. proc # "off" /\ Removing = {} /\ Replacing = {x}
    BY <1>11 DEF Wireguard!ReplaceFile, Wireguard!Runs, WriterInv, Wireguard!Writing, Removing,
       Replacing, TypeInv
  <2>3. Removing' = {} /\ Replacing' = {}
    BY <2>1, <2>2 DEF Moved, Removing, Replacing
  <2>4. tmp # Wireguard!None /\ tmp.teams = keys /\ x.team \in keys
    BY <1>11, <2>2 DEF Wireguard!ReplaceFile, Wireguard!Runs, KeyInv
  <2>5. Stored' = keys
    BY <1>11, <2>4 DEF Wireguard!ReplaceFile, Stored
  <2>6. \A z \in tasks' : z.step \in {"remove", "replace", "publish"} => z.team \in keys
    BY <2>1, <2>2, <2>4 DEF Moved, KeyInv
  <2> QED
    BY <1>11, <2>2, <2>3, <2>4, <2>5, <2>6 DEF Wireguard!ReplaceFile, KeyInv
<1>12. ASSUME NEW x \in tasks, Wireguard!set_pubk(x) PROVE KeyInv'
  <2>1. PICK y \in Tasks : Moved(x, y) /\ y.step = "sync" /\ y.iface = x.iface
    BY <1>12, StepMoves DEF Wireguard!set_pubk, Wireguard!Steps
  <2> QED
    BY <1>12, <2>1, Present DEF Wireguard!set_pubk, Wireguard!Runs, Moved, KeyInv, Stored, Removing,
       Replacing, WriterInv, Wireguard!Writing, TypeInv
<1>13. ASSUME NEW x \in tasks, Wireguard!sync(x) PROVE KeyInv'
  <2>1. PICK y \in Tasks : Moved(x, y) /\ y.step = (IF dev[x.team] = Wireguard!None THEN "create" ELSE "ack") /\ y.iface = x.iface
    BY <1>13, StepMoves DEF Wireguard!sync, Wireguard!Steps
  <2> QED
    BY <1>13, <2>1, Present DEF Wireguard!sync, Wireguard!Runs, Moved, KeyInv, Stored, Removing,
       Replacing, WriterInv, Wireguard!Writing, TypeInv
<1>14. ASSUME NEW x \in tasks, Wireguard!initialize_interface(x) PROVE KeyInv'
  <2>1. PICK y \in Tasks : Moved(x, y) /\ y.step = "hooks" /\ y.iface = x.iface
    BY <1>14, StepMoves DEF Wireguard!initialize_interface, Wireguard!Steps
  <2> QED
    BY <1>14, <2>1, Present DEF Wireguard!initialize_interface, Wireguard!Runs, Moved, KeyInv,
       Stored, Removing, Replacing, WriterInv, Wireguard!Writing, TypeInv
<1>15. ASSUME NEW x \in tasks, Wireguard!run_interface_up_hooks(x) PROVE KeyInv'
  <2>1. PICK y \in Tasks : Moved(x, y) /\ y.step = "again" /\ y.iface = x.iface
    BY <1>15, StepMoves DEF Wireguard!run_interface_up_hooks, Wireguard!Steps
  <2> QED
    BY <1>15, <2>1, Present DEF Wireguard!run_interface_up_hooks, Wireguard!Runs, Moved, KeyInv,
       Stored, Removing, Replacing, WriterInv, Wireguard!Writing, TypeInv
<1>16. ASSUME NEW x \in tasks, Wireguard!ack_interface(x) PROVE KeyInv'
  BY <1>16 DEF Wireguard!ack_interface, Wireguard!Runs, Wireguard!Acked, KeyInv, Stored, Removing,
     Replacing, WriterInv, Wireguard!Writing, TypeInv
<1>17. CASE UNCHANGED Wireguard!vars
  BY <1>17 DEF KeyInv, Stored, Removing, Replacing, WriterInv, Wireguard!Writing, TypeInv,
     Wireguard!vars
<1> QED
  BY <1>1, <1>2, <1>3, <1>4, <1>5, <1>6, <1>7, <1>8, <1>9, <1>10, <1>11, <1>12, <1>13, <1>14, <1>15,
     <1>16, <1>17 DEF Wireguard!Next

(* Every step keeps SyncInv.                                                *)
LEMMA SyncStep == Described /\ TypeInv /\ FetchedInv /\ SyncInv /\ [Wireguard!Next]_(Wireguard!vars) => SyncInv'
<1> SUFFICES ASSUME Described, TypeInv, FetchedInv, SyncInv, [Wireguard!Next]_(Wireguard!vars) PROVE SyncInv'
  OBVIOUS
<1>1. ASSUME NEW t \in WireguardTeams, NEW P \in PeerSets, Wireguard!Change(t, P) PROVE SyncInv'
  <2> SUFFICES ASSUME ~past.overlap PROVE SyncInv'
    BY <1>1 DEF SyncInv, Wireguard!Change
  <2>1. api[t] \in Interfaces /\ api[t].version \in Int /\ api[t].synced \in Int
    BY Fields DEF TypeInv
  <2>2. \A u \in WireguardTeams : u # t => api'[u] = api[u]
    BY <1>1 DEF Wireguard!Change, TypeInv
  <2>3. api'[t].synced = api[t].synced /\ api'[t].version = api[t].version + 1
    BY <1>1, <2>1 DEF Wireguard!Change, TypeInv, Interfaces
  <2>4. \A u \in WireguardTeams : api'[u].synced = api[u].synced
    BY <2>2, <2>3
  <2>5. api[t].synced <= api[t].version
    BY DEF SyncInv
  <2>6. api'[t].synced # api'[t].version /\ api'[t].synced <= api'[t].version
    BY <2>1, <2>3, <2>5
  <2>7. \A x \in tasks : x.team \in WireguardTeams
    BY Fields DEF TypeInv
  <2> QED
    BY <1>1, <2>2, <2>4, <2>6, <2>7 DEF Wireguard!Change, SyncInv, Wireguard!SyncedIsApplied
<1>2. ASSUME Wireguard!Start PROVE SyncInv'
  BY <1>2 DEF Wireguard!Start, SyncInv, Wireguard!SyncedIsApplied, TypeInv
<1>3. ASSUME Wireguard!Round PROVE SyncInv'
  <2> DEFINE todo == Wireguard!get_interfaces_to_update(proc = "start")
  <2>1. todo \subseteq WireguardTeams
    BY DEF Wireguard!get_interfaces_to_update
  <2>2. past'.overlap = (past.overlap \/ \E x \in tasks : x.team \in todo)
    BY <1>3 DEF Wireguard!Round, TypeInv
  <2> SUFFICES ASSUME ~past.overlap, \A x \in tasks : x.team \notin todo PROVE SyncInv'
    BY <2>2 DEF SyncInv
  <2>3. \A z \in tasks' : z \in tasks \/ (z.step = "fetch" /\ z.team \in todo /\ z = Wireguard!Task(z.team))
    BY <1>3, <2>1, TaskType DEF Wireguard!Round
  <2>4. \A x, y \in tasks' : x.team = y.team => x = y
    BY <2>3 DEF SyncInv
  <2> QED
    BY <1>3, <2>3, <2>4 DEF Wireguard!Round, SyncInv, Wireguard!SyncedIsApplied
<1>4. ASSUME Wireguard!RoundEnds PROVE SyncInv'
  BY <1>4 DEF Wireguard!RoundEnds, SyncInv, Wireguard!SyncedIsApplied, TypeInv
<1>5. ASSUME Wireguard!Crash PROVE SyncInv'
  BY <1>5 DEF Wireguard!Crash, Wireguard!Ends, SyncInv, Wireguard!SyncedIsApplied, TypeInv
<1>6. ASSUME NEW x \in tasks, NEW code \in {"4xx", "5xx"}, Wireguard!CallFails(x, code) PROVE SyncInv'
  <2> SUFFICES ASSUME ~past.overlap PROVE SyncInv'
    BY <1>6 DEF SyncInv, Wireguard!CallFails
  <2>1. \A z \in tasks' : \E y \in tasks : z.step = y.step /\ z.team = y.team /\ z.iface = y.iface
    BY <1>6, FailLeaves
  <2>2. \A y, z \in tasks' : y.team = z.team => y = z
    <3>1. CASE tasks' \subseteq tasks
      BY <3>1 DEF SyncInv
    <3>2. CASE tasks' = {[y EXCEPT !.waited = FALSE] : y \in tasks \ {x}}
      <4> SUFFICES ASSUME NEW y \in tasks', NEW z \in tasks', y.team = z.team PROVE y = z
        OBVIOUS
      <4>1. PICK u \in tasks : y = [u EXCEPT !.waited = FALSE]
        BY <3>2
      <4>2. PICK v \in tasks : z = [v EXCEPT !.waited = FALSE]
        BY <3>2
      <4>3. u.team = y.team /\ v.team = z.team
        BY <4>1, <4>2, LeftOf DEF TypeInv
      <4> QED
        BY ZenonT(60), <4>1, <4>2, <4>3 DEF SyncInv
    <3> QED
      BY <1>6, <3>1, <3>2, FailLeaves
  <2> QED
    BY <1>6, <2>1, <2>2 DEF Wireguard!CallFails, SyncInv, Wireguard!SyncedIsApplied
<1>7. ASSUME NEW x \in tasks, Wireguard!get_interface(x) PROVE SyncInv'
  <2>1. PICK y \in Tasks : Moved(x, y) /\ y.step = "keys" /\ y.iface = api[x.team]
    BY <1>7, FetchMoves DEF Wireguard!get_interface, Wireguard!Steps
  <2> QED
    BY <1>7, <2>1, Present, Fields DEF Wireguard!get_interface, Wireguard!Runs, Moved, SyncInv,
       Wireguard!SyncedIsApplied, TypeInv, FetchedInv
<1>8. ASSUME NEW x \in tasks, Wireguard!CheckKeys(x) PROVE SyncInv'
  <2>1. CASE x.iface.pub /\ x.team \notin keys
    BY <1>8, <2>1, Present, Fields DEF Wireguard!CheckKeys, Wireguard!Runs, Wireguard!Raises,
       Wireguard!Ends, SyncInv, Wireguard!SyncedIsApplied, TypeInv, FetchedInv
  <2>2. CASE ~(x.iface.pub /\ x.team \notin keys)
    <3>1. PICK y \in Tasks :
            /\ Moved(x, y) /\ y.iface = x.iface
            /\ y.step = CASE x.team \notin keys -> "write" [] x.iface.pub -> "sync" [] OTHER -> "publish"
      BY <1>8, <2>2, StepMoves DEF Wireguard!CheckKeys, Wireguard!Steps
    <3> QED
      BY <1>8, <2>2, <3>1, Present, Fields DEF Wireguard!CheckKeys, Wireguard!Runs, Moved, SyncInv,
         Wireguard!SyncedIsApplied, TypeInv, FetchedInv
  <2> QED
    BY <2>1, <2>2
<1>9. ASSUME NEW x \in tasks, Wireguard!WriteTmp(x) PROVE SyncInv'
  <2>1. PICK y \in Tasks : Moved(x, y) /\ y.step \in {"replace", "remove"} /\ y.iface = x.iface /\ (y.step = "replace" <=> file = Wireguard!None)
    BY <1>9, StepMoves DEF Wireguard!WriteTmp, Wireguard!Steps
  <2> QED
    BY <1>9, <2>1, Present, Fields DEF Wireguard!WriteTmp, Wireguard!Runs, Moved, SyncInv,
       Wireguard!SyncedIsApplied, TypeInv, FetchedInv
<1>10. ASSUME NEW x \in tasks, Wireguard!RemoveFile(x) PROVE SyncInv'
  <2>1. PICK y \in Tasks : Moved(x, y) /\ y.step = "replace" /\ y.iface = x.iface
    BY <1>10, StepMoves DEF Wireguard!RemoveFile, Wireguard!Steps
  <2> QED
    BY <1>10, <2>1, Present, Fields DEF Wireguard!RemoveFile, Wireguard!Runs, Moved, SyncInv,
       Wireguard!SyncedIsApplied, TypeInv, FetchedInv
<1>11. ASSUME NEW x \in tasks, Wireguard!ReplaceFile(x) PROVE SyncInv'
  <2>1. PICK y \in Tasks : Moved(x, y) /\ y.step = "publish" /\ y.iface = x.iface
    BY <1>11, StepMoves DEF Wireguard!ReplaceFile, Wireguard!Steps
  <2> QED
    BY <1>11, <2>1, Present, Fields DEF Wireguard!ReplaceFile, Wireguard!Runs, Moved, SyncInv,
       Wireguard!SyncedIsApplied, TypeInv, FetchedInv
<1>12. ASSUME NEW x \in tasks, Wireguard!set_pubk(x) PROVE SyncInv'
  <2>1. PICK y \in Tasks : Moved(x, y) /\ y.step = "sync" /\ y.iface = x.iface
    BY <1>12, StepMoves DEF Wireguard!set_pubk, Wireguard!Steps
  <2> QED
    BY <1>12, <2>1, Present, Fields DEF Wireguard!set_pubk, Wireguard!Runs, Moved, SyncInv,
       Wireguard!SyncedIsApplied, TypeInv, FetchedInv
<1>13. ASSUME NEW x \in tasks, Wireguard!sync(x) PROVE SyncInv'
  <2> SUFFICES ASSUME ~past.overlap PROVE SyncInv'
    BY <1>13 DEF SyncInv, Wireguard!sync
  <2>1. PICK y \in Tasks : /\ Moved(x, y) /\ y.iface = x.iface
                           /\ y.step = (IF dev[x.team] = Wireguard!None THEN "create" ELSE "ack")
    BY <1>13, StepMoves DEF Wireguard!sync, Wireguard!Steps
  <2>2. x.team \in WireguardTeams /\ x.iface \in Interfaces /\ x.iface.peers \in PeerSets
    BY <1>13, Fields DEF Wireguard!sync, Wireguard!Runs, FetchedInv, TypeInv
  <2>3. /\ \A u \in WireguardTeams : u # x.team => dev'[u] = dev[u]
        /\ dev[x.team] = Wireguard!None => dev'[x.team] = Wireguard!None
        /\ dev[x.team] # Wireguard!None => dev'[x.team] # Wireguard!None /\ dev'[x.team].peers = x.iface.peers
    <3>1. CASE dev[x.team] = Wireguard!None
      BY <1>13, <3>1 DEF Wireguard!sync
    <3>2. CASE dev[x.team] # Wireguard!None
      <4>1. dev[x.team] \in Devices /\ dev[x.team].peers \in PeerSets \cup {{}}
        BY <2>2, <3>2 DEF TypeInv, Devices
      <4>2. dev' = [dev EXCEPT ![x.team].peers = x.iface.peers]
        BY <1>13, <2>2, <3>2, <4>1, SyncPeersExact DEF Wireguard!sync, TypeInv
      <4>3. dev'[x.team] = [dev[x.team] EXCEPT !.peers = x.iface.peers] /\ dev'[x.team] \in Devices
        BY <2>2, <4>1, <4>2 DEF TypeInv, Devices
      <4> QED
        BY <3>2, <4>1, <4>2, <4>3, Present DEF TypeInv, Devices
    <3> QED
      BY <3>1, <3>2
  <2>4. api[x.team].synced = api[x.team].version => x.iface.peers = api[x.team].peers
    <3>1. x.iface.version <= api[x.team].version /\ api[x.team].synced <= x.iface.version
      BY <1>13 DEF Wireguard!sync, Wireguard!Runs, FetchedInv, SyncInv
    <3>2. x.iface.version \in Int /\ api[x.team].version \in Int /\ api[x.team].synced \in Int
      BY <2>2, Fields DEF TypeInv
    <3>3. api[x.team].synced = api[x.team].version => x.iface.version = api[x.team].version
      BY <3>1, <3>2
    <3> QED
      BY <1>13, <3>3 DEF Wireguard!sync, Wireguard!Runs, FetchedInv
  <2>5. \A z \in tasks' : z = y \/ (z \in tasks /\ z # x /\ z.team # x.team)
    BY <2>1 DEF Moved, SyncInv
  <2>6. \A z \in tasks' : z.team \in WireguardTeams
    BY <2>1, <2>2, <2>5, Fields DEF TypeInv, Moved
  <2>7. \A u \in WireguardTeams : api[u].synced = api[u].version => dev'[u] # Wireguard!None /\ dev'[u].peers = api[u].peers
    BY <2>3, <2>4 DEF SyncInv, Wireguard!SyncedIsApplied
  <2>8. \A z \in tasks' : z.step = "ack" => dev'[z.team] # Wireguard!None /\ dev'[z.team].peers = z.iface.peers
    BY <2>1, <2>2, <2>3, <2>5, <2>6 DEF SyncInv, Moved
  <2>9. \A z \in tasks' : z.step # "fetch" => api[z.team].synced <= z.iface.version
    BY <1>13, <2>1, <2>5 DEF Wireguard!sync, Wireguard!Runs, SyncInv, Moved
  <2>10. \A v, z \in tasks' : v.team = z.team => v = z
    BY <2>1, <2>5 DEF SyncInv, Moved
  <2> QED
    BY <1>13, <2>7, <2>8, <2>9, <2>10 DEF Wireguard!sync, SyncInv, Wireguard!SyncedIsApplied
<1>14. ASSUME NEW x \in tasks, Wireguard!initialize_interface(x) PROVE SyncInv'
  <2>1. PICK y \in Tasks : Moved(x, y) /\ y.step = "hooks" /\ y.iface = x.iface
    BY <1>14, StepMoves DEF Wireguard!initialize_interface, Wireguard!Steps
  <2> QED
    BY <1>14, <2>1, Present, Fields DEF Wireguard!initialize_interface, Wireguard!Runs, Moved,
       SyncInv, Wireguard!SyncedIsApplied, TypeInv, FetchedInv
<1>15. ASSUME NEW x \in tasks, Wireguard!run_interface_up_hooks(x) PROVE SyncInv'
  <2>1. PICK y \in Tasks : Moved(x, y) /\ y.step = "again" /\ y.iface = x.iface
    BY <1>15, StepMoves DEF Wireguard!run_interface_up_hooks, Wireguard!Steps
  <2> QED
    BY <1>15, <2>1, Present, Fields DEF Wireguard!run_interface_up_hooks, Wireguard!Runs, Moved,
       SyncInv, Wireguard!SyncedIsApplied, TypeInv, FetchedInv
<1>16. ASSUME NEW x \in tasks, Wireguard!ack_interface(x) PROVE SyncInv'
  <2> SUFFICES ASSUME ~past.overlap PROVE SyncInv'
    BY <1>16 DEF SyncInv, Wireguard!ack_interface
  <2>1. x.team \in WireguardTeams /\ x.iface \in Interfaces /\ api[x.team] \in Interfaces
    BY <1>16, Fields DEF Wireguard!ack_interface, Wireguard!Runs, FetchedInv, TypeInv
  <2>2. \A u \in WireguardTeams : u # x.team => api'[u] = api[u]
    BY <1>16 DEF Wireguard!ack_interface, TypeInv
  <2>3. /\ api'[x.team].synced = x.iface.version
        /\ api'[x.team].version = api[x.team].version /\ api'[x.team].peers = api[x.team].peers
    BY <1>16, <2>1 DEF Wireguard!ack_interface, Wireguard!Acked, TypeInv, Interfaces
  <2>4. \A z \in tasks' : z \in tasks /\ z.team # x.team /\ z.team \in WireguardTeams
    BY <1>16, Fields DEF Wireguard!ack_interface, SyncInv, TypeInv
  <2>5. /\ x.iface.version <= api[x.team].version
        /\ x.iface.version = api[x.team].version => x.iface.peers = api[x.team].peers
        /\ dev[x.team] # Wireguard!None /\ dev[x.team].peers = x.iface.peers
    BY <1>16 DEF Wireguard!ack_interface, Wireguard!Runs, FetchedInv, SyncInv
  <2> QED
    BY <1>16, <2>2, <2>3, <2>4, <2>5 DEF Wireguard!ack_interface, SyncInv, Wireguard!SyncedIsApplied
<1>17. CASE UNCHANGED Wireguard!vars
  BY <1>17 DEF SyncInv, Wireguard!SyncedIsApplied, TypeInv, Wireguard!vars
<1> QED
  BY <1>1, <1>2, <1>3, <1>4, <1>5, <1>6, <1>7, <1>8, <1>9, <1>10, <1>11, <1>12, <1>13, <1>14, <1>15,
     <1>16, <1>17 DEF Wireguard!Next

-----------------------------------------------------------------------------
(* Theorems.                                                               *)

(* The invariant holds in every reachable state.                           *)
THEOREM WireguardCorrect ==
  ASSUME Described
  PROVE  Wireguard!Spec => []WireguardInv
<1>1. Wireguard!Init => WireguardInv
  <2> SUFFICES ASSUME Wireguard!Init PROVE WireguardInv
    OBVIOUS
  <2>1. api \in [WireguardTeams -> Interfaces] /\ \A t \in WireguardTeams : api[t].version = 1 /\ api[t].synced = 0 /\ ~api[t].pub
    <3>1. 1 \in 1..MaxVersion /\ 0 \in 0..MaxVersion
      BY DEF Described
    <3>2. \A t \in WireguardTeams : api[t] \in [version: {1}, synced: {0}, peers: PeerSets, pub: {FALSE}]
      BY DEF Wireguard!Init
    <3>3. [version: {1}, synced: {0}, peers: PeerSets, pub: {FALSE}] \subseteq Interfaces
      BY <3>1 DEF Interfaces
    <3> QED
      BY <3>2, <3>3 DEF Wireguard!Init
  <2>2. past \in [overlap: BOOLEAN, removed: BOOLEAN, failed: BOOLEAN] /\ ~past.failed
    BY DEF Wireguard!Init
  <2> QED
    BY <2>1, <2>2 DEF Wireguard!Init, WireguardInv, TypeInv, FetchedInv, WriterInv,
       Wireguard!Writing, KeyInv, Stored,
                      Removing, Replacing, SyncInv, Wireguard!SyncedIsApplied
<1>2. WireguardInv /\ [Wireguard!Next]_(Wireguard!vars) => WireguardInv'
  BY TypeStep, FetchedStep, WriterStep, KeyStep, SyncStep DEF WireguardInv
<1> QED
  BY <1>1, <1>2, PTL DEF Wireguard!Spec

(* The types that a run checks are those of the invariant.                 *)
LEMMA TypeFollows == ASSUME Described, TypeInv PROVE Wireguard!TypeOK
<1>1. \A t \in WireguardTeams : api[t] \in Interfaces
  BY DEF TypeInv
<1>2. \A x \in tasks : x \in Tasks
  BY DEF TypeInv
<1> QED
  BY <1>1, <1>2, Fields DEF TypeInv, Wireguard!TypeOK, Stores

(* The component by itself.                                               *)
LEMMA SyncedAlone ==
  ASSUME Described
  PROVE  Wireguard!Spec => [](Wireguard!TypeOK /\ Wireguard!SyncedIsApplied)
<1>1. WireguardInv => Wireguard!TypeOK /\ Wireguard!SyncedIsApplied
  BY TypeFollows DEF WireguardInv, SyncInv, Wireguard!SyncedIsApplied
<1> QED
  BY <1>1, WireguardCorrect, PTL

(* The component by itself.                                               *)
LEMMA KeysSavedAlone ==
  ASSUME Described
  PROVE  Wireguard!Spec => [](Wireguard!TypeOK /\ Wireguard!KeysSaved)
<1>1. WireguardInv => Wireguard!TypeOK /\ Wireguard!KeysSaved
  <2> SUFFICES ASSUME WireguardInv PROVE Wireguard!KeysSaved
    BY TypeFollows DEF WireguardInv
  <2> SUFFICES ASSUME ~past.removed, NEW t \in WireguardTeams, api[t].pub
               PROVE  \E f \in {file, tmp} : f # Wireguard!None /\ t \in f.teams
    BY DEF WireguardInv, KeyInv, Wireguard!KeysSaved
  <2>1. CASE Replacing = {}
    BY <2>1 DEF WireguardInv, KeyInv, Stored
  <2>2. CASE Replacing # {}
    <3>1. proc # "off"
      BY <2>2 DEF WireguardInv, TypeInv, Replacing
    <3> QED
      BY <2>2, <3>1 DEF WireguardInv, KeyInv
  <2> QED
    BY <2>1, <2>2
<1> QED
  BY <1>1, WireguardCorrect, PTL

(* fetch_and_sync: an interface the server takes for synchronized has the  *)
(* peers of its description, after any number of changes of descriptions,  *)
(* failed calls and crashes of the process, unless two tasks worked on an  *)
(* interface at the same time.                                             *)
THEOREM SyncedCorrect == Spec => []SyncedIsApplied
<1> DEFINE Chosen == component = "wireguard"
<1>1. Wireguard!Spec => [](Wireguard!TypeOK /\ Wireguard!SyncedIsApplied)
  BY SyncedAlone, ToolsAssumption
<1>2. Init /\ Chosen => Wireguard!Init
  BY DEF Init
<1>3. Chosen /\ [Next]_tools => Chosen' /\ [Wireguard!Next]_(Wireguard!vars)
  BY OneComponent DEF Next, tools, Wireguard!vars
<1>4. ~Chosen /\ [Next]_tools => ~Chosen'
  BY OneComponent
<1> QED
  BY <1>1, <1>2, <1>3, <1>4, PTL DEF Spec, Wireguard!Spec, SyncedIsApplied

(* KeyStore.put_keys: a public key is published only when its private key  *)
(* is in one of the files, and the process never finds a public key        *)
(* without its private key, unless it died between the removal of the file *)
(* and its replacement.                                                    *)
THEOREM KeysSavedCorrect == Spec => []KeysSaved
<1> DEFINE Chosen == component = "wireguard"
<1>1. Wireguard!Spec => [](Wireguard!TypeOK /\ Wireguard!KeysSaved)
  BY KeysSavedAlone, ToolsAssumption
<1>2. Init /\ Chosen => Wireguard!Init
  BY DEF Init
<1>3. Chosen /\ [Next]_tools => Chosen' /\ [Wireguard!Next]_(Wireguard!vars)
  BY OneComponent DEF Next, tools, Wireguard!vars
<1>4. ~Chosen /\ [Next]_tools => ~Chosen'
  BY OneComponent
<1> QED
  BY <1>1, <1>2, <1>3, <1>4, PTL DEF Spec, Wireguard!Spec, KeysSaved

-----------------------------------------------------------------------------
(* manage-trafficstats.py.                                                 *)

(* The names of its variables.                                             *)
minute == v1
seen == v2
map == v3
on == v4
pc == v5
base == v6
old == v7
tick == v8
saved == v9
stats == v10
restarts == v11
first == v12
skipped == v13
USE DEF minute, seen, map, on, pc, base, old, tick, saved, stats, restarts, first, skipped

(* The counters of a team as the process reads them, its rows, and what    *)
(* they add up to.                                                         *)
Values == [game: Int, teams: Int]
Counted(t) == [game |-> map[t].total - map[t].teams, teams |-> map[t].teams]
RowsOf(t) == {r \in stats : r.team = t}
Added(S) ==
  [game |-> Traffic!MapThenSumSet(LAMBDA r : r.value.game, S),
   teams |-> Traffic!MapThenSumSet(LAMBDA r : r.value.teams, S)]
AtMost(a, b) == a.game <= b.game /\ a.teams <= b.teams

(* What is stored of a team is at most what was counted when its values    *)
(* were last read, and that is at most what is counted now.  A process     *)
(* that was never restarted has stored or skipped all in between.          *)
TeamInv(t) ==
  /\ IsFiniteSet(RowsOf(t))
  /\ map[t] \in [total: Nat, teams: Nat] /\ map[t].teams <= map[t].total
  /\ skipped[t] \in Values
  /\ AtMost(Added(RowsOf(t)), Counted(t))
  /\ base[t] # Traffic!None =>
       /\ t \in seen /\ base[t] \in [game: Nat, teams: Nat]
       /\ AtMost(Added(RowsOf(t)), base[t]) /\ AtMost(base[t], Counted(t))
  /\ restarts = 0 /\ (pc # "run" \/ base[t] = Traffic!None) => RowsOf(t) = {} /\ skipped[t] = Traffic!Zero
  /\ restarts = 0 /\ pc = "run" /\ base[t] # Traffic!None =>
       /\ first[t] \in Values
       /\ Traffic!Plus(Traffic!Plus(Added(RowsOf(t)), skipped[t]), first[t]) = base[t]

TrafficInv ==
  /\ minute \in 1..MaxMinute /\ seen \subseteq TrafficTeams /\ tick \in 0..MaxMinute
  /\ restarts \in Nat /\ pc \in {"off", "fill", "run"}
  /\ restarts = 0 => saved = Traffic!None
  /\ DOMAIN map = TrafficTeams
  /\ stats \subseteq Traffic!Row /\ \A r \in stats : r.minute <= minute
  /\ \A t \in TrafficTeams : TeamInv(t)

(* What rows add up to is a sum over them.                                 *)
LEMMA AddedSums ==
  ASSUME NEW S
  PROVE  /\ Added(S).game = SumOver([r \in S |-> r.value.game], S)
         /\ Added(S).teams = SumOver([r \in S |-> r.value.teams], S)
<1> DEFINE pick(s) == CHOOSE x \in s : TRUE
           F == [r \in S |-> r.value.game]
           G == [r \in S |-> r.value.teams]
           P(g) == g = [s \in SUBSET S |-> IF s = {} THEN 0 ELSE F[pick(s)] + g[s \ {pick(s)}]]
           Q(g) == g = [s \in SUBSET S |-> IF s = {} THEN 0 ELSE pick(s).value.game + g[s \ {pick(s)}]]
           R(g) == g = [s \in SUBSET S |-> IF s = {} THEN 0 ELSE G[pick(s)] + g[s \ {pick(s)}]]
           T(g) == g = [s \in SUBSET S |-> IF s = {} THEN 0 ELSE pick(s).value.teams + g[s \ {pick(s)}]]
<1>1. /\ SumOver(F, S) = (CHOOSE g : P(g))[S] /\ SumOver(G, S) = (CHOOSE g : R(g))[S]
      /\ Added(S).game = (CHOOSE g : Q(g))[S] /\ Added(S).teams = (CHOOSE g : T(g))[S]
  BY DEF SumOver, Added, Traffic!MapThenSumSet, Traffic!MapThenFoldSet
<1>2. \A s \in SUBSET S : s # {} => F[pick(s)] = pick(s).value.game /\ G[pick(s)] = pick(s).value.teams
  OBVIOUS
<1> HIDE DEF pick, F, G
<1>3. ASSUME NEW g PROVE (P(g) <=> Q(g)) /\ (R(g) <=> T(g))
  BY <1>2
<1> HIDE DEF P, Q, R, T
<1>4. (CHOOSE g : P(g)) = (CHOOSE g : Q(g)) /\ (CHOOSE g : R(g)) = (CHOOSE g : T(g))
  BY <1>3
<1> QED
  BY <1>1, <1>4 DEF F, G

(* No rows add up to nothing.                                              *)
LEMMA AddedNone == Added({}) = Traffic!Zero
<1>1. /\ [r \in {} |-> r.value.game] = [r \in {} |-> r]
      /\ [r \in {} |-> r.value.teams] = [r \in {} |-> r]
  OBVIOUS
<1>2. PICK id : id = [r \in {} |-> r]
  OBVIOUS
<1>3. [r \in {} |-> id[r]] = id
  BY <1>2
<1>4. SumOver(id, {}) = 0
  BY <1>3, SumEmpty
<1>5. Added({}).game = 0 /\ Added({}).teams = 0
  BY <1>1, <1>2, <1>4, AddedSums
<1> QED
  BY <1>5 DEF Added, Traffic!Zero

(* Another row adds its value.                                             *)
LEMMA AddedMore ==
  ASSUME NEW S, IsFiniteSet(S), \A r \in S : r.value \in Values,
         NEW y, y \notin S, y.value \in Values
  PROVE  /\ Added(S) \in Values /\ Added(S \cup {y}) \in Values /\ IsFiniteSet(S \cup {y})
         /\ Added(S \cup {y}) = Traffic!Plus(y.value, Added(S))
<1> DEFINE F == [r \in S |-> r.value.game]
           G == [r \in S |-> r.value.teams]
           U == S \cup {y}
           H == [r \in U |-> r.value.game]
           K == [r \in U |-> r.value.teams]
<1>1. F \in [S -> Int] /\ G \in [S -> Int] /\ H \in [U -> Int] /\ K \in [U -> Int]
  BY DEF Values
<1>2. \A r \in S : F[r] = H[r] /\ G[r] = K[r]
  OBVIOUS
<1>3. H[y] = y.value.game /\ K[y] = y.value.teams
  OBVIOUS
<1>4. /\ Added(S).game = SumOver(F, S) /\ Added(S).teams = SumOver(G, S)
      /\ Added(U).game = SumOver(H, U) /\ Added(U).teams = SumOver(K, U)
  BY AddedSums
<1> HIDE DEF F, G, H, K
<1>5. SumOver(H, U) = H[y] + SumOver(F, S)
  BY <1>1, <1>2, SumMore
<1>6. SumOver(K, U) = K[y] + SumOver(G, S)
  BY <1>1, <1>2, SumMore
<1>7. SumOver(F, S) \in Int /\ SumOver(G, S) \in Int
  BY <1>1, SumType
<1>8. IsFiniteSet(U)
  BY FS_AddElement
<1>9. y.value.game \in Int /\ y.value.teams \in Int
  BY DEF Values
<1>10. Added(S) = [game |-> Added(S).game, teams |-> Added(S).teams] /\ Added(U) = [game |-> Added(U).game, teams |-> Added(U).teams]
  BY DEF Added
<1> QED
  BY <1>3, <1>4, <1>5, <1>6, <1>7, <1>8, <1>9, <1>10 DEF Values, Traffic!Plus

(* Values are not None.                                                    *)
LEMMA ValuesAre ==
  ASSUME NEW v \in Values
  PROVE  v # Traffic!None /\ v = [game |-> v.game, teams |-> v.teams] /\ v.game \in Int /\ v.teams \in Int
<1>1. v = [game |-> v.game, teams |-> v.teams] /\ v.game \in Int /\ v.teams \in Int
  BY DEF Values
<1>2. DOMAIN v = {"game", "teams"} /\ DOMAIN Traffic!None = {}
  BY DEF Values, Traffic!None
<1> QED
  BY <1>1, <1>2

(* The rows of a team have values, and what they add up to is one.         *)
LEMMA RowsValues ==
  ASSUME TrafficInv, NEW t \in TrafficTeams
  PROVE  /\ \A r \in RowsOf(t) : r.value \in Values
         /\ Added(RowsOf(t)) \in Values
<1>1. \A r \in RowsOf(t) : r \in Traffic!Row
  BY DEF TrafficInv, RowsOf
<1>2. \A r \in RowsOf(t) : r.value \in Values
  BY <1>1 DEF Traffic!Row, Values
<1>3. IsFiniteSet(RowsOf(t))
  BY DEF TrafficInv, TeamInv
<1>4. PICK S : S = RowsOf(t)
  OBVIOUS
<1>5. Added(S) \in Values
  <2> DEFINE F == [r \in S |-> r.value.game]
             G == [r \in S |-> r.value.teams]
  <2>1. F \in [S -> Int] /\ G \in [S -> Int]
    BY <1>2, <1>4 DEF Values
  <2>2. Added(S).game = SumOver(F, S) /\ Added(S).teams = SumOver(G, S)
    BY AddedSums
  <2> HIDE DEF F, G
  <2>3. SumOver(F, S) \in Int /\ SumOver(G, S) \in Int
    BY <1>3, <1>4, <2>1, SumType
  <2>4. Added(S) = [game |-> Added(S).game, teams |-> Added(S).teams]
    BY DEF Added
  <2> QED
    BY <2>2, <2>3, <2>4 DEF Values
<1> QED
  BY <1>2, <1>4, <1>5

(* A step that changes nothing the invariant of a team speaks of keeps it. *)
LEMMA TeamKept ==
  ASSUME NEW t, TeamInv(t), UNCHANGED <<stats, map, base, first, skipped, restarts>>, t \in seen => t \in seen',
         pc' = pc \/ restarts # 0
  PROVE  TeamInv(t)'
BY DEF TeamInv, RowsOf, Counted

(* A team connects.                                                        *)
LEMMA TrafficConnect ==
  ASSUME TrafficInv, NEW t \in TrafficTeams, Traffic!Connect(t)
  PROVE  TrafficInv'
<1>1. /\ seen' = seen \cup {t}
      /\ UNCHANGED <<minute, map, on, pc, base, old, tick, saved, stats, restarts, first, skipped>>
  BY DEF Traffic!Connect
<1>2. \A u \in TrafficTeams : TeamInv(u)'
  BY <1>1, TeamKept DEF TrafficInv
<1> QED
  BY <1>1, <1>2 DEF TrafficInv

(* The network is switched on or off.                                      *)
LEMMA TrafficSwitch ==
  ASSUME TrafficInv, Traffic!Switch
  PROVE  TrafficInv'
<1>1. UNCHANGED <<minute, seen, map, pc, base, old, tick, saved, stats, restarts, first, skipped>>
  BY DEF Traffic!Switch
<1>2. \A u \in TrafficTeams : TeamInv(u)'
  BY <1>1, TeamKept DEF TrafficInv
<1> QED
  BY <1>1, <1>2 DEF TrafficInv

(* A packet is counted.                                                    *)
LEMMA TrafficPacket ==
  ASSUME TrafficInv, NEW t \in TrafficTeams, NEW b \in BOOLEAN, Traffic!Traffic(t, b)
  PROVE  TrafficInv'
<1>1. /\ map' = [map EXCEPT ![t].total = @ + 1, ![t].teams = IF b THEN @ + 1 ELSE @]
      /\ UNCHANGED <<minute, seen, on, pc, base, old, tick, saved, stats, restarts, first, skipped>>
  BY DEF Traffic!Traffic
<1>2. ASSUME NEW u \in TrafficTeams PROVE TeamInv(u)'
  <2>1. TeamInv(u) /\ Added(RowsOf(u)) \in Values
    BY RowsValues DEF TrafficInv
  <2>2. map[u] \in [total: Nat, teams: Nat] /\ map[u].teams <= map[u].total
    BY <2>1 DEF TeamInv
  <2>3. /\ map'[u] \in [total: Nat, teams: Nat] /\ map'[u].teams <= map'[u].total
        /\ map[u].total - map[u].teams <= map'[u].total - map'[u].teams /\ map[u].teams <= map'[u].teams
    <3>1. CASE u # t
      <4>1. map'[u] = map[u]
        BY <1>1, <3>1 DEF TrafficInv
      <4> QED
        BY <2>2, <4>1
    <3>2. CASE u = t
      <4>1. map'[u] = [total |-> map[u].total + 1, teams |-> IF b THEN map[u].teams + 1 ELSE map[u].teams]
        BY <1>1, <2>2, <3>2 DEF TrafficInv
      <4> QED
        BY <2>2, <4>1
    <3> QED
      BY <3>1, <3>2
  <2>4. AtMost(Counted(u), Counted(u)')
    BY <2>3 DEF AtMost, Counted
  <2>5. Counted(u) \in Values /\ Counted(u)' \in Values
    BY <2>2, <2>3 DEF Counted, Values
  <2>6. \A v \in Values : AtMost(v, Counted(u)) => AtMost(v, Counted(u)')
    BY <2>4, <2>5 DEF AtMost, Values
  <2>7. RowsOf(u)' = RowsOf(u)
    BY <1>1 DEF RowsOf
  <2>8. AtMost(Added(RowsOf(u)), Counted(u)')
    BY <2>1, <2>6 DEF TeamInv
  <2>9. base[u] # Traffic!None => base[u] \in Values /\ AtMost(base[u], Counted(u)')
    BY <2>1, <2>6 DEF TeamInv, Values
  <2> QED
    BY <1>1, <2>1, <2>3, <2>7, <2>8, <2>9 DEF TeamInv
<1>3. DOMAIN map' = TrafficTeams
  BY <1>1 DEF TrafficInv
<1> QED
  BY <1>1, <1>2, <1>3 DEF TrafficInv

(* The process starts.                                                     *)
LEMMA TrafficStart ==
  ASSUME TrafficInv, Traffic!Start
  PROVE  TrafficInv'
<1>1. /\ pc = "off" /\ skipped' = [t \in TrafficTeams |-> Traffic!Zero]
      /\ UNCHANGED <<minute, seen, map, on, saved, stats, restarts>>
      /\ \/ /\ saved # Traffic!None /\ saved.tick = minute /\ pc' = "run"
            /\ base' = Traffic!NoBase /\ tick' = saved.tick
         \/ pc' = "fill" /\ UNCHANGED <<base, tick>>
  BY DEF Traffic!Start
<1>2. MaxMinute \in Nat /\ minute \in 1..MaxMinute /\ tick' \in 0..MaxMinute
  BY <1>1, ToolsAssumption DEF TrafficInv
<1>3. restarts = 0 => pc' = "fill"
  BY <1>1 DEF TrafficInv
<1>4. ASSUME NEW t \in TrafficTeams PROVE TeamInv(t)'
  <2>1. base'[t] = Traffic!None \/ base'[t] = base[t]
    BY <1>1 DEF Traffic!NoBase
  <2>2. skipped'[t] = Traffic!Zero /\ skipped'[t] \in Values
    BY <1>1 DEF Values, Traffic!Zero
  <2>3. TeamInv(t) /\ RowsOf(t)' = RowsOf(t) /\ Counted(t)' = Counted(t)
    BY <1>1 DEF TrafficInv, RowsOf, Counted
  <2> QED
    BY <1>1, <1>3, <2>1, <2>2, <2>3 DEF TeamInv
<1> QED
  BY <1>1, <1>2, <1>4 DEF TrafficInv

(* The process is interrupted or dies.                                     *)
LEMMA TrafficEnds ==
  ASSUME TrafficInv, Traffic!Interrupt \/ Traffic!Crash
  PROVE  TrafficInv'
<1>1. /\ restarts' = restarts + 1 /\ pc' = "off"
      /\ UNCHANGED <<minute, seen, map, on, base, old, tick, stats, first, skipped>>
  BY DEF Traffic!Interrupt, Traffic!Crash
<1>2. restarts' \in Nat /\ restarts' # 0
  BY <1>1 DEF TrafficInv
<1>3. ASSUME NEW t \in TrafficTeams PROVE TeamInv(t)'
  BY <1>1, <1>2 DEF TrafficInv, TeamInv, RowsOf, Counted
<1> QED
  BY <1>1, <1>2, <1>3 DEF TrafficInv

(* What the process reads.                                                 *)
LEMMA ReadFacts ==
  ASSUME TrafficInv, NEW t \in TrafficTeams
  PROVE  /\ Traffic!read_team_infos[t] = IF t \in seen THEN Counted(t) ELSE Traffic!None
         /\ Counted(t) \in [game: Nat, teams: Nat] /\ Counted(t) \in Values
<1>1. map[t] \in [total: Nat, teams: Nat] /\ map[t].teams <= map[t].total
  BY DEF TrafficInv, TeamInv
<1>2. map[t].total - map[t].teams \in Nat /\ map[t].teams \in Nat
  BY <1>1
<1> QED
  BY <1>2 DEF Traffic!read_team_infos, Counted, Values

(* The values of a team are read for the first time.                       *)
LEMMA FirstReading ==
  ASSUME TrafficInv, NEW t \in TrafficTeams, UNCHANGED <<seen, map, restarts>>,
         RowsOf(t)' = RowsOf(t), skipped'[t] = skipped[t], pc' = "run",
         base'[t] = Traffic!read_team_infos[t], first'[t] = Traffic!read_team_infos[t],
         pc # "run" \/ base[t] = Traffic!None
  PROVE  TeamInv(t)'
<1>1. TeamInv(t) /\ Counted(t)' = Counted(t)
  BY DEF TrafficInv, Counted
<1>2. /\ base'[t] = IF t \in seen THEN Counted(t) ELSE Traffic!None
      /\ Counted(t) \in [game: Nat, teams: Nat] /\ Counted(t) \in Values
  BY ReadFacts
<1>3. AtMost(Counted(t), Counted(t))
  BY <1>2 DEF AtMost
<1>4. restarts = 0 => RowsOf(t) = {} /\ skipped[t] = Traffic!Zero
  BY <1>1 DEF TeamInv
<1>5. restarts = 0 => Traffic!Plus(Traffic!Plus(Added(RowsOf(t)), skipped[t]), Counted(t)) = Counted(t)
  <2>1. Traffic!Plus(Traffic!Plus(Traffic!Zero, Traffic!Zero), Counted(t)) = Counted(t)
    BY <1>2 DEF Traffic!Plus, Traffic!Zero, Values
  <2> QED
    BY <1>4, <2>1, AddedNone
<1> QED
  BY <1>1, <1>2, <1>3, <1>4, <1>5 DEF TeamInv

(* The values of a team have grown since they were read, and the growth is *)
(* stored or skipped.                                                      *)
LEMMA AnotherReading ==
  ASSUME TrafficInv, NEW t \in TrafficTeams, UNCHANGED <<seen, map, restarts>>, pc = "run", pc' = "run",
         base[t] # Traffic!None, base'[t] = Traffic!read_team_infos[t], first'[t] = first[t],
         NEW d, d = Traffic!Minus(Counted(t), base[t]), NEW y, y.value = d, y \notin RowsOf(t),
         \/ RowsOf(t)' = RowsOf(t) \cup {y} /\ skipped'[t] = skipped[t]
         \/ RowsOf(t)' = RowsOf(t) /\ skipped'[t] = Traffic!Plus(skipped[t], d)
  PROVE  TeamInv(t)'
<1>1. TeamInv(t) /\ Counted(t)' = Counted(t)
  BY DEF TrafficInv, Counted
<1>2. t \in seen /\ base[t] \in [game: Nat, teams: Nat] /\ base[t] \in Values
  BY <1>1 DEF TeamInv, Values
<1>3. base'[t] = Counted(t) /\ Counted(t) \in [game: Nat, teams: Nat] /\ Counted(t) \in Values
  BY <1>2, ReadFacts
<1>4. d \in Values /\ d = [game |-> Counted(t).game - base[t].game, teams |-> Counted(t).teams - base[t].teams]
  BY <1>2, <1>3 DEF Values, Traffic!Minus
<1>5. PICK a \in Values : a = Added(RowsOf(t))
  BY RowsValues
<1>6. PICK s \in Values : s = skipped[t]
  BY <1>1 DEF TeamInv
<1>7. PICK b \in Values, c \in Values : b = base[t] /\ c = Counted(t)
  BY <1>2, <1>3
<1>8. AtMost(a, b) /\ AtMost(b, c) /\ AtMost(a, c)
  BY <1>1, <1>5, <1>7 DEF TeamInv
<1>9. d = [game |-> c.game - b.game, teams |-> c.teams - b.teams]
  BY <1>4, <1>7
<1>10. PICK a2 \in Values, s2 \in Values :
         /\ a2 = Added(RowsOf(t)') /\ s2 = skipped'[t] /\ IsFiniteSet(RowsOf(t)')
         /\ \/ a2 = Traffic!Plus(d, a) /\ s2 = s
            \/ a2 = a /\ s2 = Traffic!Plus(s, d)
  <2>1. IsFiniteSet(RowsOf(t)) /\ \A r \in RowsOf(t) : r.value \in Values
    BY <1>1, RowsValues DEF TeamInv
  <2>2. CASE RowsOf(t)' = RowsOf(t) \cup {y} /\ skipped'[t] = skipped[t]
    <3>1. PICK S : S = RowsOf(t)
      OBVIOUS
    <3>2. Added(S \cup {y}) \in Values /\ IsFiniteSet(S \cup {y}) /\ Added(S \cup {y}) = Traffic!Plus(y.value, Added(S))
      BY <1>4, <2>1, <3>1, AddedMore
    <3> QED
      BY <1>5, <1>6, <2>2, <3>1, <3>2
  <2>3. CASE RowsOf(t)' = RowsOf(t) /\ skipped'[t] = Traffic!Plus(skipped[t], d)
    <3>1. Traffic!Plus(s, d) \in Values
      BY <1>4 DEF Traffic!Plus, Values
    <3> QED
      BY <1>5, <1>6, <2>1, <2>3, <3>1
  <2> QED
    BY <2>2, <2>3
<1>11. AtMost(a2, c) /\ AtMost(c, c)
  BY <1>8, <1>9, <1>10 DEF AtMost, Values, Traffic!Plus
<1>12. restarts = 0 => first[t] \in Values /\ Traffic!Plus(Traffic!Plus(a2, s2), first[t]) = c
  <2> SUFFICES ASSUME restarts = 0 PROVE first[t] \in Values /\ Traffic!Plus(Traffic!Plus(a2, s2), first[t]) = c
    OBVIOUS
  <2>1. first[t] \in Values /\ Traffic!Plus(Traffic!Plus(a, s), first[t]) = b
    BY <1>1, <1>5, <1>6, <1>7 DEF TeamInv
  <2>2. PICK f \in Values : f = first[t]
    BY <2>1
  <2>3. a.game + s.game + f.game = b.game /\ a.teams + s.teams + f.teams = b.teams
    BY <2>1, <2>2 DEF Traffic!Plus, Values
  <2>4. a2.game + s2.game + f.game = c.game /\ a2.teams + s2.teams + f.teams = c.teams
    <3>1. /\ a.game \in Int /\ a.teams \in Int /\ b.game \in Int /\ b.teams \in Int /\ c.game \in Int /\ c.teams \in Int
          /\ s.game \in Int /\ s.teams \in Int /\ f.game \in Int /\ f.teams \in Int
      BY DEF Values
    <3>2. d.game = c.game - b.game /\ d.teams = c.teams - b.teams
      BY <1>9
    <3>3. \/ /\ a2.game = d.game + a.game /\ a2.teams = d.teams + a.teams /\ s2 = s
          \/ /\ a2 = a /\ s2.game = s.game + d.game /\ s2.teams = s.teams + d.teams
      BY <1>10 DEF Traffic!Plus
    <3> QED
      BY <2>3, <3>1, <3>2, <3>3
  <2>5. c = [game |-> c.game, teams |-> c.teams]
    BY ValuesAre
  <2>6. Traffic!Plus(Traffic!Plus(a2, s2), f) = [game |-> a2.game + s2.game + f.game, teams |-> a2.teams + s2.teams + f.teams]
    BY DEF Traffic!Plus
  <2> QED
    BY <2>1, <2>2, <2>4, <2>5, <2>6
<1>13. base'[t] # Traffic!None
  BY <1>3, ValuesAre
<1> QED
  BY <1>1, <1>2, <1>3, <1>7, <1>10, <1>11, <1>12, <1>13 DEF TeamInv

(* A minute ends.                                                          *)
LEMMA TrafficMinute ==
  ASSUME TrafficInv, Traffic!NextMinute
  PROVE  TrafficInv'
<1> DEFINE new == Traffic!read_team_infos
           y(t) == [minute |-> minute + 1, team |-> t, value |-> Traffic!Minus(new[t], base[t])]
           G == {t \in TrafficTeams : new[t] # Traffic!None /\ base[t] # Traffic!None}
<1>1. /\ minute < MaxMinute /\ minute' = minute + 1 /\ UNCHANGED <<seen, map, on, saved, restarts>>
      /\ MaxMinute \in Nat /\ minute \in 1..MaxMinute
  BY ToolsAssumption DEF Traffic!NextMinute, TrafficInv
<1>2. minute' \in 1..MaxMinute /\ 0 \in 0..MaxMinute /\ minute' \in 0..MaxMinute
  BY <1>1
<1>3. \A r \in stats : r.minute \in Int /\ r.minute <= minute /\ r.minute <= minute' /\ r.minute # minute'
  BY <1>1 DEF TrafficInv, Traffic!Row
<1>4. CASE pc = "run"
  <2>1. /\ base' = new /\ (tick' = 0 \/ tick' = minute') /\ pc' = pc
        /\ first' = [t \in TrafficTeams |-> IF base[t] = Traffic!None THEN new[t] ELSE first[t]]
    BY <1>4 DEF Traffic!NextMinute, Traffic!Remember
  <2>2. Traffic!Growth(new) = [t \in G |-> Traffic!Minus(new[t], base[t])]
    BY DEF Traffic!Growth
  <2>3. DOMAIN Traffic!Growth(new) = G /\ \A t \in G : Traffic!Growth(new)[t] = Traffic!Minus(new[t], base[t])
    BY <2>2
  <2>4. \/ stats' = stats \cup {y(t) : t \in G} /\ skipped' = [t \in TrafficTeams |-> skipped[t]]
        \/ /\ stats' = stats
           /\ skipped' = [t \in TrafficTeams |-> IF t \in G THEN Traffic!Plus(skipped[t], Traffic!Growth(new)[t]) ELSE skipped[t]]
    <3>1. CASE old \/ on
      <4>1. /\ stats' = Traffic!efficient_insert(minute', Traffic!Growth(new))
            /\ skipped' = [t \in TrafficTeams |-> skipped[t]]
        BY <1>4, <3>1 DEF Traffic!NextMinute
      <4>2. stats' = stats \cup {[minute |-> minute', team |-> t, value |-> Traffic!Growth(new)[t]] : t \in G}
        BY <2>3, <4>1 DEF Traffic!efficient_insert
      <4>3. {[minute |-> minute', team |-> t, value |-> Traffic!Growth(new)[t]] : t \in G} = {y(t) : t \in G}
        BY <1>1, <2>3
      <4> QED
        BY <4>1, <4>2, <4>3
    <3>2. CASE ~old /\ ~on
      BY <1>4, <2>3, <3>2 DEF Traffic!NextMinute
    <3> QED
      BY <3>1, <3>2
  <2>5. ASSUME NEW t \in G
        PROVE  /\ t \in TrafficTeams /\ t \in seen /\ new[t] = Counted(t)
               /\ base[t] \in [game: Nat, teams: Nat] /\ AtMost(base[t], Counted(t))
               /\ y(t) \in Traffic!Row
    <3>1. /\ t \in TrafficTeams /\ t \in seen /\ new[t] = Counted(t) /\ Counted(t) \in [game: Nat, teams: Nat]
          /\ base[t] \in [game: Nat, teams: Nat] /\ AtMost(base[t], Counted(t))
      BY ReadFacts DEF TrafficInv, TeamInv
    <3>2. Traffic!Minus(Counted(t), base[t]) \in [game: Nat, teams: Nat]
      BY <3>1 DEF Traffic!Minus, AtMost
    <3> QED
      BY <1>1, <1>2, <3>1, <3>2 DEF Traffic!Row
  <2>6. stats' \subseteq Traffic!Row /\ \A r \in stats' : r.minute <= minute'
    <3>1. \A t \in G : y(t) \in Traffic!Row /\ y(t).minute = minute'
      BY <1>1, <2>5
    <3> HIDE DEF y
    <3>2. stats \subseteq Traffic!Row
      BY DEF TrafficInv
    <3> QED
      BY <1>1, <1>3, <2>4, <3>1, <3>2
  <2>7. ASSUME NEW t \in TrafficTeams PROVE TeamInv(t)'
    <3>1. base'[t] = new[t] /\ (base[t] = Traffic!None => first'[t] = new[t]) /\ (base[t] # Traffic!None => first'[t] = first[t])
      BY <2>1
    <3>2. CASE base[t] = Traffic!None
      <4>1. t \notin G /\ skipped'[t] = skipped[t]
        BY <2>4, <3>2
      <4>2. \A u \in G : y(u).team # t
        BY <4>1
      <4> HIDE DEF y, G
      <4>3. RowsOf(t)' = RowsOf(t)
        BY <2>4, <4>2 DEF RowsOf
      <4> QED
        BY <1>1, <1>4, <2>1, <3>1, <3>2, <4>1, <4>3, FirstReading
    <3>3. CASE base[t] # Traffic!None
      <4>1. t \in G
        <5>1. t \in seen
          BY <3>3 DEF TrafficInv, TeamInv
        <5> QED
          BY <3>3, <5>1, ReadFacts, ValuesAre
      <4>2. PICK d : d = Traffic!Minus(Counted(t), base[t])
        OBVIOUS
      <4>3. PICK z : z = y(t) /\ z.value = d /\ z.team = t /\ z.minute = minute'
        <5>1. new[t] = Counted(t)
          BY <2>5, <4>1
        <5>2. y(t) = [minute |-> minute', team |-> t, value |-> d]
          BY <1>1, <4>2, <5>1
        <5> QED
          BY <5>2
      <4>4. z \notin RowsOf(t)
        BY <1>3, <4>3 DEF RowsOf
      <4>5. \A u \in G : y(u).team = u
        OBVIOUS
      <4>6. Traffic!Growth(new)[t] = d
        BY <2>3, <2>5, <4>1, <4>2
      <4> HIDE DEF y, G
      <4>7. \/ RowsOf(t)' = RowsOf(t) \cup {z} /\ skipped'[t] = skipped[t]
            \/ RowsOf(t)' = RowsOf(t) /\ skipped'[t] = Traffic!Plus(skipped[t], d)
        <5>1. CASE stats' = stats \cup {y(u) : u \in G} /\ skipped' = [u \in TrafficTeams |-> skipped[u]]
          <6>1. RowsOf(t)' = RowsOf(t) \cup {z}
            BY <4>1, <4>3, <4>5, <5>1 DEF RowsOf
          <6> QED
            BY <5>1, <6>1
        <5>2. CASE /\ stats' = stats
                   /\ skipped' = [u \in TrafficTeams |-> IF u \in G THEN Traffic!Plus(skipped[u], Traffic!Growth(new)[u]) ELSE skipped[u]]
          BY <4>1, <4>6, <5>2 DEF RowsOf
        <5> QED
          BY <2>4, <5>1, <5>2
      <4> QED
        BY <1>1, <1>4, <2>1, <3>1, <3>3, <4>2, <4>3, <4>4, <4>7, AnotherReading
    <3> QED
      BY <3>2, <3>3
  <2> HIDE DEF new, y, G
  <2> QED
    BY <1>1, <1>2, <1>4, <2>1, <2>6, <2>7 DEF TrafficInv
<1>5. CASE pc = "fill"
  <2>1. pc' = "run" /\ base' = new /\ tick' = minute' /\ first' = new /\ UNCHANGED <<stats, skipped>>
    BY <1>5 DEF Traffic!NextMinute
  <2>2. ASSUME NEW t \in TrafficTeams PROVE TeamInv(t)'
    <3>1. RowsOf(t)' = RowsOf(t)
      BY <2>1 DEF RowsOf
    <3> HIDE DEF new
    <3>2. skipped'[t] = skipped[t] /\ base'[t] = new[t] /\ first'[t] = new[t]
      BY <2>1
    <3> QED
      BY <1>1, <1>5, <2>1, <3>1, <3>2, FirstReading DEF new
  <2> QED
    BY <1>1, <1>2, <1>3, <2>1, <2>2 DEF TrafficInv
<1>6. CASE pc \notin {"run", "fill"}
  <2>1. UNCHANGED <<pc, stats, base, old, tick, first, skipped>>
    BY <1>6 DEF Traffic!NextMinute
  <2>2. \A t \in TrafficTeams : TeamInv(t)'
    BY <1>1, <2>1, TeamKept DEF TrafficInv
  <2> QED
    BY <1>1, <1>2, <1>3, <2>1, <2>2 DEF TrafficInv
<1> QED
  BY <1>4, <1>5, <1>6

(* Every step keeps the invariant.                                         *)
LEMMA TrafficStep == TrafficInv /\ [Traffic!Next]_(Traffic!vars) => TrafficInv'
<1> SUFFICES ASSUME TrafficInv, [Traffic!Next]_(Traffic!vars) PROVE TrafficInv'
  OBVIOUS
<1>1. CASE UNCHANGED Traffic!vars
  <2>1. UNCHANGED <<minute, seen, map, pc, base, old, tick, saved, stats, restarts, first, skipped>>
    BY <1>1 DEF Traffic!vars
  <2>2. \A t \in TrafficTeams : TeamInv(t)'
    BY <2>1, TeamKept DEF TrafficInv
  <2> QED
    BY <2>1, <2>2 DEF TrafficInv
<1>2. CASE Traffic!Next
  BY <1>2, TrafficConnect, TrafficPacket, TrafficSwitch, TrafficStart, TrafficMinute, TrafficEnds DEF Traffic!Next
<1> QED
  BY <1>1, <1>2

(* It holds when nothing was counted.                                      *)
LEMMA TrafficInit == Traffic!Init => TrafficInv
<1> SUFFICES ASSUME Traffic!Init PROVE TrafficInv
  OBVIOUS
<1>1. /\ minute = 1 /\ seen = {} /\ map = [t \in TrafficTeams |-> [total |-> 0, teams |-> 0]] /\ pc = "off"
      /\ base = [t \in TrafficTeams |-> Traffic!None] /\ tick = 0 /\ saved = Traffic!None /\ stats = {} /\ restarts = 0
      /\ skipped = [t \in TrafficTeams |-> Traffic!Zero]
  BY DEF Traffic!Init, Traffic!NoBase
<1>2. MaxMinute \in Nat \ {0}
  BY ToolsAssumption
<1>3. ASSUME NEW t \in TrafficTeams PROVE TeamInv(t)
  <2>1. RowsOf(t) = {} /\ IsFiniteSet({}) /\ Added({}) = Traffic!Zero
    BY <1>1, AddedNone, FS_EmptySet DEF RowsOf
  <2>2. map[t] = [total |-> 0, teams |-> 0] /\ skipped[t] = Traffic!Zero /\ base[t] = Traffic!None
    BY <1>1
  <2>3. Traffic!Zero \in Values /\ AtMost(Traffic!Zero, Counted(t))
    BY <2>2 DEF Traffic!Zero, Values, AtMost, Counted
  <2> QED
    BY <1>1, <2>1, <2>2, <2>3 DEF TeamInv
<1> QED
  BY <1>1, <1>2, <1>3 DEF TrafficInv

(* The counter by itself.                                                  *)
LEMMA TrafficAlone == Traffic!Spec => [](Traffic!TypeOK /\ Traffic!TrafficCounted)
<1>1. TrafficInv => Traffic!TypeOK /\ Traffic!TrafficCounted
  <2> SUFFICES ASSUME TrafficInv PROVE Traffic!TypeOK /\ Traffic!TrafficCounted
    OBVIOUS
  <2>1. \A t \in TrafficTeams : base[t] = Traffic!None \/ base[t] \in [game: Nat, teams: Nat]
    BY DEF TrafficInv, TeamInv
  <2>2. Traffic!TypeOK
    BY <2>1 DEF TrafficInv, Traffic!TypeOK
  <2>3. ASSUME NEW t \in TrafficTeams PROVE Traffic!Stored(t) = Added(RowsOf(t))
    BY DEF Traffic!Stored, Added, RowsOf
  <2>4. ASSUME NEW t \in TrafficTeams
        PROVE  Traffic!Stored(t).game <= map[t].total - map[t].teams /\ Traffic!Stored(t).teams <= map[t].teams
    <3>1. AtMost(Added(RowsOf(t)), Counted(t))
      BY DEF TrafficInv, TeamInv
    <3> QED
      BY <2>3, <3>1 DEF AtMost, Counted
  <2>5. \A r \in stats : r.value.game >= 0 /\ r.value.teams >= 0
    BY DEF TrafficInv, Traffic!Row
  <2>6. ASSUME restarts = 0, pc = "run", NEW t \in TrafficTeams, base[t] # Traffic!None
        PROVE  Traffic!Plus(Traffic!Plus(Traffic!Stored(t), skipped[t]), first[t]) = base[t]
    BY <2>3, <2>6 DEF TrafficInv, TeamInv
  <2> QED
    BY <2>2, <2>4, <2>5, <2>6 DEF Traffic!TrafficCounted
<1> QED
  BY <1>1, TrafficInit, TrafficStep, PTL DEF Traffic!Spec

(* No packet is stored twice and none with a negative sign, over any       *)
(* number of restarts, crashes and switches of the network; and a process  *)
(* that was never restarted stores all since its first reading but the     *)
(* minutes without network (save_difference, main), for every number of    *)
(* teams, minutes and packets.                                             *)
THEOREM TrafficCorrect == Spec => []TrafficCounted
<1> DEFINE Chosen == component = "traffic"
<1>1. Traffic!Spec => [](Traffic!TypeOK /\ Traffic!TrafficCounted)
  BY TrafficAlone
<1>2. Init /\ Chosen => Traffic!Init
  BY DEF Init
<1>3. Chosen /\ [Next]_tools => Chosen' /\ [Traffic!Next]_(Traffic!vars)
  BY OneComponent DEF Next, tools, Traffic!vars
<1>4. ~Chosen /\ [Next]_tools => ~Chosen'
  BY OneComponent
<1> QED
  BY <1>1, <1>2, <1>3, <1>4, PTL DEF Spec, Traffic!Spec, TrafficCounted

============================================================================
