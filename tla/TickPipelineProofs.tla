------------------------ MODULE TickPipelineProofs ------------------------
(***************************************************************************)
(* Proofs about TickPipeline: the types, that the rows of a collected tick *)
(* are complete, that points are chained and rankings follow them, and     *)
(* that results are marked late or revoked as they should, for every       *)
(* number of ticks, combinations and failures.  The properties are not     *)
(* inductive; what makes them so is PipelineInv, a conjunction of one      *)
(* invariant per part of the pipeline.                                     *)
(***************************************************************************)
EXTENDS TickPipeline, WellFoundedInduction, TLAPS

-----------------------------------------------------------------------------
(* The inductive invariant.                                                *)

(* The clock is one tick ahead of what was saved only while a tick has     *)
(* begun and was not yet written to Redis.                                 *)
ClockInv ==
  /\ pc \in {"run", "ended", "over"} => tick = saved
  /\ pc = "begun" => tick = saved + 1
  /\ pc \in {"failing", "down"} => tick \in {saved, saved + 1} /\ failures >= 1
  /\ pc = "run" => saved >= 1
  /\ failures >= 1 => trouble \in {"crash", "abort"}

(* A tick is dispatched again only after a failure.                        *)
Dispatches(n) == groups[n] + (IF starter[n] = "dispatch" THEN 1 ELSE 0)
Horizon == IF pc = "begun" THEN tick ELSE saved
GroupOK(n) ==
  /\ Dispatches(n) <= failures + 1
  /\ n > Horizon => Dispatches(n) <= failures
  /\ ref[n] <= groups[n]
GroupsInv == \A n \in Ticks : GroupOK(n)

(* The tasks of a group that was not dispatched do not exist, and only a   *)
(* task that was dispatched reports.                                       *)
TasksInv ==
  /\ \A x \in Tasks : x[2] > groups[x[1]] => task[x] = "absent"
  /\ \A y \in Ticks \X Combinations : groups[y[1]] = 0 => reported[y] = {}

(* A task that saved its result has a row, and a row has a status.         *)
RowsInv ==
  /\ \A x \in Tasks : task[x] \in {"saved", "SUCCESS"} => row[RowOf(x)] # NoRow
  /\ \A y \in Ticks \X Combinations : row[y].status = "none" => row[y] = NoRow

(* The end threads are started in the order of the ticks; the thread of    *)
(* the saved tick is started before the next tick begins, and once only    *)
(* unless the master timer failed.                                         *)
EndersInv ==
  /\ \A n \in Ticks : ender[n] # "none" => n <= saved
  /\ \A n \in Ticks : n < saved => ender[n] # "none"
  /\ pc \in {"ended", "begun", "over"} => \A n \in Ticks : n <= saved => ender[n] # "none"
  /\ failures = 0 /\ pc = "run" => \A n \in Ticks : n >= saved => ender[n] = "none"

(* The end threads do not overlap unless the threads outlast their tick.   *)
SerialInv ==
  trouble # "overlap" => \A n \in Ticks : ender[n] \in Ending =>
    \A m \in Ticks : /\ m > n => ender[m] = "none"
                     /\ m < n => ender[m] \in {"done", "dead"}

(* Points are in the table for a prefix of the ticks, each adds up as many *)
(* ticks as it should, and only a thread that has scored leaves them.      *)
PointsInv ==
  /\ \A n \in Ticks : ender[n] = "none" => points[n] = <<>>
  /\ \A n \in Ticks : points[n] # <<>> => Len(points[n]) = n
  /\ \A n \in Ticks : points[n] # <<>> => \A m \in Ticks : m < n => points[m] # <<>>
  /\ \A n \in Ticks : ender[n] \in {"rank", "publish", "done"} => points[n] # <<>>
  /\ \A n \in Ticks : points[n] = <<>> => rank[n] = <<>>

(* A ranking is older than the points of its tick only between scoring and *)
(* ranking of a tick that is ended again, or when that was interrupted.    *)
Stale(n) == rank[n] # <<>> /\ rank[n] # points[n]
RankOK(n) ==
  /\ ender[n] \in {"publish", "done"} => rank[n] # <<>>
  /\ ender[n] = "done" => \A m \in Ticks : m = n - 1 => rank[m] # <<>>
  /\ ender[n] \in {"revoke", "collect", "score"} /\ points[n] # <<>> => failures >= 1
  /\ Stale(n) => \/ ender[n] = "rank" /\ failures >= 1
                 \/ failures >= 2
RankInv == trouble # "overlap" => \A n \in Ticks : RankOK(n)

(* Unless the master timer failed the start thread of a tick runs once.    *)
StarterOK(n) ==
  /\ n <= tick <=> starter[n] # "none"
  /\ starter[n] # "dead"
  /\ starter[n] \in {"none", "dispatch"} => groups[n] = 0
  /\ starter[n] \in {"save", "done"} => groups[n] = 1
  /\ starter[n] = "done" => ref[n] = 1
StartersInv == failures = 0 => \A n \in Ticks : StarterOK(n)

(* Unless the master timer failed a task is dispatched once, is collected  *)
(* once, and is forgotten by Celery only then.                             *)
Uncollected == {"none", "revoke", "collect"}
NotRun(n, c) ==
  /\ task[<<n, 1, c>>] \in {"PENDING", "STARTED", "REVOKED"} => reported[<<n, c>>] = {}
  /\ row[<<n, c>>].status = "REVOKED" => reported[<<n, c>>] = {}
  /\ task[<<n, 1, c>>] = "absent" /\ groups[n] = 1 => ender[n] \notin Uncollected
RunInv == failures = 0 => \A n \in Ticks, c \in Combinations : NotRun(n, c)

(* If nothing goes wrong a tick ends when it was dispatched, and is scored *)
(* when it was revoked and collected.                                      *)
InOrder(n) ==
  /\ ender[n] # "none" => starter[n] = "done"
  /\ ender[n] \notin {"none", "revoke"} => <<n, 1>> \in revoked
  /\ ender[n] \notin Uncollected => n \in collected
OrderInv == trouble = "none" => \A n \in Ticks : InOrder(n)

(* If nothing goes wrong a task that has not finished has a row only from  *)
(* its collection, which marks it late.                                    *)
Late(n, c) ==
  /\ ender[n] \in Uncollected /\ task[<<n, 1, c>>] \in {"absent", "PENDING", "STARTED"}
       => row[<<n, c>>] = NoRow
  /\ ender[n] \notin Uncollected /\ task[<<n, 1, c>>] = "STARTED" => row[<<n, c>>].late
  /\ points[n] # <<>> /\ row[<<n, c>>].status # points[n][n][c] => row[<<n, c>>].late
LateInv == trouble = "none" => \A n \in Ticks, c \in Combinations : Late(n, c)

PipelineInv ==
  /\ TypeOK /\ ClockInv /\ GroupsInv /\ TasksInv /\ RowsInv /\ RowsComplete
  /\ EndersInv /\ SerialInv /\ PointsInv
  /\ Chained /\ RankInv /\ StartersInv /\ RunInv /\ OrderInv /\ LateInv

-----------------------------------------------------------------------------
(* What the parts of the system leave alone.                               *)

(* The master timer touches neither tasks nor results.                     *)
LEMMA TimerFrame ==
  ASSUME Timer \/ Crash \/ Abort
  PROVE  UNCHANGED <<celery, row, scores, history, trouble>>
BY DEF Timer, Crash, Abort, EndTick, BeginTick, SaveClock, EndGame, Exit, Restart,
       celery, scores, history

(* on_start_tick's thread only dispatches.                                 *)
LEMMA StartFrame ==
  ASSUME NEW n \in Ticks, StartThread(n)
  PROVE  UNCHANGED <<clock, ender, revoked, row, scores, history, trouble, failures>>
BY DEF StartThread, Dispatch, SaveReference, clock, scores, history

(* A worker touches one task and its result.                               *)
LEMMA WorkersFrame ==
  ASSUME NEW x \in Tasks, Workers(x)
  PROVE  UNCHANGED <<clock, threads, groups, ref, revoked, scores, collected, trouble, failures>>
BY DEF Workers, StartTask, DiscardTask, ReportSuccess, save_checker_result, FailTask,
       clock, threads, scores, history

(* on_end_tick's thread does not dispatch, and no script reports to it.    *)
LEMMA EndFrame ==
  ASSUME NEW n \in Ticks, EndThread(n)
  PROVE  UNCHANGED <<clock, starter, groups, ref, reported, trouble, failures>>
BY DEF EndThread, revoke_checker_scripts, collect_checker_results, NothingToCollect,
       calculate_scoring_for_tick, calculate_ranking_per_tick, create_scoreboard,
       clock, celery, scores, history

(* The parts that take a step.                                             *)
LEMMA StepCases ==
  ASSUME [Next]_vars
  PROVE  \/ Timer \/ Crash \/ Abort
         \/ \E n \in Ticks : StartThread(n)
         \/ \E n \in Ticks : EndThread(n)
         \/ \E x \in Tasks : Workers(x)
         \/ UNCHANGED vars
BY DEF Next

(* A task is a tick, a group and a combination.                            *)
LEMMA TaskTuple ==
  /\ \A n \in Ticks, g \in Groups, c \in Combinations :
       <<n, g, c>> \in Tasks /\ RowOf(<<n, g, c>>) = <<n, c>>
  /\ \A x \in Tasks :
       /\ x[1] \in Ticks /\ x[2] \in Groups /\ x[3] \in Combinations
       /\ x = <<x[1], x[2], x[3]>>
       /\ RowOf(x) \in Ticks \X Combinations
BY DEF Tasks, RowOf

-----------------------------------------------------------------------------
(* The clock and the dispatched groups.                                    *)

(* The clock runs ahead of what was saved by at most one tick.            *)
LEMMA ClockStep ==
  ASSUME TypeOK, ClockInv, [Next]_vars
  PROVE  ClockInv'
<1> USE DEF TypeOK, ClockInv
<1>1. CASE EndTick
  BY <1>1 DEF EndTick
<1>2. CASE BeginTick
  BY <1>2 DEF BeginTick
<1>3. CASE SaveClock
  BY <1>3 DEF SaveClock
<1>4. CASE EndGame
  BY <1>4 DEF EndGame
<1>5. CASE Crash
  BY <1>5 DEF Crash
<1>6. CASE Abort
  BY <1>6 DEF Abort
<1>7. CASE Exit
  BY <1>7 DEF Exit
<1>8. CASE Restart
  BY <1>8 DEF Restart
<1>9. CASE UNCHANGED <<clock, trouble, failures>>
  BY <1>9 DEF clock
<1> QED
  BY <1>1, <1>2, <1>3, <1>4, <1>5, <1>6, <1>7, <1>8, <1>9,
     StepCases, StartFrame, EndFrame, WorkersFrame DEF Timer, vars

(* A tick is begun once, and once more for every failure.                  *)
LEMMA GroupsStep ==
  ASSUME TypeOK, ClockInv, GroupsInv, [Next]_vars
  PROVE  GroupsInv'
<1> SUFFICES ASSUME NEW m \in Ticks PROVE GroupOK(m)'
  BY DEF GroupsInv
<1>0. /\ GroupOK(m) /\ m \in Nat /\ tick \in Nat /\ saved \in Nat /\ failures \in Nat
      /\ groups[m] \in Nat /\ ref[m] \in Nat
  BY PipelineAssumption DEF GroupsInv, TypeOK, Ticks
<1>1. CASE EndTick \/ EndGame \/ Exit \/ Restart
  BY <1>0, <1>1 DEF EndTick, EndGame, Exit, Restart, GroupOK, Dispatches, Horizon, ClockInv,
     celery, threads
<1>2. CASE BeginTick
  <2>1. /\ starter[m]' = IF m = tick + 1 THEN "dispatch" ELSE starter[m]
        /\ groups' = groups /\ ref' = ref /\ failures' = failures
        /\ Horizon = tick /\ Horizon' = tick + 1
    BY <1>0, <1>2 DEF BeginTick, TypeOK, Horizon, ClockInv, celery
  <2> QED
    BY <1>0, <2>1 DEF GroupOK, Dispatches
<1>3. CASE SaveClock
  BY <1>0, <1>3 DEF SaveClock, GroupOK, Dispatches, Horizon, ClockInv, celery, threads
<1>4. CASE Crash
  <2>1. /\ starter'[m] = "dispatch" => starter[m] = "dispatch"
        /\ groups' = groups /\ ref' = ref /\ failures' = failures + 1
    BY <1>4 DEF Crash, Starting, celery
  <2> QED
    BY <1>0, <2>1 DEF GroupOK, Dispatches
<1>5. CASE Abort
  <2>1. starter' = starter /\ groups' = groups /\ ref' = ref /\ failures' = failures + 1
    BY <1>5 DEF Abort, threads, celery
  <2> QED
    BY <1>0, <2>1 DEF GroupOK, Dispatches
<1>6. ASSUME NEW n \in Ticks, StartThread(n) PROVE GroupOK(m)'
  <2>1. failures' = failures /\ Horizon' = Horizon
    BY <1>6, StartFrame DEF clock, Horizon
  <2>2. CASE Dispatch(n)
    <3>1. /\ ref' = ref
          /\ groups'[m] = IF m = n THEN groups[m] + 1 ELSE groups[m]
          /\ starter'[m] = IF m = n THEN "save" ELSE starter[m]
      BY <2>2 DEF Dispatch, TypeOK
    <3> QED
      BY <1>0, <2>1, <2>2, <3>1 DEF GroupOK, Dispatches, Dispatch
  <2>3. CASE SaveReference(n)
    <3>1. /\ groups' = groups
          /\ ref'[m] = IF m = n THEN groups[m] ELSE ref[m]
          /\ starter'[m] = IF m = n THEN "done" ELSE starter[m]
      BY <2>3 DEF SaveReference, TypeOK
    <3> QED
      BY <1>0, <2>1, <2>3, <3>1 DEF GroupOK, Dispatches, SaveReference
  <2> QED
    BY <1>6, <2>2, <2>3 DEF StartThread
<1>7. CASE UNCHANGED <<clock, starter, groups, ref, failures>>
  BY <1>0, <1>7 DEF clock, GroupOK, Dispatches, Horizon
<1> QED
  BY <1>1, <1>2, <1>3, <1>4, <1>5, <1>6, <1>7,
     StepCases, EndFrame, WorkersFrame DEF Timer, vars, threads, celery

-----------------------------------------------------------------------------
(* What is scored.                                                         *)

(* Every nonempty set of natural numbers has a least one.                  *)
LEMMA LeastNumber ==
  ASSUME NEW T, T \subseteq Nat, T # {}
  PROVE  \E x \in T : \A y \in T : x <= y
<1> DEFINE R == {ss \in Nat \X Nat : ss[1] < ss[2]}
<1>1. \E x \in T : \A y \in T : <<y, x>> \notin R
  <2>1. IsWellFoundedOn(R, Nat)
    BY NatLessThanWellFounded DEF OpToRel
  <2> HIDE DEF R
  <2> QED
    BY <2>1, WFMin
<1>2. \A x, y \in Nat : <<y, x>> \notin R => x <= y
  OBVIOUS
<1> HIDE DEF R
<1> QED
  BY <1>1, <1>2

(* The last tick before n with points exists, and there is one such tick.  *)
LEMMA LastScoredFacts ==
  ASSUME NEW n \in Ticks, NEW k, k = LastScored(n)
  PROVE  /\ k \in 0..(n - 1)
         /\ k = 0 \/ points[k] # <<>>
         /\ \A j \in (k + 1)..(n - 1) : points[j] = <<>>
<1> DEFINE P(i) == i = 0 \/ points[i] # <<>>
           T == {d \in Nat : d <= n - 1 /\ P(n - 1 - d)}
<1>1. n \in Nat /\ n >= 1
  BY PipelineAssumption DEF Ticks
<1>2. PICK d \in T : \A y \in T : d <= y
  <2>1. n - 1 \in T
    BY <1>1
  <2> HIDE DEF T
  <2>2. T \subseteq Nat
    BY DEF T
  <2> QED
    BY <2>1, <2>2, LeastNumber
<1>3. /\ n - 1 - d \in 0..(n - 1) /\ P(n - 1 - d)
  BY <1>1, <1>2
<1>4. ASSUME NEW j \in (n - 1 - d + 1)..(n - 1) PROVE points[j] = <<>>
  <2>1. /\ n - 1 - j \in Nat /\ n - 1 - j <= n - 1 /\ n - 1 - j < d /\ n - 1 - (n - 1 - j) = j
        /\ j # 0
    BY <1>1, <1>2
  <2>2. d \in Nat
    BY <1>2
  <2>3. n - 1 - j \notin T
    <3> HIDE DEF T
    <3>1. ASSUME n - 1 - j \in T PROVE d <= n - 1 - j
      BY <1>2, <3>1
    <3> QED
      BY <1>1, <2>1, <2>2, <3>1
  <2> QED
    BY <2>1, <2>3
<1> HIDE DEF T
<1>5. \E i \in 0..(n - 1) :
        /\ i = 0 \/ points[i] # <<>>
        /\ \A j \in (i + 1)..(n - 1) : points[j] = <<>>
  BY <1>3, <1>4
<1> QED
  BY <1>5 DEF LastScored

(* The results of a tick have a status for every combination.              *)
LEMMA ResultsType ==
  ASSUME TypeOK, RowsInv, NEW n \in Ticks
  PROVE  Results(n) \in Result
<1> SUFFICES ASSUME NEW c \in Combinations
             PROVE  (IF row[<<n, c>>] = NoRow THEN "REVOKED" ELSE row[<<n, c>>].status) \in Statuses
  BY DEF Results, Result
<1>1. row[<<n, c>>].status \in Statuses \cup {"none"}
  BY DEF TypeOK, Rows
<1>2. row[<<n, c>>].status = "none" => row[<<n, c>>] = NoRow
  BY DEF RowsInv
<1> QED
  BY <1>1, <1>2 DEF Statuses

(* calculate_scoring_for_tick gives points to the ticks after the last one *)
(* that has some, up to its own: the sums it continues, then the results.  *)
Sum(k, j) == [i \in 1..j |-> IF i <= k THEN points[k][i] ELSE Results(i)]
(* The ticks that get points, and those that keep theirs.                  *)
LEMMA ScoredFacts ==
  ASSUME TypeOK, RowsInv, PointsInv, NEW n \in Ticks, NEW k, k = LastScored(n), NEW j \in Ticks
  PROVE  /\ j \in (k + 1)..n => /\ Scored(n)[j] = Sum(k, j)
                                /\ Scored(n)[j] \in Seq(Result)
                                /\ Len(Scored(n)[j]) = j /\ Scored(n)[j] # <<>>
         /\ j \notin (k + 1)..n => Scored(n)[j] = points[j]
<1>1. j \notin (k + 1)..n => Scored(n)[j] = points[j]
  BY DEF Scored
<1>2. ASSUME j \in (k + 1)..n
      PROVE /\ Scored(n)[j] = Sum(k, j)
            /\ Scored(n)[j] \in Seq(Result)
            /\ Len(Scored(n)[j]) = j /\ Scored(n)[j] # <<>>
  <2>1. Scored(n)[j] = Sum(k, j)
    BY <1>2 DEF Scored, Sum
  <2>2. /\ k \in Nat /\ j \in Nat /\ n \in Nat /\ k < j /\ j >= 1 /\ (k # 0 => k \in Ticks)
        /\ k = 0 \/ points[k] # <<>>
    <3>1. k \in 0..(n - 1) /\ (k = 0 \/ points[k] # <<>>)
      BY LastScoredFacts
    <3> QED
      BY <1>2, <3>1, PipelineAssumption DEF Ticks
  <2>3. ASSUME NEW i \in 1..j PROVE (IF i <= k THEN points[k][i] ELSE Results(i)) \in Result
    <3>1. CASE i <= k
      <4>1. k \in Ticks /\ Len(points[k]) = k /\ points[k] \in Seq(Result)
        BY <2>2, <2>3, <3>1 DEF PointsInv, TypeOK
      <4>2. i \in 1..Len(points[k])
        BY <2>2, <2>3, <3>1, <4>1
      <4> QED
        BY <3>1, <4>1, <4>2
    <3>2. CASE ~(i <= k)
      <4>1. i \in Ticks
        BY <2>2, <2>3, PipelineAssumption DEF Ticks
      <4> QED
        BY <3>2, <4>1, ResultsType
    <3> QED
      BY <3>1, <3>2
  <2>4. Sum(k, j) \in [1..j -> Result]
    BY <2>3 DEF Sum
  <2>5. Sum(k, j) \in Seq(Result) /\ Len(Sum(k, j)) = j
    BY <2>2, <2>4
  <2> QED
    BY <2>1, <2>2, <2>5
<1> QED
  BY <1>1, <1>2

(* Collecting leaves a result in every row that has a task to answer for.  *)
LEMMA CollectedRow ==
  ASSUME NEW state \in TaskStates, NEW r \in Rows
  PROVE  /\ handle_celery_result(state, r) \in Rows
         /\ state # "SUCCESS" =>
              /\ handle_celery_result(state, r).status \in {"TIMEOUT", "CRASHED", "REVOKED"}
              /\ r = NoRow /\ state \in {"STARTED", "saved"} => handle_celery_result(state, r).late
         /\ state \in {"STARTED", "saved", "killed", "lost"} =>
              handle_celery_result(state, r).status # "REVOKED"
         /\ state = "SUCCESS" => handle_celery_result(state, r) = r
<1>1. /\ r.status \in Statuses \cup {"none"} /\ r.late \in BOOLEAN /\ r.finished \in BOOLEAN
      /\ {"TIMEOUT", "CRASHED", "REVOKED"} \subseteq Statuses
  BY DEF Rows, Statuses
<1>2. ASSUME NEW status \in {"TIMEOUT", "CRASHED", "REVOKED"}, NEW late \in BOOLEAN
      PROVE  /\ Upsert(r, status, late) \in Rows
             /\ Upsert(r, status, late).status = status
             /\ r = NoRow /\ late => Upsert(r, status, late).late
  BY <1>1 DEF Upsert, Rows
<1>3. CASE state = "killed"
  <2>1. handle_celery_result(state, r) = Upsert(r, "TIMEOUT", FALSE)
    BY <1>3 DEF handle_celery_result
  <2> QED
    BY <1>2, <1>3, <2>1
<1>4. CASE state = "lost"
  <2>1. handle_celery_result(state, r) = Upsert(r, "CRASHED", FALSE)
    BY <1>4 DEF handle_celery_result
  <2> QED
    BY <1>2, <1>4, <2>1
<1>5. CASE state \in {"STARTED", "saved"}
  <2>1. handle_celery_result(state, r) = Upsert(r, "TIMEOUT", TRUE)
    BY <1>5 DEF handle_celery_result
  <2> QED
    BY <1>2, <1>5, <2>1
<1>6. CASE state \in {"PENDING", "REVOKED", "absent"}
  <2>1. handle_celery_result(state, r) = Upsert(r, "REVOKED", FALSE)
    BY <1>6 DEF handle_celery_result
  <2> QED
    BY <1>2, <1>6, <2>1
<1>7. CASE state = "SUCCESS"
  BY <1>7 DEF handle_celery_result
<1> QED
  BY <1>3, <1>4, <1>5, <1>6, <1>7 DEF TaskStates

-----------------------------------------------------------------------------
(* Types.                                                                  *)

(* The rows that are collected for tick n.                                 *)
LEMMA RowsCollectedFacts ==
  ASSUME TypeOK, NEW n \in Ticks, ref[n] # 0
  PROVE  /\ ref[n] \in Groups
         /\ RowsCollected(n) \in [Ticks \X Combinations -> Rows]
         /\ \A c \in Combinations : /\ <<n, ref[n], c>> \in Tasks
                                    /\ task[<<n, ref[n], c>>] \in TaskStates
                                    /\ row[<<n, c>>] \in Rows
                                    /\ RowsCollected(n)[<<n, c>>] =
                                         handle_celery_result(task[<<n, ref[n], c>>], row[<<n, c>>])
         /\ \A y \in Ticks \X Combinations : y[1] # n => RowsCollected(n)[y] = row[y]
<1>1. ref[n] \in Groups
  BY PipelineAssumption DEF TypeOK, Groups
<1>2. ASSUME NEW c \in Combinations
      PROVE  <<n, ref[n], c>> \in Tasks /\ task[<<n, ref[n], c>>] \in TaskStates /\ row[<<n, c>>] \in Rows
  BY <1>1, TaskTuple DEF TypeOK
<1>3. ASSUME NEW y \in Ticks \X Combinations
      PROVE  (IF y[1] = n THEN handle_celery_result(task[<<n, ref[n], y[2]>>], row[y]) ELSE row[y]) \in Rows
  <2>1. y[2] \in Combinations /\ row[y] \in Rows
    BY DEF TypeOK
  <2> QED
    BY <1>2, <2>1, CollectedRow
<1> QED
  BY <1>1, <1>2, <1>3 DEF RowsCollected

(* Every step keeps the types.                                            *)
LEMMA TypeStep ==
  ASSUME TypeOK, GroupsInv, RowsInv, PointsInv, [Next]_vars
  PROVE  TypeOK'
<1> USE PipelineAssumption
<1>0. Ticks \subseteq Nat /\ MaxTick \in Nat /\ MaxFailures \in Nat
  BY DEF Ticks
<1>1. CASE EndTick
  BY <1>1, TimerFrame DEF EndTick, TypeOK, Timer, Ending, celery, scores, history
<1>2. CASE BeginTick
  <2>1. tick' \in 0..MaxTick
    BY <1>0, <1>2 DEF BeginTick, TypeOK
  <2>2. starter' \in [Ticks -> Starting \cup Idle]
    BY <1>2 DEF BeginTick, TypeOK, Starting
  <2> QED
    BY <1>2, <2>1, <2>2 DEF BeginTick, TypeOK, celery, scores, history
<1>3. CASE SaveClock
  BY <1>3 DEF SaveClock, TypeOK, celery, scores, history, threads
<1>4. CASE EndGame
  BY <1>4 DEF EndGame, TypeOK, celery, scores, history, threads
<1>5. CASE Crash
  <2>1. starter' \in [Ticks -> Starting \cup Idle] /\ ender' \in [Ticks -> Ending \cup Idle]
    BY <1>5 DEF Crash, TypeOK, Idle
  <2>2. failures' \in 0..MaxFailures
    BY <1>0, <1>5 DEF Crash, TypeOK
  <2> QED
    BY <1>5, <2>1, <2>2 DEF Crash, TypeOK, celery, scores, history
<1>6. CASE Abort
  <2>1. failures' \in 0..MaxFailures
    BY <1>0, <1>6 DEF Abort, TypeOK
  <2> QED
    BY <1>6, <2>1 DEF Abort, TypeOK, celery, scores, history, threads
<1>7. CASE Exit
  BY <1>7 DEF Exit, TypeOK, celery, scores, history, threads
<1>8. CASE Restart
  BY <1>8 DEF Restart, TypeOK, celery, scores, history, threads
<1>9. ASSUME NEW n \in Ticks, Dispatch(n) PROVE TypeOK'
  <2>1. groups' \in [Ticks -> 0..(MaxFailures + 1)]
    <3>1. groups[n] + 1 \in 0..(MaxFailures + 1)
      BY <1>0, <1>9 DEF Dispatch, TypeOK, GroupsInv, GroupOK, Dispatches
    <3> QED
      BY <1>9, <3>1 DEF Dispatch, TypeOK
  <2>2. task' \in [Tasks -> TaskStates]
    BY <1>9 DEF Dispatch, TypeOK, TaskStates
  <2>3. starter' \in [Ticks -> Starting \cup Idle]
    BY <1>9 DEF Dispatch, TypeOK, Starting
  <2> QED
    BY <1>9, <2>1, <2>2, <2>3 DEF Dispatch, TypeOK, clock, scores, history
<1>10. ASSUME NEW n \in Ticks, SaveReference(n) PROVE TypeOK'
  <2>1. starter' \in [Ticks -> Starting \cup Idle] /\ ref' \in [Ticks -> 0..(MaxFailures + 1)]
    BY <1>10 DEF SaveReference, TypeOK, Idle
  <2> QED
    BY <1>10, <2>1 DEF SaveReference, TypeOK, clock, scores, history
<1>11. ASSUME NEW x \in Tasks, Workers(x) PROVE TypeOK'
  <2>1. task' \in [Tasks -> TaskStates]
    BY <1>11 DEF Workers, StartTask, DiscardTask, ReportSuccess, save_checker_result, FailTask,
       SetTask, TypeOK, TaskStates
  <2>2. row' \in [Ticks \X Combinations -> Rows] /\ reported' \in [Ticks \X Combinations -> SUBSET Outcomes]
    <3>1. ASSUME NEW status \in Outcomes, save_checker_result(x, status)
          PROVE  /\ row' \in [Ticks \X Combinations -> Rows]
                 /\ reported' \in [Ticks \X Combinations -> SUBSET Outcomes]
      <4>1. RowOf(x) \in Ticks \X Combinations /\ row[RowOf(x)].late \in BOOLEAN
        BY TaskTuple DEF TypeOK, Rows
      <4>2. [status |-> status, late |-> row[RowOf(x)].late, finished |-> TRUE] \in Rows
        BY <4>1 DEF Rows, Statuses
      <4> QED
        BY <3>1, <4>1, <4>2 DEF save_checker_result, TypeOK
    <3>2. CASE row' = row /\ reported' = reported
      BY <3>2 DEF TypeOK
    <3> QED
      BY <1>11, <3>1, <3>2 DEF Workers, StartTask, DiscardTask, ReportSuccess, FailTask, history
  <2> QED
    BY <1>11, <2>1, <2>2, WorkersFrame DEF TypeOK, clock, threads, scores
<1>12. ASSUME NEW n \in Ticks, EndThread(n) PROVE TypeOK'
  <2> USE <1>12
  <2>1. ender' \in [Ticks -> Ending \cup Idle]
    BY DEF EndThread, revoke_checker_scripts, collect_checker_results, NothingToCollect,
       calculate_scoring_for_tick, calculate_ranking_per_tick, create_scoreboard, GoOn,
       TypeOK, Ending, Idle
  <2>2. CASE revoke_checker_scripts(n)
    <3>1. revoked' \subseteq Ticks \X Groups
      BY <1>0, <2>2 DEF revoke_checker_scripts, TypeOK, Groups
    <3> QED
      BY <2>1, <2>2, <3>1 DEF revoke_checker_scripts, TypeOK, clock, scores, history
  <2>3. CASE collect_checker_results(n)
    <3>1. row' \in [Ticks \X Combinations -> Rows]
      BY <2>3, RowsCollectedFacts DEF collect_checker_results
    <3>2. task' \in [Tasks -> TaskStates] /\ collected' \subseteq Ticks
      BY <2>3 DEF collect_checker_results, TypeOK, TaskStates
    <3> QED
      BY <2>1, <2>3, <3>1, <3>2 DEF collect_checker_results, TypeOK, clock, scores
  <2>4. CASE NothingToCollect(n)
    BY <2>1, <2>4 DEF NothingToCollect, TypeOK, clock, celery, scores, history
  <2>5. CASE calculate_scoring_for_tick(n)
    <3>1. \A j \in Ticks : Scored(n)[j] \in Seq(Result)
      BY ScoredFacts DEF TypeOK
    <3>2. points' \in [Ticks -> Seq(Result)]
      BY <2>5, <3>1 DEF calculate_scoring_for_tick, Scored
    <3> QED
      BY <2>1, <2>5, <3>2 DEF calculate_scoring_for_tick, TypeOK, clock, celery, history
  <2>6. CASE calculate_ranking_per_tick(n)
    BY <2>1, <2>6 DEF calculate_ranking_per_tick, TypeOK, clock, celery, history
  <2>7. CASE create_scoreboard(n)
    BY <2>1, <2>7 DEF create_scoreboard, TypeOK, clock, celery, history
  <2> QED
    BY <2>2, <2>3, <2>4, <2>5, <2>6, <2>7 DEF EndThread
<1>13. CASE UNCHANGED vars
  BY <1>13 DEF vars, TypeOK, clock, threads, celery, scores, history
<1> QED
  BY <1>1, <1>2, <1>3, <1>4, <1>5, <1>6, <1>7, <1>8, <1>9, <1>10, <1>11, <1>12, <1>13, StepCases
     DEF Timer, StartThread

-----------------------------------------------------------------------------
(* Tasks and rows.                                                         *)

(* A task exists once its group was dispatched, and reports only then.     *)
LEMMA TasksStep ==
  ASSUME TypeOK, TasksInv, [Next]_vars
  PROVE  TasksInv'
<1>1. ASSUME NEW n \in Ticks, Dispatch(n) PROVE TasksInv'
  <2>1. \A m \in Ticks : groups'[m] = IF m = n THEN groups[m] + 1 ELSE groups[m]
    BY <1>1 DEF Dispatch, TypeOK
  <2>2. \A m \in Ticks : groups[m] \in Nat
    BY PipelineAssumption DEF TypeOK
  <2>3. ASSUME NEW x \in Tasks, x[2] > groups'[x[1]] PROVE task'[x] = "absent"
    <3>1. x[1] \in Ticks /\ x[2] \in Nat
      BY TaskTuple, PipelineAssumption DEF Groups
    <3>2. x[2] > groups[x[1]] /\ ~(x[1] = n /\ x[2] = groups[n] + 1)
      BY <2>1, <2>2, <2>3, <3>1
    <3> QED
      BY <1>1, <3>2 DEF Dispatch, TasksInv
  <2>4. ASSUME NEW y \in Ticks \X Combinations, groups'[y[1]] = 0 PROVE reported'[y] = {}
    <3>1. groups[y[1]] = 0
      BY <2>1, <2>2, <2>4
    <3> QED
      BY <1>1, <3>1 DEF Dispatch, TasksInv, history
  <2> QED
    BY <2>3, <2>4 DEF TasksInv
<1>2. ASSUME NEW x \in Tasks, Workers(x) PROVE TasksInv'
  <2>1. groups' = groups
    BY <1>2, WorkersFrame
  <2>2. task[x] # "absent" /\ task' = [task EXCEPT ![x] = task'[x]]
    BY <1>2 DEF Workers, StartTask, DiscardTask, ReportSuccess, save_checker_result, FailTask,
       SetTask, TypeOK
  <2>3. x[1] \in Ticks /\ groups[x[1]] # 0 /\ RowOf(x) = <<x[1], x[3]>>
    <3>1. x[1] \in Ticks /\ x[2] \in Groups
      BY TaskTuple
    <3>2. groups[x[1]] \in Nat /\ x[2] \in Nat /\ x[2] >= 1
      BY <3>1, PipelineAssumption DEF TypeOK, Groups
    <3>3. ~(x[2] > groups[x[1]])
      BY <2>2 DEF TasksInv
    <3> QED
      BY <3>1, <3>2, <3>3 DEF RowOf
  <2>4. \A y \in Ticks \X Combinations : groups[y[1]] = 0 => reported'[y] = reported[y]
    <3>1. \A y \in Ticks \X Combinations : groups[y[1]] = 0 => y # RowOf(x)
      BY <2>3
    <3>2. CASE reported' = reported
      BY <3>2
    <3>3. ASSUME NEW status \in Outcomes, save_checker_result(x, status)
          PROVE  \A y \in Ticks \X Combinations : y # RowOf(x) => reported'[y] = reported[y]
      BY <3>3 DEF save_checker_result, TypeOK
    <3> QED
      BY <1>2, <3>1, <3>2, <3>3 DEF Workers, StartTask, DiscardTask, ReportSuccess, FailTask, history
  <2>5. \A z \in Tasks : z[2] > groups[z[1]] => task'[z] = "absent"
    BY <2>2 DEF TasksInv, TypeOK
  <2> QED
    BY <2>1, <2>4, <2>5 DEF TasksInv
<1>3. ASSUME NEW n \in Ticks, EndThread(n) PROVE TasksInv'
  <2>1. groups' = groups /\ reported' = reported
    BY <1>3, EndFrame
  <2>2. \A x \in Tasks : task[x] = "absent" => task'[x] = "absent"
    BY <1>3 DEF EndThread, revoke_checker_scripts, collect_checker_results, NothingToCollect,
       calculate_scoring_for_tick, calculate_ranking_per_tick, create_scoreboard, celery
  <2> QED
    BY <2>1, <2>2 DEF TasksInv
<1>4. CASE UNCHANGED <<groups, task, reported>>
  BY <1>4 DEF TasksInv
<1> QED
  BY <1>1, <1>2, <1>3, <1>4, StepCases, TimerFrame
     DEF StartThread, SaveReference, vars, celery, history

(* A row is never removed, and a saved result has one.                     *)
LEMMA RowsStep ==
  ASSUME TypeOK, RowsInv, RowsComplete, [Next]_vars
  PROVE  RowsInv' /\ RowsComplete'
<1>1. ASSUME NEW n \in Ticks, Dispatch(n) PROVE RowsInv' /\ RowsComplete'
  BY <1>1 DEF Dispatch, RowsInv, RowsComplete, history
<1>2. ASSUME NEW x \in Tasks, Workers(x) PROVE RowsInv' /\ RowsComplete'
  <2>1. ASSUME NEW status \in Outcomes, save_checker_result(x, status)
        PROVE  RowsInv' /\ RowsComplete'
    <3>1. RowOf(x) \in Ticks \X Combinations
      BY TaskTuple
    <3>2. /\ row'[RowOf(x)].status = status /\ status # "none" /\ row'[RowOf(x)] # NoRow
          /\ \A y \in Ticks \X Combinations : y # RowOf(x) => row'[y] = row[y]
          /\ collected' = collected
          /\ \A z \in Tasks : z # x => task'[z] = task[z]
      BY <2>1, <3>1, PipelineAssumption DEF save_checker_result, TypeOK, NoRow, SetTask
    <3>3. RowsInv'
      BY <3>2, TaskTuple DEF RowsInv
    <3>4. RowsComplete'
      BY <3>2 DEF RowsComplete, TypeOK
    <3> QED
      BY <3>3, <3>4
  <2>2. CASE StartTask(x) \/ DiscardTask(x) \/ ReportSuccess(x)
             \/ \E state \in {"killed", "lost"} : FailTask(x, state)
    BY <2>2 DEF StartTask, DiscardTask, ReportSuccess, FailTask, SetTask, RowsInv, RowsComplete,
       TypeOK, history
  <2> QED
    BY <1>2, <2>1, <2>2 DEF Workers
<1>3. ASSUME NEW n \in Ticks, collect_checker_results(n) PROVE RowsInv' /\ RowsComplete'
  <2>1. row' = RowsCollected(n) /\ collected' = collected \cup {n} /\ ref[n] # 0
    BY <1>3 DEF collect_checker_results
  <2>2. ASSUME NEW c \in Combinations
        PROVE row'[<<n, c>>] # NoRow /\ row'[<<n, c>>].status # "none"
    <3> DEFINE state == task[<<n, ref[n], c>>]
    <3>1. /\ state \in TaskStates /\ row[<<n, c>>] \in Rows /\ <<n, ref[n], c>> \in Tasks
          /\ row'[<<n, c>>] = handle_celery_result(state, row[<<n, c>>]) /\ ref[n] \in Groups
      BY <2>1, RowsCollectedFacts
    <3>2. CASE state = "SUCCESS"
      <4>1. RowOf(<<n, ref[n], c>>) = <<n, c>>
        BY <3>1, TaskTuple
      <4> QED
        BY <3>1, <3>2, <4>1, CollectedRow DEF RowsInv
    <3>3. CASE state # "SUCCESS"
      BY <3>1, <3>3, CollectedRow DEF NoRow
    <3> QED
      BY <3>2, <3>3
  <2>3. \A y \in Ticks \X Combinations :
          /\ y[1] # n => row'[y] = row[y]
          /\ y[1] = n => row'[y] # NoRow /\ row'[y].status # "none"
    BY <2>1, <2>2, RowsCollectedFacts
  <2>4. \A x \in Tasks : task'[x] \in {"saved", "SUCCESS"} => task'[x] = task[x]
    BY <1>3 DEF collect_checker_results
  <2>5. RowsInv'
    BY <2>3, <2>4, TaskTuple DEF RowsInv
  <2>6. RowsComplete'
    BY <2>1, <2>2, <2>3 DEF RowsComplete, TypeOK
  <2> QED
    BY <2>5, <2>6
<1>4. CASE UNCHANGED <<task, row, collected>>
  BY <1>4 DEF RowsInv, RowsComplete
<1> QED
  BY <1>1, <1>2, <1>3, <1>4, StepCases, TimerFrame
     DEF StartThread, SaveReference, EndThread, revoke_checker_scripts, NothingToCollect,
         calculate_scoring_for_tick, calculate_ranking_per_tick, create_scoreboard,
         vars, celery, history

-----------------------------------------------------------------------------
(* The end threads.                                                        *)

(* A thread of on_end_tick goes on with its own tick, and never back.      *)
LEMMA EndMoves ==
  ASSUME TypeOK, NEW n \in Ticks, EndThread(n)
  PROVE  /\ ender[n] \in Ending
         /\ ender'[n] \in (Ending \cup {"done", "dead"}) \ {"none", "revoke"}
         /\ \A m \in Ticks : m # n => ender'[m] = ender[m]
BY DEF EndThread, revoke_checker_scripts, collect_checker_results, NothingToCollect,
       calculate_scoring_for_tick, calculate_ranking_per_tick, create_scoreboard, GoOn,
       TypeOK, Ending

(* A killed master leaves no thread behind.                                *)
LEMMA CrashKills ==
  ASSUME TypeOK, Crash, NEW n \in Ticks
  PROVE  /\ ender[n] \in Ending => ender'[n] = "dead"
         /\ ender[n] \notin Ending => ender'[n] = ender[n]
         /\ ender'[n] \notin Ending
         /\ ender'[n] = "none" <=> ender[n] = "none"
BY DEF Crash, TypeOK, Ending, Idle

(* The end threads are started tick by tick.                               *)
LEMMA EndersStep ==
  ASSUME TypeOK, ClockInv, EndersInv, [Next]_vars
  PROVE  EndersInv'
<1>0. /\ tick \in Nat /\ saved \in Nat /\ failures \in Nat /\ MaxTick \in Nat
      /\ \A n \in Ticks : n \in Nat /\ n >= 1
  BY PipelineAssumption DEF TypeOK, Ticks
<1>1. CASE EndTick
  <2>1. /\ pc = "run" /\ tick = saved /\ saved' = saved /\ pc' = "ended"
        /\ \A m \in Ticks : ender'[m] = IF m = saved THEN "revoke" ELSE ender[m]
    BY <1>1 DEF EndTick, TypeOK, ClockInv
  <2> QED
    BY <1>0, <2>1 DEF EndersInv
<1>2. CASE BeginTick \/ EndGame
  BY <1>2 DEF BeginTick, EndGame, EndersInv, threads
<1>3. CASE SaveClock
  <2>1. saved' = saved + 1 /\ pc' = "run" /\ ender' = ender /\ pc = "begun"
    BY <1>3 DEF SaveClock, ClockInv, threads
  <2> QED
    BY <1>0, <2>1 DEF EndersInv
<1>4. CASE Crash
  <2>1. saved' = saved /\ failures' # 0 /\ pc' = (IF pc = "over" THEN "over" ELSE "down")
    BY <1>0, <1>4 DEF Crash
  <2> QED
    BY <1>4, <2>1, CrashKills DEF EndersInv
<1>5. CASE Abort \/ Exit
  BY <1>0, <1>5 DEF Abort, Exit, EndersInv, threads
<1>6. CASE Restart
  <2>1. /\ saved' = saved /\ ender' = ender /\ failures # 0 /\ failures' = failures
        /\ pc' = IF saved = 0 THEN "ended" ELSE "run"
    BY <1>0, <1>6 DEF Restart, ClockInv, threads
  <2> QED
    BY <1>0, <2>1 DEF EndersInv
<1>7. ASSUME NEW n \in Ticks, EndThread(n) PROVE EndersInv'
  <2>1. saved' = saved /\ pc' = pc /\ failures' = failures
    BY <1>7, EndFrame DEF clock
  <2>2. \A m \in Ticks : ender'[m] = "none" <=> ender[m] = "none"
    BY <1>7, EndMoves DEF Ending
  <2> QED
    BY <2>1, <2>2 DEF EndersInv
<1>8. CASE UNCHANGED <<clock, ender, failures>>
  BY <1>8 DEF EndersInv, clock
<1> QED
  BY <1>1, <1>2, <1>3, <1>4, <1>5, <1>6, <1>7, <1>8, StepCases, StartFrame, WorkersFrame
     DEF Timer, vars, threads

(* ... and each when the one before has ended.                             *)
LEMMA SerialStep ==
  ASSUME TypeOK, ClockInv, EndersInv, SerialInv, [Next]_vars
  PROVE  SerialInv'
<1>0. saved \in Nat /\ \A n \in Ticks : n \in Nat /\ n >= 1
  BY PipelineAssumption DEF TypeOK, Ticks
<1>1. CASE EndTick
  <2> SUFFICES ASSUME trouble # "overlap", NEW n \in Ticks, ender'[n] \in Ending, NEW m \in Ticks
               PROVE  /\ m > n => ender'[m] = "none"
                      /\ m < n => ender'[m] \in {"done", "dead"}
    BY <1>1 DEF EndTick, SerialInv
  <2>1. /\ Quiet
        /\ \A j \in Ticks : ender'[j] = IF j = saved THEN "revoke" ELSE ender[j]
    BY <1>1 DEF EndTick, TypeOK, ClockInv
  <2>2. n = saved
    BY <2>1 DEF Quiet, Idle, Ending
  <2>3. m > n => ender'[m] = "none"
    BY <1>0, <2>1, <2>2 DEF EndersInv
  <2>4. m < n => ender'[m] \in {"done", "dead"}
    <3>1. m < n => ender[m] # "none" /\ ender'[m] = ender[m]
      BY <1>0, <2>1, <2>2 DEF EndersInv
    <3> QED
      BY <2>1, <3>1 DEF Quiet, Idle
  <2> QED
    BY <2>3, <2>4
<1>2. CASE Crash
  BY <1>2, CrashKills DEF SerialInv
<1>3. ASSUME NEW n \in Ticks, EndThread(n) PROVE SerialInv'
  <2>1. trouble' = trouble
    BY <1>3, EndFrame
  <2> SUFFICES ASSUME trouble # "overlap", NEW i \in Ticks, ender'[i] \in Ending, NEW m \in Ticks
               PROVE  /\ m > i => ender'[m] = "none"
                      /\ m < i => ender'[m] \in {"done", "dead"}
    BY <2>1 DEF SerialInv
  <2>2. i = n
    <3>1. ender[n] \in Ending /\ (i # n => ender'[i] = ender[i])
      BY <1>3, EndMoves
    <3>2. i # n => ender[i] \notin Ending
      BY <1>0, <3>1 DEF SerialInv, Ending
    <3> QED
      BY <3>1, <3>2
  <2> QED
    BY <1>0, <1>3, <2>2, EndMoves DEF SerialInv
<1>4. CASE UNCHANGED <<ender, trouble>>
  BY <1>4 DEF SerialInv
<1> QED
  BY <1>1, <1>2, <1>3, <1>4, StepCases, StartFrame, WorkersFrame
     DEF Timer, BeginTick, SaveClock, EndGame, Exit, Restart, Abort, vars, threads

-----------------------------------------------------------------------------
(* Points and rankings.                                                    *)

(* Points are written by calculate_scoring_for_tick alone.                 *)
LEMMA PointsFrame ==
  ASSUME [Next]_vars
  PROVE  \/ points' = points
         \/ \E n \in Ticks : calculate_scoring_for_tick(n)
BY StepCases, TimerFrame, StartFrame, WorkersFrame
   DEF EndThread, revoke_checker_scripts, collect_checker_results, NothingToCollect,
       calculate_ranking_per_tick, create_scoreboard, vars, scores

(* Rankings are written by calculate_ranking_per_tick and with the         *)
(* scoreboard, always from the points.                                     *)
LEMMA RankFrame ==
  ASSUME TypeOK, [Next]_vars, NEW j \in Ticks
  PROVE  \/ rank'[j] = rank[j]
         \/ rank'[j] = points[j] /\ points' = points /\ rank[j] = <<>>
         \/ rank'[j] = points[j] /\ calculate_ranking_per_tick(j)
<1>1. CASE UNCHANGED rank
  BY <1>1
<1>2. ASSUME NEW n \in Ticks, calculate_ranking_per_tick(n)
      PROVE  rank'[j] = IF j = n THEN points[j] ELSE rank[j]
  BY <1>2 DEF calculate_ranking_per_tick, TypeOK
<1>3. ASSUME NEW n \in Ticks, create_scoreboard(n)
      PROVE  points' = points /\ (rank'[j] = rank[j] \/ (rank'[j] = points[j] /\ rank[j] = <<>>))
  BY <1>3 DEF create_scoreboard
<1> QED
  BY <1>1, <1>2, <1>3, StepCases, TimerFrame, StartFrame, WorkersFrame
     DEF EndThread, revoke_checker_scripts, collect_checker_results, NothingToCollect,
         calculate_scoring_for_tick, vars, scores

(* How the end threads may move in a step.                                 *)
LEMMA EnderFrame ==
  ASSUME TypeOK, ClockInv, [Next]_vars, NEW j \in Ticks
  PROVE  \/ ender'[j] = ender[j]
         \/ EndTick /\ ender'[j] = "revoke" /\ j = saved
         \/ Crash /\ ender[j] \in Ending /\ ender'[j] = "dead"
         \/ EndThread(j)
<1>1. CASE EndTick
  BY <1>1 DEF EndTick, TypeOK, ClockInv
<1>2. CASE Crash
  BY <1>2, CrashKills
<1>3. ASSUME NEW n \in Ticks, EndThread(n) PROVE ender'[j] = ender[j] \/ EndThread(j)
  BY <1>3, EndMoves
<1>4. CASE UNCHANGED ender
  BY <1>4
<1> QED
  BY <1>1, <1>2, <1>3, <1>4, StepCases, StartFrame, WorkersFrame
     DEF Timer, BeginTick, SaveClock, EndGame, Exit, Restart, Abort, vars, threads

(* What one step of the end thread of tick n makes of it.                  *)
LEMMA EndSteps ==
  ASSUME TypeOK, NEW n \in Ticks, EndThread(n)
  PROVE  \/ ender[n] = "revoke" /\ ender'[n] = "collect" /\ revoke_checker_scripts(n)
         \/ ender[n] = "collect" /\ ender'[n] = "score" /\ NothingToCollect(n)
         \/ ender[n] = "collect" /\ ender'[n] \in {"score", "dead"} /\ collect_checker_results(n)
         \/ ender[n] = "score" /\ ender'[n] = "rank" /\ calculate_scoring_for_tick(n)
         \/ ender[n] = "rank" /\ ender'[n] = "publish" /\ calculate_ranking_per_tick(n)
         \/ ender[n] = "publish" /\ ender'[n] = "done" /\ create_scoreboard(n)
BY SMTT(60) DEF EndThread, revoke_checker_scripts, collect_checker_results, NothingToCollect,
       calculate_scoring_for_tick, calculate_ranking_per_tick, create_scoreboard, GoOn, TypeOK

(* Points are added tick by tick and never removed.                        *)
LEMMA PointsStep ==
  ASSUME TypeOK, ClockInv, EndersInv, RowsInv, PointsInv, [Next]_vars
  PROVE  PointsInv'
<1>0. saved \in Nat /\ \A n \in Ticks : n \in Nat /\ n >= 1
  BY PipelineAssumption DEF TypeOK, Ticks
<1>1. ASSUME NEW n \in Ticks, calculate_scoring_for_tick(n) PROVE PointsInv'
  <2> DEFINE k == LastScored(n)
  <2>1. k \in 0..(n - 1) /\ (k = 0 \/ points[k] # <<>>) /\ (\A j \in (k + 1)..(n - 1) : points[j] = <<>>)
    BY LastScoredFacts
  <2>2. /\ ender[n] = "score" /\ ender'[n] = "rank" /\ rank' = rank
        /\ \A j \in Ticks : j # n => ender'[j] = ender[j]
    BY <1>1 DEF calculate_scoring_for_tick, GoOn, TypeOK
  <2>3. \A j \in Ticks :
          /\ j \in (k + 1)..n => Len(points'[j]) = j /\ points'[j] # <<>>
          /\ j \notin (k + 1)..n => points'[j] = points[j]
    BY <1>1, ScoredFacts DEF calculate_scoring_for_tick
  <2> HIDE DEF k
  <2>4. \A j \in Ticks : j \in (k + 1)..n => ender'[j] # "none"
    BY <1>0, <2>1, <2>2 DEF EndersInv
  <2>5. \A j \in Ticks : j <= n => points'[j] # <<>>
    <3>1. \A j \in Ticks : j <= k => points[j] # <<>>
      <4>1. CASE k = 0
        BY <1>0, <4>1
      <4>2. CASE k # 0
        <5>1. k \in Ticks /\ points[k] # <<>>
          BY <1>0, <2>1, <4>2, PipelineAssumption DEF Ticks
        <5> QED
          BY <1>0, <2>1, <5>1 DEF PointsInv
      <4> QED
        BY <4>1, <4>2
    <3> QED
      BY <1>0, <2>1, <2>3, <3>1
  <2>6. \A j \in Ticks : ender'[j] = "none" => points'[j] = <<>>
    <3>1. \A j \in Ticks : ender'[j] = "none" => j \notin (k + 1)..n /\ ender[j] = "none"
      BY <2>2, <2>4
    <3> QED
      BY <2>3, <3>1 DEF PointsInv
  <2>7. \A j \in Ticks : points'[j] # <<>> => Len(points'[j]) = j
    BY <2>3 DEF PointsInv
  <2>8. \A j \in Ticks : points'[j] # <<>> => \A m \in Ticks : m < j => points'[m] # <<>>
    <3> SUFFICES ASSUME NEW j \in Ticks, points'[j] # <<>>, NEW m \in Ticks, m < j
                 PROVE  points'[m] # <<>>
      OBVIOUS
    <3>1. CASE m <= n
      BY <2>5, <3>1
    <3>2. CASE m > n
      <4>1. points'[j] = points[j] /\ points'[m] = points[m]
        BY <1>0, <2>1, <2>3, <3>2
      <4> QED
        BY <4>1 DEF PointsInv
    <3> QED
      BY <1>0, <3>1, <3>2
  <2>9. \A j \in Ticks : ender'[j] \in {"rank", "publish", "done"} => points'[j] # <<>>
    <3>1. points'[n] # <<>>
      BY <1>0, <2>5
    <3>2. \A j \in Ticks : points[j] # <<>> => points'[j] # <<>>
      BY <2>3
    <3> QED
      BY <2>2, <3>1, <3>2 DEF PointsInv
  <2>10. \A j \in Ticks : points'[j] = <<>> => rank'[j] = <<>>
    BY <2>2, <2>3 DEF PointsInv
  <2> QED
    BY <2>6, <2>7, <2>8, <2>9, <2>10 DEF PointsInv
<1>2. CASE UNCHANGED points
  <2>1. \A j \in Ticks : points[j] = <<>> => rank'[j] = <<>>
    BY RankFrame DEF PointsInv
  <2>2. \A j \in Ticks : /\ ender'[j] = "none" => ender[j] = "none"
                         /\ ender'[j] \in {"rank", "publish", "done"} => points[j] # <<>>
    <3> SUFFICES ASSUME NEW j \in Ticks
                 PROVE  /\ ender'[j] = "none" => ender[j] = "none"
                        /\ ender'[j] \in {"rank", "publish", "done"} => points[j] # <<>>
      OBVIOUS
    <3>1. CASE EndThread(j)
      <4>1. ender[j] = "score" => points'[j] # <<>>
        <5>1. ASSUME calculate_scoring_for_tick(j) PROVE points'[j] # <<>>
          <6>1. j \in (LastScored(j) + 1)..j
            BY <1>0, LastScoredFacts
          <6> QED
            BY <5>1, <6>1, ScoredFacts DEF calculate_scoring_for_tick
        <5> QED
          BY <3>1, <5>1, EndSteps
      <4> QED
        BY <1>2, <3>1, <4>1, EndSteps DEF PointsInv
    <3>2. CASE ~EndThread(j)
      BY <3>2, EnderFrame DEF PointsInv
    <3> QED
      BY <3>1, <3>2
  <2> QED
    BY <1>2, <2>1, <2>2 DEF PointsInv
<1> QED
  BY <1>1, <1>2, PointsFrame

(* The points of a tick continue those of the tick before.                 *)
LEMMA ChainedStep ==
  ASSUME TypeOK, RowsInv, EndersInv, SerialInv, PointsInv, Chained, [Next]_vars
  PROVE  Chained'
<1>0. \A n \in Ticks : n \in Nat /\ n >= 1
  BY PipelineAssumption DEF Ticks
<1>1. trouble' = trouble
  BY StepCases, TimerFrame, StartFrame, WorkersFrame, EndFrame DEF vars
<1>2. ASSUME NEW n \in Ticks, calculate_scoring_for_tick(n) PROVE Chained'
  <2> SUFFICES ASSUME trouble # "overlap", NEW j \in Ticks \ {1}, points'[j] # <<>>
               PROVE  SubSeq(points'[j], 1, j - 1) = points'[j - 1]
    BY <1>1 DEF Chained
  <2> DEFINE k == LastScored(n)
  <2>1. k \in 0..(n - 1) /\ (k = 0 \/ points[k] # <<>>)
    BY LastScoredFacts
  <2>2. \A i \in Ticks :
          /\ i \in (k + 1)..n => points'[i] = Sum(k, i)
          /\ i \notin (k + 1)..n => points'[i] = points[i]
    BY <1>2, ScoredFacts DEF calculate_scoring_for_tick
  <2> HIDE DEF k
  <2>3. j \in Nat /\ j > 1 /\ j - 1 \in Ticks /\ j \in Ticks
    BY <1>0, PipelineAssumption DEF Ticks
  <2>4. j <= n
    <3>1. j > n => ender[j] = "none"
      BY <1>2 DEF calculate_scoring_for_tick, SerialInv, Ending
    <3>2. j > n => points'[j] = points[j]
      BY <1>0, <2>1, <2>2
    <3> QED
      BY <1>0, <2>3, <3>1, <3>2 DEF PointsInv
  <2>5. CASE j <= k
    <3>1. points'[j] = points[j] /\ points'[j - 1] = points[j - 1]
      BY <1>0, <2>1, <2>2, <2>3, <2>5
    <3> QED
      BY <3>1 DEF Chained
  <2>6. CASE j > k
    <3>1. points'[j] = Sum(k, j)
      BY <1>0, <2>1, <2>2, <2>3, <2>4, <2>6
    <3>2. SubSeq(Sum(k, j), 1, j - 1) = [i \in 1..(j - 1) |-> Sum(k, j)[i]]
      BY <2>3 DEF Sum
    <3>3. [i \in 1..(j - 1) |-> Sum(k, j)[i]] = Sum(k, j - 1)
      BY <2>3 DEF Sum
    <3>4. points'[j - 1] = Sum(k, j - 1)
      <4>1. CASE j - 1 > k
        BY <1>0, <2>1, <2>2, <2>3, <2>4, <4>1
      <4>2. CASE j - 1 = k
        <5>1. k \in Ticks /\ points[k] # <<>> /\ points'[j - 1] = points[k]
          BY <1>0, <2>1, <2>2, <2>3, <4>2
        <5>2. Len(points[k]) = k /\ points[k] \in Seq(Result)
          BY <5>1 DEF PointsInv, TypeOK
        <5>3. points[k] = [i \in 1..k |-> points[k][i]]
          BY <5>1, <5>2
        <5>4. Sum(k, k) = [i \in 1..k |-> points[k][i]]
          BY <1>0, <5>1 DEF Sum
        <5> QED
          BY <4>2, <5>1, <5>3, <5>4
      <4> QED
        BY <1>0, <2>1, <2>3, <2>6, <4>1, <4>2
    <3> QED
      BY <3>1, <3>2, <3>3, <3>4
  <2> QED
    BY <2>1, <2>3, <2>5, <2>6
<1>3. CASE UNCHANGED points
  BY <1>1, <1>3 DEF Chained
<1> QED
  BY <1>2, <1>3, PointsFrame

(* A ranking is computed again whenever its points are.                    *)
LEMMA RankStep ==
  ASSUME TypeOK, ClockInv, RowsInv, EndersInv, SerialInv, PointsInv, RankInv, [Next]_vars
  PROVE  RankInv'
<1>1. trouble' = trouble
  BY StepCases, TimerFrame, StartFrame, WorkersFrame, EndFrame DEF vars
<1> SUFFICES ASSUME trouble # "overlap", NEW n \in Ticks PROVE RankOK(n)'
  BY <1>1 DEF RankInv
<1>0. RankOK(n) /\ failures \in Nat /\ saved \in Nat /\ \A m \in Ticks : m \in Nat /\ m >= 1
  BY PipelineAssumption DEF RankInv, TypeOK, Ticks
<1>2. failures' \in Nat /\ failures' >= failures
  BY <1>0, StepCases, StartFrame, WorkersFrame, EndFrame
     DEF Timer, EndTick, BeginTick, SaveClock, EndGame, Exit, Restart, Crash, Abort, vars
<1>3. ASSUME NEW m \in Ticks, rank[m] # <<>> PROVE rank'[m] # <<>>
  BY <1>3, RankFrame DEF PointsInv, calculate_ranking_per_tick
<1>4. ASSUME NEW m \in Ticks, calculate_scoring_for_tick(m), points'[n] # points[n]
      PROVE  /\ rank' = rank
             /\ \/ n = m /\ ender[n] = "score" /\ ender'[n] = "rank"
                \/ points[n] = <<>> /\ rank[n] = <<>> /\ ender[n] \in {"done", "dead"} /\ ender'[n] = ender[n]
  <2> DEFINE k == LastScored(m)
  <2>1. k \in 0..(m - 1) /\ \A j \in (k + 1)..(m - 1) : points[j] = <<>>
    BY LastScoredFacts
  <2>2. n \notin (k + 1)..m => points'[n] = points[n]
    BY <1>4, ScoredFacts DEF calculate_scoring_for_tick
  <2> HIDE DEF k
  <2>3. n <= m /\ (n # m => points[n] = <<>>)
    BY <1>0, <1>4, <2>1, <2>2
  <2>4. n # m => ender[n] \in {"done", "dead"} /\ ender'[n] = ender[n]
    BY <1>0, <1>4, <2>3 DEF calculate_scoring_for_tick, GoOn, SerialInv, Ending, TypeOK
  <2>5. rank' = rank /\ ender[m] = "score" /\ ender'[m] = "rank"
    BY <1>4 DEF calculate_scoring_for_tick, GoOn, TypeOK
  <2> QED
    BY <2>3, <2>4, <2>5 DEF PointsInv
<1>5. ender'[n] \in {"publish", "done"} => rank'[n] # <<>>
  <2>1. CASE EndThread(n)
    <3>1. ASSUME calculate_ranking_per_tick(n) PROVE rank'[n] # <<>>
      BY <3>1 DEF calculate_ranking_per_tick, PointsInv, TypeOK
    <3> QED
      BY <1>0, <1>3, <2>1, <3>1, EndSteps DEF RankOK
  <2>2. CASE ~EndThread(n)
    BY <1>0, <1>3, <2>2, EnderFrame DEF RankOK
  <2> QED
    BY <2>1, <2>2
<1>6. ASSUME ender'[n] = "done", NEW m \in Ticks, m = n - 1 PROVE rank'[m] # <<>>
  <2>1. CASE EndThread(n)
    <3>1. create_scoreboard(n) /\ ender[n] = "publish"
      BY <1>6, <2>1, EndSteps
    <3>2. points[m] # <<>> /\ m \in Fetched(n)
      BY <1>0, <1>6, <3>1 DEF PointsInv, Fetched
    <3> QED
      BY <3>1, <3>2 DEF create_scoreboard
  <2>2. CASE ~EndThread(n)
    BY <1>0, <1>3, <1>6, <2>2, EnderFrame DEF RankOK
  <2> QED
    BY <2>1, <2>2
<1>7. ASSUME ender'[n] \in {"revoke", "collect", "score"}, points'[n] # <<>> PROVE failures' >= 1
  <2>1. points[n] # <<>>
    BY <1>4, <1>7, PointsFrame
  <2>2. CASE EndTick
    <3>1. pc = "run" /\ ender'[n] = (IF n = saved THEN "revoke" ELSE ender[n]) /\ failures' = failures
      BY <2>2 DEF EndTick, TypeOK, ClockInv
    <3>2. CASE n = saved
      <4>1. ender[n] # "none"
        BY <2>1 DEF PointsInv
      <4> QED
        BY <1>0, <3>1, <3>2, <4>1 DEF EndersInv
    <3>3. CASE n # saved
      BY <1>0, <1>7, <2>1, <3>1, <3>3 DEF RankOK
    <3> QED
      BY <3>2, <3>3
  <2>3. CASE ~EndTick
    <3>1. ender[n] \in {"revoke", "collect", "score"}
      BY <1>7, <2>3, EnderFrame, EndSteps
    <3> QED
      BY <1>0, <1>2, <2>1, <3>1 DEF RankOK
  <2> QED
    BY <2>2, <2>3
<1>8. ASSUME rank'[n] # <<>>, rank'[n] # points'[n]
      PROVE  (ender'[n] = "rank" /\ failures' >= 1) \/ failures' >= 2
  <2>1. CASE points'[n] # points[n]
    <3>1. n \in Ticks /\ rank[n] # <<>> /\ ender[n] = "score" /\ ender'[n] = "rank"
      BY <1>4, <1>8, <2>1, PointsFrame
    <3>2. points[n] # <<>>
      BY <3>1 DEF PointsInv
    <3> QED
      BY <1>0, <1>2, <3>1, <3>2 DEF RankOK
  <2>2. CASE points'[n] = points[n]
    <3>1. rank'[n] = rank[n] /\ ~calculate_ranking_per_tick(n)
      <4>1. ASSUME calculate_ranking_per_tick(n) PROVE rank'[n] = points[n]
        BY <4>1 DEF calculate_ranking_per_tick, TypeOK
      <4> QED
        BY <1>8, <2>2, <4>1, RankFrame
    <3>2. CASE failures >= 2
      BY <1>0, <1>2, <3>2
    <3>3. CASE ender[n] = "rank" /\ failures >= 1
      <4>1. ~EndThread(n)
        BY <3>1, <3>3, EndSteps
      <4>2. ~(EndTick /\ ender'[n] = "revoke" /\ n = saved)
        BY <3>3 DEF EndTick, Quiet, Idle
      <4>3. Crash => failures' = failures + 1
        BY DEF Crash
      <4> QED
        BY <1>0, <1>2, <3>3, <4>1, <4>2, <4>3, EnderFrame
    <3> QED
      BY <1>0, <1>8, <2>2, <3>1, <3>2, <3>3 DEF RankOK, Stale
  <2> QED
    BY <2>1, <2>2
<1> QED
  BY <1>5, <1>6, <1>7, <1>8 DEF RankOK, Stale

-----------------------------------------------------------------------------
(* Games in which the master timer does not fail.                          *)

(* A failure is not forgotten, and without one the master never stops.     *)
LEMMA NoFailure ==
  ASSUME TypeOK, ClockInv, [Next]_vars
  PROVE  /\ failures' = 0 => /\ failures = 0 /\ ~Crash /\ ~Abort /\ ~Exit /\ ~Restart
         /\ trouble' = trouble
<1>1. failures \in Nat
  BY PipelineAssumption DEF TypeOK
<1>2. failures' = 0 => failures = 0
  BY <1>1, StepCases, StartFrame, WorkersFrame, EndFrame
     DEF Timer, EndTick, BeginTick, SaveClock, EndGame, Exit, Restart, Crash, Abort, vars
<1>3. failures' = 0 => ~Crash /\ ~Abort /\ ~Exit /\ ~Restart
  BY <1>1, <1>2 DEF Crash, Abort, Exit, Restart, ClockInv
<1>4. trouble' = trouble
  BY StepCases, TimerFrame, StartFrame, WorkersFrame, EndFrame DEF vars
<1> QED
  BY <1>2, <1>3, <1>4

(* Without a failure every task belongs to the one group of its tick.      *)
LEMMA OneGroup ==
  ASSUME TypeOK, GroupsInv, TasksInv, failures = 0, NEW x \in Tasks, task[x] # "absent"
  PROVE  groups[x[1]] = 1 /\ x = <<x[1], 1, x[3]>> /\ RowOf(x) = <<x[1], x[3]>>
<1>1. x[1] \in Ticks /\ x[2] \in Nat /\ x[2] >= 1 /\ x = <<x[1], x[2], x[3]>>
  BY TaskTuple, PipelineAssumption DEF Groups
<1>2. groups[x[1]] \in Nat /\ groups[x[1]] <= 1
  <2>1. GroupOK(x[1]) /\ groups[x[1]] \in Nat
    BY <1>1, PipelineAssumption DEF TypeOK, GroupsInv
  <2> QED
    BY <2>1 DEF GroupOK, Dispatches
<1>3. ~(x[2] > groups[x[1]])
  BY DEF TasksInv
<1> QED
  BY <1>1, <1>2, <1>3 DEF RowOf

(* Without a failure a tick is begun and dispatched once.                  *)
LEMMA StartersStep ==
  ASSUME TypeOK, ClockInv, StartersInv, [Next]_vars
  PROVE  StartersInv'
<1> SUFFICES ASSUME failures' = 0, NEW n \in Ticks PROVE StarterOK(n)'
  BY DEF StartersInv
<1>0. /\ failures = 0 /\ StarterOK(n) /\ n \in Nat /\ tick \in Nat
      /\ ~Crash /\ ~Abort /\ ~Exit /\ ~Restart
  <2>1. failures = 0 /\ ~Crash /\ ~Abort /\ ~Exit /\ ~Restart
    BY NoFailure
  <2> QED
    BY <2>1, PipelineAssumption DEF StartersInv, TypeOK, Ticks
<1>1. CASE BeginTick
  <2>1. /\ tick' = tick + 1 /\ groups' = groups /\ ref' = ref
        /\ starter'[n] = IF n = tick + 1 THEN "dispatch" ELSE starter[n]
    BY <1>1 DEF BeginTick, TypeOK, celery
  <2> QED
    BY <1>0, <2>1 DEF StarterOK
<1>2. ASSUME NEW m \in Ticks, Dispatch(m) PROVE StarterOK(n)'
  <2>1. /\ tick' = tick /\ ref' = ref /\ starter[m] = "dispatch"
        /\ groups'[n] = IF n = m THEN groups[n] + 1 ELSE groups[n]
        /\ starter'[n] = IF n = m THEN "save" ELSE starter[n]
    BY <1>2 DEF Dispatch, TypeOK, clock
  <2> QED
    BY <1>0, <2>1 DEF StarterOK
<1>3. ASSUME NEW m \in Ticks, SaveReference(m) PROVE StarterOK(n)'
  <2>1. /\ tick' = tick /\ groups' = groups /\ starter[m] = "save"
        /\ ref'[n] = IF n = m THEN groups[n] ELSE ref[n]
        /\ starter'[n] = IF n = m THEN "done" ELSE starter[n]
    BY <1>3 DEF SaveReference, TypeOK, clock
  <2> QED
    BY <1>0, <2>1 DEF StarterOK
<1>4. CASE UNCHANGED <<tick, starter, groups, ref>>
  BY <1>0, <1>4 DEF StarterOK
<1> QED
  BY <1>0, <1>1, <1>2, <1>3, <1>4, StepCases, WorkersFrame, EndFrame
     DEF Timer, StartThread, EndTick, SaveClock, EndGame, vars, clock, threads, celery

(* What a worker does to another combination's task and row: nothing.      *)
LEMMA OthersKept ==
  ASSUME TypeOK, GroupsInv, TasksInv, failures = 0, NEW x \in Tasks, Workers(x),
         NEW n \in Ticks, NEW c \in Combinations, x # <<n, 1, c>>
  PROVE  /\ task'[<<n, 1, c>>] = task[<<n, 1, c>>]
         /\ row'[<<n, c>>] = row[<<n, c>>] /\ reported'[<<n, c>>] = reported[<<n, c>>]
<1>1. task[x] # "absent"
  BY DEF Workers, StartTask, DiscardTask, ReportSuccess, save_checker_result, FailTask
<1>2. RowOf(x) # <<n, c>>
  BY <1>1, OneGroup
<1>3. <<n, 1, c>> \in Tasks
  BY TaskTuple, PipelineAssumption DEF Groups
<1> QED
  BY <1>2, <1>3 DEF Workers, StartTask, DiscardTask, ReportSuccess, save_checker_result, FailTask,
     SetTask, TypeOK, history

(* What a worker does to its own task and row.                             *)
LEMMA OwnSteps ==
  ASSUME TypeOK, NEW n \in Ticks, NEW c \in Combinations, Workers(<<n, 1, c>>)
  PROVE  \/ /\ task[<<n, 1, c>>] = "PENDING" /\ <<n, 1>> \notin revoked
            /\ task'[<<n, 1, c>>] = "STARTED" /\ row' = row /\ reported' = reported
         \/ /\ task[<<n, 1, c>>] = "PENDING"
            /\ task'[<<n, 1, c>>] = "REVOKED" /\ row' = row /\ reported' = reported
         \/ /\ task'[<<n, 1, c>>] \in {"SUCCESS", "killed", "lost"}
            /\ row' = row /\ reported' = reported
         \/ /\ task[<<n, 1, c>>] = "STARTED" /\ task'[<<n, 1, c>>] = "saved"
            /\ row'[<<n, c>>].status \in Outcomes
            /\ row'[<<n, c>>].late = row[<<n, c>>].late
<1>1. /\ <<n, 1, c>> \in Tasks /\ <<n, c>> \in Ticks \X Combinations
      /\ RowOf(<<n, 1, c>>) = <<n, c>>
  BY TaskTuple, PipelineAssumption DEF Groups
<1>2. ASSUME NEW status \in Outcomes, save_checker_result(<<n, 1, c>>, status)
      PROVE  /\ task[<<n, 1, c>>] = "STARTED" /\ task'[<<n, 1, c>>] = "saved"
             /\ row'[<<n, c>>].status \in Outcomes
             /\ row'[<<n, c>>].late = row[<<n, c>>].late
  BY <1>1, <1>2 DEF save_checker_result, SetTask, TypeOK
<1>3. CASE StartTask(<<n, 1, c>>)
  BY <1>1, <1>3 DEF StartTask, SetTask, TypeOK, history
<1>4. CASE DiscardTask(<<n, 1, c>>)
  BY <1>1, <1>4 DEF DiscardTask, SetTask, TypeOK, history
<1>5. CASE \/ ReportSuccess(<<n, 1, c>>)
           \/ \E state \in {"killed", "lost"} : FailTask(<<n, 1, c>>, state)
  BY <1>1, <1>5 DEF ReportSuccess, FailTask, SetTask, TypeOK, history
<1> QED
  BY <1>2, <1>3, <1>4, <1>5 DEF Workers

(* Without a failure a result that says the task was revoked is right.     *)
LEMMA RunStep ==
  ASSUME TypeOK, ClockInv, GroupsInv, TasksInv, EndersInv, StartersInv, RunInv, [Next]_vars
  PROVE  RunInv'
<1> SUFFICES ASSUME failures' = 0, NEW n \in Ticks, NEW c \in Combinations PROVE NotRun(n, c)'
  BY DEF RunInv
<1> DEFINE x == <<n, 1, c>>  y == <<n, c>>
<1>0. /\ failures = 0 /\ NotRun(n, c) /\ StarterOK(n) /\ n \in Nat /\ saved \in Nat
      /\ ~Crash /\ ~Abort /\ ~Exit /\ ~Restart
  <2>1. failures = 0 /\ ~Crash /\ ~Abort /\ ~Exit /\ ~Restart
    BY NoFailure
  <2>2. n \in Nat /\ saved \in Nat
    BY PipelineAssumption DEF TypeOK, Ticks
  <2> QED
    BY <2>1, <2>2 DEF RunInv, StartersInv
<1>00. x \in Tasks /\ y \in Ticks \X Combinations
  BY TaskTuple, PipelineAssumption DEF Groups
<1>1. CASE EndTick
  <2>1. /\ pc = "run" /\ UNCHANGED <<task, groups, row, reported>>
        /\ ender'[n] = IF n = saved THEN "revoke" ELSE ender[n]
    BY <1>1 DEF EndTick, TypeOK, ClockInv, celery, history
  <2>2. n = saved => ender[n] = "none"
    BY <1>0, <2>1 DEF EndersInv
  <2> QED
    BY <1>0, <2>1, <2>2 DEF NotRun, Uncollected
<1>2. ASSUME NEW m \in Ticks, Dispatch(m) PROVE NotRun(n, c)'
  <2>1. /\ UNCHANGED <<ender, row, reported>> /\ starter[m] = "dispatch"
        /\ groups'[n] = IF n = m THEN groups[n] + 1 ELSE groups[n]
        /\ task'[x] = IF n = m /\ 1 = groups[m] + 1 THEN "PENDING" ELSE task[x]
    BY <1>00, <1>2 DEF Dispatch, TypeOK, history
  <2>2. n = m => groups[n] = 0 /\ reported[y] = {}
    BY <1>0, <1>00, <2>1 DEF StarterOK, TasksInv
  <2> QED
    BY <1>0, <2>1, <2>2 DEF NotRun
<1>3. ASSUME NEW z \in Tasks, Workers(z) PROVE NotRun(n, c)'
  <2>1. UNCHANGED <<ender, groups>>
    BY <1>3, WorkersFrame DEF threads
  <2>2. CASE z = x
    <3>1. Outcomes \cap {"REVOKED"} = {}
      BY PipelineAssumption
    <3> QED
      BY <1>0, <1>3, <2>1, <2>2, <3>1, OwnSteps DEF NotRun
  <2>3. CASE z # x
    BY <1>0, <1>3, <2>1, <2>3, OthersKept DEF NotRun
  <2> QED
    BY <2>2, <2>3
<1>4. ASSUME NEW m \in Ticks, EndThread(m) PROVE NotRun(n, c)'
  <2>1. UNCHANGED <<groups, reported>>
    BY <1>4, EndFrame
  <2>2. ender'[n] \in Uncollected => ender[n] \in Uncollected
    BY <1>4, EndMoves, EndSteps DEF Uncollected, Ending
  <2>3. ASSUME collect_checker_results(m), n = m PROVE NotRun(n, c)'
    <3>1. ender[n] = "collect" /\ ref[n] # 0 /\ ender'[n] \notin Uncollected
      BY <2>3 DEF collect_checker_results, GoOn, TypeOK, Uncollected
    <3>2. ref[n] = 1 /\ groups[n] = 1
      BY <1>0, <3>1, PipelineAssumption DEF TypeOK, GroupsInv, GroupOK, Dispatches
    <3>3. task'[x] = task[x] \/ task'[x] = "absent"
      BY <1>00, <2>3 DEF collect_checker_results
    <3>4. /\ task[x] \in TaskStates /\ row[y] \in Rows
          /\ row'[y] = handle_celery_result(task[x], row[y])
      BY <2>3, <3>1, <3>2, RowsCollectedFacts DEF collect_checker_results
    <3>5. task[x] # "absent"
      BY <1>0, <3>1, <3>2 DEF NotRun, Uncollected
    <3>6. row'[y].status = "REVOKED" => task[x] \in {"PENDING", "REVOKED"} \/ row[y].status = "REVOKED"
      BY <3>4, <3>5, CollectedRow DEF TaskStates
    <3> QED
      BY <1>0, <2>1, <3>1, <3>3, <3>6 DEF NotRun
  <2>4. CASE ~(collect_checker_results(m) /\ n = m)
    <3>1. task'[x] = task[x] /\ row'[y] = row[y]
      <4>1. ASSUME collect_checker_results(m), n # m PROVE task'[x] = task[x] /\ row'[y] = row[y]
        BY <1>00, <4>1, RowsCollectedFacts DEF collect_checker_results, Group
      <4> QED
        BY <1>4, <2>4, <4>1 DEF EndThread, revoke_checker_scripts, NothingToCollect,
           calculate_scoring_for_tick, calculate_ranking_per_tick, create_scoreboard, celery
    <3> QED
      BY <1>0, <2>1, <2>2, <3>1 DEF NotRun
  <2> QED
    BY <2>3, <2>4
<1>5. CASE UNCHANGED <<ender, groups, task, row, reported>>
  BY <1>0, <1>5 DEF NotRun
<1> QED
  BY <1>0, <1>1, <1>2, <1>3, <1>4, <1>5, StepCases
     DEF Timer, StartThread, SaveReference, BeginTick, SaveClock, EndGame, vars, threads, celery, history

(* If nothing goes wrong the end thread of a tick finds it dispatched, and *)
(* revokes and collects it before it is scored.                            *)
LEMMA OrderStep ==
  ASSUME TypeOK, ClockInv, StartersInv, OrderInv, [Next]_vars
  PROVE  OrderInv'
<1> SUFFICES ASSUME trouble' = "none", NEW n \in Ticks PROVE InOrder(n)'
  BY DEF OrderInv
<1>0. trouble = "none" /\ failures = 0 /\ failures' = 0
  <2>1. trouble = "none" /\ failures \in Nat
    BY NoFailure, PipelineAssumption DEF TypeOK
  <2>2. failures = 0
    BY <2>1 DEF ClockInv
  <2> QED
    BY <2>1, <2>2, StepCases, StartFrame, WorkersFrame, EndFrame
       DEF Timer, EndTick, BeginTick, SaveClock, EndGame, Exit, Restart, Crash, Abort, vars
<1>1. /\ InOrder(n) /\ StarterOK(n) /\ n \in Nat /\ tick \in Nat
      /\ ~Crash /\ ~Abort /\ ~Exit /\ ~Restart
  <2>1. ~Crash /\ ~Abort /\ ~Exit /\ ~Restart
    BY <1>0, NoFailure
  <2>2. n \in Nat /\ tick \in Nat
    BY PipelineAssumption DEF TypeOK, Ticks
  <2> QED
    BY <1>0, <2>1, <2>2 DEF OrderInv, StartersInv
<1>2. CASE EndTick
  <2>1. /\ Quiet /\ tick = saved /\ UNCHANGED <<starter, revoked, collected>>
        /\ ender'[n] = IF n = tick THEN "revoke" ELSE ender[n]
    BY <1>0, <1>2 DEF EndTick, ClockInv, TypeOK, celery, history
  <2>2. n = tick => starter[n] = "done"
    BY <1>1, <2>1 DEF StarterOK, Quiet, Idle
  <2> QED
    BY <1>1, <2>1, <2>2 DEF InOrder, Uncollected
<1>3. CASE BeginTick
  <2>1. /\ UNCHANGED <<ender, revoked, collected>>
        /\ starter'[n] = IF n = tick + 1 THEN "dispatch" ELSE starter[n]
    BY <1>3 DEF BeginTick, TypeOK, celery, history
  <2>2. n = tick + 1 => starter[n] = "none"
    BY <1>1 DEF StarterOK
  <2> QED
    BY <1>1, <2>1, <2>2 DEF InOrder
<1>4. ASSUME NEW m \in Ticks, StartThread(m) PROVE InOrder(n)'
  <2>1. /\ UNCHANGED <<ender, revoked, collected>>
        /\ starter'[n] # starter[n] => starter[n] # "done"
    BY <1>4 DEF StartThread, Dispatch, SaveReference, TypeOK, history
  <2> QED
    BY <1>1, <2>1 DEF InOrder
<1>5. ASSUME NEW m \in Ticks, EndThread(m) PROVE InOrder(n)'
  <2>1. starter' = starter /\ revoked \subseteq revoked' /\ collected \subseteq collected'
    BY <1>5 DEF EndThread, revoke_checker_scripts, collect_checker_results, NothingToCollect,
       calculate_scoring_for_tick, calculate_ranking_per_tick, create_scoreboard, celery, history
  <2>2. CASE n = m
    <3>1. ender[n] # "none" /\ starter[n] = "done" /\ ref[n] = 1
      BY <1>1, <1>5, <2>2, EndMoves DEF Ending, InOrder, StarterOK
    <3>2. ASSUME revoke_checker_scripts(n) PROVE <<n, 1>> \in revoked'
      BY <3>1, <3>2 DEF revoke_checker_scripts
    <3>3. ASSUME collect_checker_results(n) PROVE n \in collected'
      BY <3>3 DEF collect_checker_results
    <3>4. ~NothingToCollect(n)
      BY <3>1 DEF NothingToCollect
    <3> QED
      BY <1>1, <1>5, <2>1, <2>2, <3>1, <3>2, <3>3, <3>4, EndSteps DEF InOrder, Uncollected
  <2>3. CASE n # m
    BY <1>1, <1>5, <2>1, <2>3, EndMoves DEF InOrder
  <2> QED
    BY <2>2, <2>3
<1>6. CASE UNCHANGED <<threads, revoked, collected>>
  BY <1>1, <1>6 DEF InOrder, threads
<1> QED
  BY <1>1, <1>2, <1>3, <1>4, <1>5, <1>6, StepCases, WorkersFrame
     DEF Timer, SaveClock, EndGame, vars, celery, history

(* If nothing goes wrong points are those of a tick that was collected,    *)
(* and nothing but calculate_scoring_for_tick of this or a later tick      *)
(* changes them.                                                           *)
LEMMA ScoredWhenCollected ==
  ASSUME TypeOK, ClockInv, PointsInv, RankInv, trouble = "none", NEW n \in Ticks, points[n] # <<>>
  PROVE  ender[n] \notin Uncollected
<1>1. failures = 0
  BY PipelineAssumption DEF TypeOK, ClockInv
<1>2. RankOK(n)
  BY DEF RankInv
<1> QED
  BY <1>1, <1>2 DEF RankOK, PointsInv, Uncollected

(* If nothing goes wrong a result that was not scored is marked late.      *)
LEMMA LateStep ==
  ASSUME TypeOK, ClockInv, GroupsInv, TasksInv, RowsInv, RowsComplete, EndersInv, SerialInv,
         PointsInv, RankInv, StartersInv, RunInv, OrderInv, LateInv, [Next]_vars
  PROVE  LateInv'
<1> SUFFICES ASSUME trouble' = "none", NEW n \in Ticks, NEW c \in Combinations PROVE Late(n, c)'
  BY DEF LateInv
<1> DEFINE x == <<n, 1, c>>  y == <<n, c>>
<1>0. trouble = "none" /\ failures = 0 /\ ~Crash
  <2>1. trouble = "none" /\ failures \in Nat
    BY NoFailure, PipelineAssumption DEF TypeOK
  <2> QED
    BY <2>1 DEF ClockInv, Crash
<1>1. /\ Late(n, c) /\ InOrder(n) /\ StarterOK(n) /\ n \in Nat /\ saved \in Nat
      /\ x \in Tasks /\ y \in Ticks \X Combinations
  <2>1. x \in Tasks /\ y \in Ticks \X Combinations
    BY TaskTuple, PipelineAssumption DEF Groups
  <2>2. n \in Nat /\ saved \in Nat
    BY PipelineAssumption DEF TypeOK, Ticks
  <2> QED
    BY <1>0, <2>1, <2>2 DEF LateInv, OrderInv, StartersInv
<1>2. CASE EndTick
  <2>1. /\ pc = "run" /\ UNCHANGED <<task, row, points>>
        /\ ender'[n] = IF n = saved THEN "revoke" ELSE ender[n]
    BY <1>2 DEF EndTick, TypeOK, ClockInv, celery, scores
  <2>2. n = saved => ender[n] = "none"
    BY <1>0, <1>1, <2>1 DEF EndersInv
  <2> QED
    BY <1>1, <2>1, <2>2 DEF Late, Uncollected
<1>3. ASSUME NEW m \in Ticks, Dispatch(m) PROVE Late(n, c)'
  <2>1. /\ UNCHANGED <<ender, row, points>> /\ starter[m] = "dispatch"
        /\ task'[x] = IF n = m /\ 1 = groups[m] + 1 THEN "PENDING" ELSE task[x]
    BY <1>1, <1>3 DEF Dispatch, TypeOK, scores
  <2>2. n = m => ender[n] = "none" /\ task[x] = "absent"
    <3>1. n = m => ender[n] = "none" /\ groups[n] = 0
      BY <1>1, <2>1 DEF StarterOK, InOrder
    <3>2. x[1] = n /\ x[2] = 1
      OBVIOUS
    <3> QED
      BY <1>1, <3>1, <3>2 DEF TasksInv
  <2> QED
    BY <1>1, <2>1, <2>2 DEF Late, Uncollected
<1>4. ASSUME NEW z \in Tasks, Workers(z) PROVE Late(n, c)'
  <2>1. UNCHANGED <<ender, points>>
    BY <1>4, WorkersFrame DEF threads, scores
  <2>2. CASE z = x
    <3>1. ender[n] \notin Uncollected => <<n, 1>> \in revoked
      BY <1>1 DEF InOrder, Uncollected
    <3>2. points[n] # <<>> => ender[n] \notin Uncollected
      BY <1>0, ScoredWhenCollected
    <3> QED
      BY <1>1, <1>4, <2>1, <2>2, <3>1, <3>2, OwnSteps DEF Late
  <2>3. CASE z # x
    BY <1>0, <1>1, <1>4, <2>1, <2>3, OthersKept DEF Late
  <2> QED
    BY <2>2, <2>3
<1>5. ASSUME NEW m \in Ticks, collect_checker_results(m) PROVE Late(n, c)'
  <2>1. UNCHANGED points
    BY <1>5 DEF collect_checker_results, scores
  <2>2. CASE n = m
    <3>1. ender[n] = "collect" /\ ref[n] # 0 /\ ender'[n] \notin Uncollected
      BY <1>5, <2>2 DEF collect_checker_results, GoOn, TypeOK, Uncollected
    <3>2. points[n] = <<>>
      BY <1>0, <3>1, ScoredWhenCollected DEF Uncollected
    <3>3. ref[n] = 1
      BY <1>1, <3>1 DEF InOrder, StarterOK
    <3>4. /\ task[x] \in TaskStates /\ row[y] \in Rows
          /\ row'[y] = handle_celery_result(task[x], row[y])
      BY <1>5, <2>2, <3>1, <3>3, RowsCollectedFacts DEF collect_checker_results
    <3>5. task'[x] = "STARTED" => task[x] = "STARTED"
      BY <1>1, <1>5 DEF collect_checker_results
    <3>6. task[x] = "STARTED" => row[y] = NoRow
      BY <1>1, <3>1 DEF Late, Uncollected
    <3>7. task'[x] = "STARTED" => row'[y].late
      BY <3>4, <3>5, <3>6, CollectedRow
    <3> QED
      BY <2>1, <3>1, <3>2, <3>7 DEF Late
  <2>3. CASE n # m
    <3>1. task'[x] = task[x] /\ row'[y] = row[y] /\ ender'[n] = ender[n]
      BY <1>1, <1>5, <2>3, RowsCollectedFacts DEF collect_checker_results, Group, GoOn, TypeOK
    <3> QED
      BY <1>1, <2>1, <3>1 DEF Late
  <2> QED
    BY <2>2, <2>3
<1>6. ASSUME NEW m \in Ticks, calculate_scoring_for_tick(m) PROVE Late(n, c)'
  <2> DEFINE k == LastScored(m)
  <2>1. /\ UNCHANGED <<task, row>> /\ ender[m] = "score"
        /\ ender'[n] = IF n = m THEN "rank" ELSE ender[n]
    BY <1>6 DEF calculate_scoring_for_tick, GoOn, TypeOK, celery
  <2>2. m \in Nat /\ k \in 0..(m - 1)
    BY LastScoredFacts, PipelineAssumption DEF Ticks
  <2>3. /\ n \in (k + 1)..m => points'[n] = Sum(k, n)
        /\ n \notin (k + 1)..m => points'[n] = points[n]
    BY <1>6, ScoredFacts DEF calculate_scoring_for_tick
  <2> HIDE DEF k
  <2>4. CASE n \in (k + 1)..m
    <3>1. ender[n] \notin Uncollected
      BY <1>0, <1>1, <2>1, <2>2, <2>4 DEF SerialInv, Ending, Uncollected
    <3>2. row[y] # NoRow
      BY <1>1, <3>1 DEF InOrder, RowsComplete
    <3>3. Sum(k, n)[n] = Results(n)
      BY <1>1, <2>2, <2>4 DEF Sum
    <3>4. points'[n][n][c] = row[y].status
      BY <2>3, <2>4, <3>2, <3>3 DEF Results
    <3> QED
      BY <1>1, <2>1, <3>1, <3>4 DEF Late, Uncollected
  <2>5. CASE n \notin (k + 1)..m
    BY <1>1, <2>1, <2>3, <2>5 DEF Late, Uncollected
  <2> QED
    BY <2>4, <2>5
<1>7. ASSUME NEW m \in Ticks,
             revoke_checker_scripts(m) \/ calculate_ranking_per_tick(m) \/ create_scoreboard(m)
      PROVE  Late(n, c)'
  <2>1. UNCHANGED <<task, row, points>>
    BY <1>7 DEF revoke_checker_scripts, calculate_ranking_per_tick, create_scoreboard, celery, scores
  <2>2. ender'[n] \in Uncollected <=> ender[n] \in Uncollected
    BY <1>7 DEF revoke_checker_scripts, calculate_ranking_per_tick, create_scoreboard, GoOn,
       TypeOK, Uncollected
  <2> QED
    BY <1>1, <2>1, <2>2 DEF Late
<1>8. ASSUME NEW m \in Ticks PROVE ~NothingToCollect(m)
  <2>1. InOrder(m) /\ StarterOK(m)
    BY <1>0 DEF OrderInv, StartersInv
  <2> QED
    BY <2>1 DEF NothingToCollect, InOrder, StarterOK
<1>9. CASE UNCHANGED <<ender, task, row, points>>
  BY <1>1, <1>9 DEF Late
<1> QED
  BY <1>0, <1>2, <1>3, <1>4, <1>5, <1>6, <1>7, <1>8, <1>9, StepCases
     DEF Timer, BeginTick, SaveClock, EndGame, Exit, Restart, Abort, StartThread, SaveReference,
         EndThread, vars, threads, celery, scores

-----------------------------------------------------------------------------
(* The theorems.                                                           *)

(* A game starts with nothing dispatched and nothing in the tables.        *)
LEMMA PipelineInit ==
  ASSUME Init
  PROVE  PipelineInv
<1> USE PipelineAssumption DEF Init
<1>1. TypeOK
  <2>1. NoRow \in Rows /\ <<>> \in Seq(Result)
    BY DEF NoRow, Rows
  <2> QED
    BY <2>1 DEF TypeOK, Idle, TaskStates
<1>2. ClockInv /\ GroupsInv /\ EndersInv /\ SerialInv
  BY DEF ClockInv, GroupsInv, GroupOK, Dispatches, Horizon, EndersInv, SerialInv, Ticks, Ending
<1>3. TasksInv /\ RowsInv /\ RowsComplete
  BY TaskTuple DEF TasksInv, RowsInv, RowsComplete
<1>4. PointsInv /\ Chained /\ RankInv
  BY DEF PointsInv, Chained, RankInv, RankOK, Stale
<1>5. StartersInv
  BY DEF StartersInv, StarterOK, Ticks
<1>6. \A n \in Ticks, c \in Combinations :
        /\ task[<<n, 1, c>>] = "absent" /\ row[<<n, c>>] = NoRow
        /\ reported[<<n, c>>] = {} /\ points[n] = <<>>
  <2>1. 1 \in Groups
    BY DEF Groups
  <2>2. \A n \in Ticks, c \in Combinations : <<n, 1, c>> \in Tasks
    BY <2>1, TaskTuple
  <2> QED
    BY <2>2
<1>7. RunInv
  <2>1. \A n \in Ticks : groups[n] # 1
    OBVIOUS
  <2> QED
    BY <1>6, <2>1 DEF RunInv, NotRun, NoRow
<1>8. OrderInv /\ LateInv
  BY <1>6 DEF OrderInv, InOrder, LateInv, Late, Uncollected
<1> QED
  BY <1>1, <1>2, <1>3, <1>4, <1>5, <1>7, <1>8 DEF PipelineInv

(* PipelineInv is inductive.                                               *)
LEMMA PipelineStep ==
  ASSUME PipelineInv, [Next]_vars
  PROVE  PipelineInv'
<1> USE DEF PipelineInv
<1>1. TypeOK' /\ ClockInv' /\ GroupsInv' /\ TasksInv'
  BY TypeStep, ClockStep, GroupsStep, TasksStep
<1>2. RowsInv' /\ RowsComplete' /\ EndersInv' /\ SerialInv'
  BY RowsStep, EndersStep, SerialStep
<1>3. PointsInv' /\ Chained' /\ RankInv'
  BY PointsStep, ChainedStep, RankStep
<1>4. StartersInv' /\ RunInv' /\ OrderInv' /\ LateInv'
  BY StartersStep, RunStep, OrderStep, LateStep
<1> QED
  BY <1>1, <1>2, <1>3, <1>4

(* PipelineInv holds throughout the game.                                  *)
THEOREM PipelineCorrect == Spec => []PipelineInv
<1>1. Init => PipelineInv
  BY PipelineInit
<1>2. PipelineInv /\ [Next]_vars => PipelineInv'
  BY PipelineStep
<1> QED
  BY <1>1, <1>2, PTL DEF Spec

(* A collected tick has a result for every combination, whatever fails:    *)
(* _collect adds the rows that tasks did not save.                         *)
THEOREM RowsCompleteCorrect == Spec => []RowsComplete
<1>1. PipelineInv => RowsComplete
  BY DEF PipelineInv
<1> QED
  BY <1>1, PipelineCorrect, PTL

(* The points of a tick continue those of the tick before, whichever end   *)
(* threads died or ran again (_calculate_scoring_for_tick).                *)
THEOREM ChainedCorrect == Spec => []Chained
<1>1. PipelineInv => Chained
  BY DEF PipelineInv
<1> QED
  BY <1>1, PipelineCorrect, PTL

(* A published tick and the one before are ranked by the points in the     *)
(* table, if the master timer failed at most once                          *)
(* (calculate_ranking_per_tick, get_ranking_for_tick).                     *)
THEOREM RankedAsScoredCorrect == Spec => []RankedAsScored
<1>1. PipelineInv => RankedAsScored
  <2> SUFFICES ASSUME PipelineInv, trouble # "overlap", failures <= 1, NEW n \in Ticks, ender[n] = "done",
                      NEW j \in {n, n - 1} \cap Ticks
               PROVE  points[j] # <<>> /\ rank[j] = points[j]
    BY DEF RankedAsScored
  <2> USE DEF PipelineInv
  <2>0. j \in Ticks /\ j \in Nat /\ n \in Nat /\ failures \in Nat /\ (j = n \/ j = n - 1)
    BY PipelineAssumption DEF Ticks, TypeOK
  <2>1. RankOK(n) /\ RankOK(j)
    BY <2>0 DEF RankInv
  <2>2. points[j] # <<>>
    BY <2>0 DEF PointsInv
  <2>3. rank[j] # <<>>
    BY <2>0, <2>1 DEF RankOK
  <2>4. ender[j] # "rank"
    BY <2>0 DEF SerialInv, Ending
  <2>5. ~Stale(j)
    BY <2>0, <2>1, <2>4 DEF RankOK
  <2> QED
    BY <2>2, <2>3, <2>5 DEF Stale
<1> QED
  BY <1>1, PipelineCorrect, PTL

(* If nothing goes wrong a result that differs from the one the tick was   *)
(* scored with is marked run_over_time (_handle_celery_result,             *)
(* save_checker_result); the types hold in any case.                       *)
THEOREM LateMarkedCorrect == Spec => []LateMarked
<1>1. PipelineInv => LateMarked
  BY DEF PipelineInv, LateMarked, LateInv, Late
<1> QED
  BY <1>1, PipelineCorrect, PTL

(* A result that says "Not started before the tick ended" is that of a     *)
(* combination that was never checked, as long as the master timer did not *)
(* fail, with threads that overlap or not (_handle_celery_result).         *)
THEOREM RevokedCorrect == Spec => [](failures = 0 => RevokedMeansNotRun)
<1>1. PipelineInv => (failures = 0 => RevokedMeansNotRun)
  <2> SUFFICES ASSUME PipelineInv, failures = 0, NEW y \in Ticks \X Combinations, row[y].status = "REVOKED"
               PROVE  reported[y] = {}
    BY DEF RevokedMeansNotRun
  <2>1. y[1] \in Ticks /\ y[2] \in Combinations /\ y = <<y[1], y[2]>>
    OBVIOUS
  <2>2. NotRun(y[1], y[2])
    BY <2>1 DEF PipelineInv, RunInv
  <2> QED
    BY <2>1, <2>2 DEF NotRun
<1> QED
  BY <1>1, PipelineCorrect, PTL

=============================================================================
