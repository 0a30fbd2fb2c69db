---------------------------- MODULE TickPipeline ----------------------------
(***************************************************************************)
(* What happens in and after a tick (controlserver/events_impl.py,         *)
(* dispatcher.py, checker_runner/runner.py, scoring/scoring.py): a thread  *)
(* dispatches one checker task per team and service when the tick begins;  *)
(* workers run the tasks and save their results; when the tick has ended a *)
(* thread revokes what is left, collects the results, computes points and  *)
(* ranking and writes the scoreboard.                                      *)
(*                                                                         *)
(* A combination is a pair of team and service.  Points are represented by *)
(* what they are computed from: the points of tick n are the sequence of   *)
(* the n ticks' checker results that were added up, <<>> if there are none *)
(* in the table.                                                           *)
(***************************************************************************)
EXTENDS Integers, Sequences, FiniteSets

CONSTANTS
  Combinations,   (* teams x services                                      *)
  Outcomes,       (* statuses a run of a checker script may end with       *)
  MaxTick,        (* bound: length of the game                             *)
  Troubles,       (* what may go wrong in a game, see trouble              *)
  MaxFailures     (* bound: failures of the master timer                   *)

ASSUME PipelineAssumption ==
  /\ IsFiniteSet(Combinations) /\ Combinations # {}
  (* A script is told from a task that was revoked, or from no result.     *)
  /\ Outcomes \cap {"REVOKED", "none"} = {}
  /\ MaxTick \in Nat \ {0}
  /\ Troubles \subseteq {"none", "crash", "abort", "overlap"}
  /\ MaxFailures \in Nat

VARIABLES
  tick,      (* tick of the master timer                                   *)
  pc,        (* where the master timer is                                  *)
  saved,     (* timing:currentRound                                        *)
  starter,   (* the threads started by on_start_tick                       *)
  ender,     (* the threads started by on_end_tick                         *)
  groups,    (* task groups dispatched for a tick                          *)
  ref,       (* dispatcher:ref:N, 0 if absent                              *)
  task,      (* Celery's status of a task                                  *)
  revoked,   (* task groups that were revoked                              *)
  row,       (* table checker_results                                      *)
  points,    (* table team_points                                          *)
  rank,      (* table team_rankings, by the points it was computed from    *)
  boards,    (* ticks whose scoreboard was written                         *)
  collected, (* history: ticks that were collected                         *)
  reported,  (* history: the statuses that scripts reported                *)
  trouble,   (* what may go wrong in this game: nothing, the master timer  *)
             (* is killed, it ends with an exception, or the threads of a  *)
             (* tick outlast the next one                                  *)
  failures   (* how often the master timer has failed                      *)

clock == <<tick, pc, saved>>
threads == <<starter, ender>>
celery == <<groups, ref, task, revoked>>
scores == <<points, rank, boards>>
history == <<collected, reported>>
vars == <<clock, threads, celery, row, scores, history, trouble, failures>>

Ticks == 1..MaxTick
Groups == 1..(MaxFailures + 1)
Tasks == Ticks \X Groups \X Combinations

Statuses == Outcomes \cup {"TIMEOUT", "CRASHED", "REVOKED"}
(* Celery's states; a task that failed was killed by its time limit or     *)
(* lost with its worker; "saved" is STARTED with the result in the table.  *)
TaskStates == {"absent", "PENDING", "STARTED", "saved", "SUCCESS", "killed", "lost", "REVOKED"}

NoRow == [status |-> "none", late |-> FALSE, finished |-> FALSE]
Rows == [status: Statuses \cup {"none"}, late: BOOLEAN, finished: BOOLEAN]
Result == [Combinations -> Statuses]

Starting == {"dispatch", "save"}
Ending == {"revoke", "collect", "score", "rank", "publish"}
Idle == {"none", "done", "dead"}

TypeOK ==
  /\ tick \in 0..MaxTick /\ saved \in 0..MaxTick
  /\ pc \in {"run", "ended", "begun", "over", "down", "failing"}
  /\ starter \in [Ticks -> Starting \cup Idle]
  /\ ender \in [Ticks -> Ending \cup Idle]
  /\ groups \in [Ticks -> 0..(MaxFailures + 1)]
  /\ ref \in [Ticks -> 0..(MaxFailures + 1)]
  /\ task \in [Tasks -> TaskStates]
  /\ revoked \subseteq Ticks \X Groups
  /\ row \in [Ticks \X Combinations -> Rows]
  /\ points \in [Ticks -> Seq(Result)] /\ rank \in [Ticks -> Seq(Result)]
  /\ boards \subseteq Ticks
  /\ collected \subseteq Ticks
  /\ reported \in [Ticks \X Combinations -> SUBSET Outcomes]
  /\ trouble \in Troubles /\ failures \in 0..MaxFailures

Init ==
  /\ tick = 0 /\ pc = "ended" /\ saved = 0
  /\ starter = [n \in Ticks |-> "none"] /\ ender = [n \in Ticks |-> "none"]
  /\ groups = [n \in Ticks |-> 0] /\ ref = [n \in Ticks |-> 0]
  /\ task = [x \in Tasks |-> "absent"] /\ revoked = {}
  /\ row = [x \in Ticks \X Combinations |-> NoRow]
  /\ points = [n \in Ticks |-> <<>>] /\ rank = [n \in Ticks |-> <<>>] /\ boards = {}
  /\ collected = {} /\ reported = [x \in Ticks \X Combinations |-> {}]
  /\ trouble \in Troubles /\ failures = 0

-----------------------------------------------------------------------------
(* The master timer, as CtfTimer has it: a tick ends, the next one begins, *)
(* the clock is written to Redis.                                          *)

Quiet == \A n \in Ticks : starter[n] \in Idle /\ ender[n] \in Idle

EndTick ==
  /\ pc = "run"
  /\ trouble = "overlap" \/ Quiet
  /\ ender' = [ender EXCEPT ![tick] = "revoke"]
  /\ pc' = "ended"
  /\ UNCHANGED <<tick, saved, starter, celery, row, scores, history, trouble, failures>>

BeginTick ==
  /\ pc = "ended" /\ tick < MaxTick
  /\ tick' = tick + 1
  /\ starter' = [starter EXCEPT ![tick + 1] = "dispatch"]
  /\ pc' = "begun"
  /\ UNCHANGED <<saved, ender, celery, row, scores, history, trouble, failures>>

SaveClock ==
  /\ pc = "begun"
  /\ saved' = tick
  /\ pc' = "run"
  /\ UNCHANGED <<tick, threads, celery, row, scores, history, trouble, failures>>

EndGame ==
  /\ pc = "ended" /\ tick = MaxTick
  /\ pc' = "over"
  /\ UNCHANGED <<tick, saved, threads, celery, row, scores, history, trouble, failures>>

(* The process is killed, and its threads with it.  A game that is over    *)
(* stays over.                                                             *)
Crash ==
  /\ pc # "down" /\ ~(pc = "over" /\ Quiet)
  /\ trouble = "crash" /\ failures < MaxFailures
  /\ failures' = failures + 1
  /\ starter' = [n \in Ticks |-> IF starter[n] \in Starting THEN "dead" ELSE starter[n]]
  /\ ender' = [n \in Ticks |-> IF ender[n] \in Ending THEN "dead" ELSE ender[n]]
  /\ pc' = IF pc = "over" THEN "over" ELSE "down"
  /\ UNCHANGED <<tick, saved, celery, row, scores, history, trouble>>

(* check_time raises before the clock is written, and run_master_timer     *)
(* ends with the exception; the threads are no daemons and are finished    *)
(* before the process ends.                                                *)
Abort ==
  /\ pc \in {"ended", "begun"}
  /\ trouble = "abort" /\ failures < MaxFailures
  /\ failures' = failures + 1
  /\ pc' = "failing"
  /\ UNCHANGED <<tick, saved, threads, celery, row, scores, history, trouble>>

Exit ==
  /\ pc = "failing" /\ Quiet
  /\ pc' = "down"
  /\ UNCHANGED <<tick, saved, threads, celery, row, scores, history, trouble, failures>>

(* The restarted master takes its tick from Redis and will end it again if *)
(* its successor was not saved.                                            *)
Restart ==
  /\ pc = "down"
  /\ tick' = saved
  /\ pc' = IF saved = 0 THEN "ended" ELSE "run"
  /\ UNCHANGED <<saved, threads, celery, row, scores, history, trouble, failures>>

-----------------------------------------------------------------------------
(* The thread of on_start_tick: dispatch_checker_scripts.  The order of    *)
(* the tasks is written just before their reference.                       *)

Dispatch(n) ==
  /\ starter[n] = "dispatch"
  /\ groups' = [groups EXCEPT ![n] = @ + 1]
  /\ task' = [x \in Tasks |-> IF x[1] = n /\ x[2] = groups[n] + 1 THEN "PENDING" ELSE task[x]]
  /\ starter' = [starter EXCEPT ![n] = "save"]
  /\ UNCHANGED <<clock, ender, ref, revoked, row, scores, history, trouble, failures>>

SaveReference(n) ==
  /\ starter[n] = "save"
  /\ ref' = [ref EXCEPT ![n] = groups[n]]
  /\ starter' = [starter EXCEPT ![n] = "done"]
  /\ UNCHANGED <<clock, ender, groups, task, revoked, row, scores, history, trouble, failures>>

-----------------------------------------------------------------------------
(* The workers.                                                            *)

SetTask(x, state) == task' = [task EXCEPT ![x] = state]
RowOf(x) == <<x[1], x[3]>>

StartTask(x) ==
  /\ task[x] = "PENDING" /\ <<x[1], x[2]>> \notin revoked
  /\ SetTask(x, "STARTED")
  /\ UNCHANGED <<clock, threads, groups, ref, revoked, row, scores, history, trouble, failures>>

(* A worker comes across a task that was revoked.                          *)
DiscardTask(x) ==
  /\ task[x] = "PENDING" /\ <<x[1], x[2]>> \in revoked
  /\ SetTask(x, "REVOKED")
  /\ UNCHANGED <<clock, threads, groups, ref, revoked, row, scores, history, trouble, failures>>

(* Mutant: the update of an existing row includes run_over_time.           *)
save_checker_result_reset(x, status) ==
  /\ task[x] = "STARTED"
  /\ row' = [row EXCEPT ![RowOf(x)] = [status |-> status, late |-> FALSE, finished |-> TRUE]]
  /\ SetTask(x, "saved")
  /\ reported' = [reported EXCEPT ![RowOf(x)] = @ \cup {status}]
  /\ UNCHANGED <<clock, threads, groups, ref, revoked, scores, collected, trouble, failures>>

(* The script has finished or met its soft time limit: the result is saved *)
(* and leaves run_over_time of an existing row as it is.                   *)
save_checker_result(x, status) ==
  /\ task[x] = "STARTED"
  /\ row' = [row EXCEPT ![RowOf(x)] = [status |-> status, late |-> @.late, finished |-> TRUE]]
  /\ SetTask(x, "saved")
  /\ reported' = [reported EXCEPT ![RowOf(x)] = @ \cup {status}]
  /\ UNCHANGED <<clock, threads, groups, ref, revoked, scores, collected, trouble, failures>>

ReportSuccess(x) ==
  /\ task[x] = "saved"
  /\ SetTask(x, "SUCCESS")
  /\ UNCHANGED <<clock, threads, groups, ref, revoked, row, scores, history, trouble, failures>>

(* The hard time limit, a lost worker, an exception in the framework.      *)
FailTask(x, state) ==
  /\ task[x] \in {"STARTED", "saved"}
  /\ SetTask(x, state)
  /\ UNCHANGED <<clock, threads, groups, ref, revoked, row, scores, history, trouble, failures>>

-----------------------------------------------------------------------------
(* The thread of on_end_tick.                                              *)

GoOn(n, next) == ender' = [ender EXCEPT ![n] = next]

revoke_checker_scripts(n) ==
  /\ ender[n] = "revoke"
  /\ revoked' = IF ref[n] # 0 THEN revoked \cup {<<n, ref[n]>>} ELSE revoked
  /\ GoOn(n, "collect")
  /\ UNCHANGED <<clock, starter, groups, ref, task, row, scores, history, trouble, failures>>

(* _handle_celery_result: the row r of a task in the given state.          *)
Upsert(r, status, late) ==
  [status |-> status, late |-> IF r = NoRow THEN late ELSE r.late, finished |-> r.finished]

(* Mutant: a task that is still running is left to save its own result.    *)
handle_celery_result_patient(state, r) ==
  CASE state = "killed" -> Upsert(r, "TIMEOUT", FALSE)
    [] state = "lost" -> Upsert(r, "CRASHED", FALSE)
    [] state \in {"PENDING", "REVOKED", "absent"} -> Upsert(r, "REVOKED", FALSE)
    [] state \in {"STARTED", "saved", "SUCCESS"} -> r

(* Mutant: whatever did not finish counts as revoked.                      *)
handle_celery_result_coarse(state, r) ==
  CASE state = "killed" -> Upsert(r, "TIMEOUT", FALSE)
    [] state = "lost" -> Upsert(r, "CRASHED", FALSE)
    [] state \in {"STARTED", "saved", "PENDING", "REVOKED", "absent"} -> Upsert(r, "REVOKED", FALSE)
    [] state = "SUCCESS" -> r

handle_celery_result(state, r) ==
  CASE state = "killed" -> Upsert(r, "TIMEOUT", FALSE)
    [] state = "lost" -> Upsert(r, "CRASHED", FALSE)
    [] state \in {"STARTED", "saved"} -> Upsert(r, "TIMEOUT", TRUE)
    [] state \in {"PENDING", "REVOKED", "absent"} -> Upsert(r, "REVOKED", FALSE)
    [] state = "SUCCESS" -> r

(* The tasks of tick n that its reference leads to.                        *)
Group(n) == {x \in Tasks : x[1] = n /\ x[2] = ref[n]}
RowsCollected(n) ==
  [y \in Ticks \X Combinations |->
     IF y[1] = n THEN handle_celery_result(task[<<n, ref[n], y[2]>>], row[y]) ELSE row[y]]

(* _issue_warnings has nothing to subtract from: every task failed and no  *)
(* script of this tick ever finished.                                      *)
NothingFinished(n) ==
  /\ \A x \in Group(n) : task[x] \in {"SUCCESS", "killed", "lost"}
  /\ \A c \in Combinations : ~row[<<n, c>>].finished

(* The results of the tasks that succeeded are forgotten by Celery, which  *)
(* reports an unknown task as PENDING.                                     *)
collect_checker_results(n) ==
  /\ ender[n] = "collect" /\ ref[n] # 0
  /\ row' = RowsCollected(n)
  /\ task' = [x \in Tasks |-> IF x \in Group(n) /\ task[x] = "SUCCESS" THEN "absent" ELSE task[x]]
  /\ collected' = collected \cup {n}
  /\ GoOn(n, IF NothingFinished(n) THEN "dead" ELSE "score")
  /\ UNCHANGED <<clock, starter, groups, ref, revoked, scores, reported, trouble, failures>>

NothingToCollect(n) ==
  /\ ender[n] = "collect" /\ ref[n] = 0
  /\ GoOn(n, "score")
  /\ UNCHANGED <<clock, starter, celery, row, scores, history, trouble, failures>>

(* The results of a tick; a combination without a row counts as REVOKED.   *)
Results(n) ==
  [c \in Combinations |-> IF row[<<n, c>>] = NoRow THEN "REVOKED" ELSE row[<<n, c>>].status]

(* The last tick before n that has points, 0 if there is none.             *)
LastScored(n) ==
  CHOOSE k \in 0..(n - 1) :
    /\ k = 0 \/ points[k] # <<>>
    /\ \A j \in (k + 1)..(n - 1) : points[j] = <<>>

(* Mutant: points that are missing are computed and not saved.             *)
ScoredAlone(n) ==
  LET k == LastScored(n)
      sum == [i \in 1..n |-> IF i <= k THEN points[k][i] ELSE Results(i)]
  IN [points EXCEPT ![n] = sum]

(* calculate_scoring_for_tick: ticks without points are computed as well.  *)
Scored(n) ==
  LET k == LastScored(n)
      sum(j) == [i \in 1..j |-> IF i <= k THEN points[k][i] ELSE Results(i)]
  IN [j \in Ticks |-> IF j \in (k + 1)..n THEN sum(j) ELSE points[j]]

calculate_scoring_for_tick(n) ==
  /\ ender[n] = "score"
  /\ points' = Scored(n)
  /\ GoOn(n, "rank")
  /\ UNCHANGED <<clock, starter, celery, row, rank, boards, history, trouble, failures>>

(* Mutant: a ranking that exists is not computed again.                    *)
calculate_ranking_if_missing(n) ==
  /\ ender[n] = "rank"
  /\ rank' = [rank EXCEPT ![n] = IF @ = <<>> THEN points[n] ELSE @]
  /\ GoOn(n, "publish")
  /\ UNCHANGED <<clock, starter, celery, row, points, boards, history, trouble, failures>>

(* calculate_ranking_per_tick deletes the old ranking first.               *)
calculate_ranking_per_tick(n) ==
  /\ ender[n] = "rank"
  /\ rank' = [rank EXCEPT ![n] = points[n]]
  /\ GoOn(n, "publish")
  /\ UNCHANGED <<clock, starter, celery, row, points, boards, history, trouble, failures>>

(* create_scoreboard for tick n, and for the tick before if that is        *)
(* missing; each fetches two ticks, whose ranking is computed if missing.  *)
Fetched(n) == IF n - 1 \in boards THEN {n, n - 1} ELSE {n, n - 1, n - 2}

create_scoreboard(n) ==
  /\ ender[n] = "publish"
  /\ rank' = [j \in Ticks |-> IF j \in Fetched(n) /\ rank[j] = <<>> THEN points[j] ELSE rank[j]]
  /\ boards' = boards \cup ({n, n - 1} \cap Ticks)
  /\ GoOn(n, "done")
  /\ UNCHANGED <<clock, starter, celery, row, points, history, trouble, failures>>

Timer == EndTick \/ BeginTick \/ SaveClock \/ EndGame \/ Exit \/ Restart
StartThread(n) == Dispatch(n) \/ SaveReference(n)
Workers(x) ==
  \/ StartTask(x) \/ DiscardTask(x) \/ ReportSuccess(x)
  \/ \E status \in Outcomes : save_checker_result(x, status)
  \/ \E state \in {"killed", "lost"} : FailTask(x, state)
EndThread(n) ==
  \/ revoke_checker_scripts(n)
  \/ collect_checker_results(n) \/ NothingToCollect(n)
  \/ calculate_scoring_for_tick(n) \/ calculate_ranking_per_tick(n)
  \/ create_scoreboard(n)

Next ==
  \/ Timer \/ Crash \/ Abort
  \/ \E n \in Ticks : StartThread(n) \/ EndThread(n)
  \/ \E x \in Tasks : Workers(x)

Spec == Init /\ [][Next]_vars

(* The threads go on, the master timer is called every second, and a task  *)
(* that was started ends (its hard time limit sees to that).               *)
TaskEnds(x) ==
  \/ ReportSuccess(x)
  \/ \E status \in Outcomes : save_checker_result(x, status)
  \/ \E state \in {"killed", "lost"} : FailTask(x, state)

FairSpec ==
  /\ Spec
  /\ WF_vars(Timer)
  /\ \A n \in Ticks : WF_vars(StartThread(n)) /\ WF_vars(EndThread(n))
  /\ \A x \in Tasks : WF_vars(TaskEnds(x))

-----------------------------------------------------------------------------
(* Properties.                                                             *)

(* When a tick was collected every combination has a result in the table:  *)
(* _collect adds one for every task that left none, and trusts a task that *)
(* Celery calls a success to have saved its own.                           *)
RowsComplete == \A n \in collected : \A c \in Combinations : row[<<n, c>>] # NoRow

(* A result that differs from the one the tick was scored with is marked   *)
(* run_over_time: the script was still running when the tick was collected *)
(* (_handle_celery_result, save_checker_result; if nothing else is wrong). *)
(* All variables keep their types.                                         *)
LateMarked ==
  /\ TypeOK
  /\ trouble = "none" => \A n \in Ticks : points[n] # <<>> =>
       \A c \in Combinations : row[<<n, c>>].status # points[n][n][c] => row[<<n, c>>].late

(* A combination whose result says "Not started before the tick ended" was *)
(* never checked: no script reported anything for it, if its tasks were    *)
(* dispatched once (_handle_celery_result, status REVOKED).                *)
RevokedMeansNotRun ==
  \A y \in Ticks \X Combinations :
    row[y].status = "REVOKED" /\ groups[y[1]] <= 1 => reported[y] = {}

(* The points of a tick continue those of the tick before, whichever end   *)
(* threads died, were repeated after a restart or were made up for by a    *)
(* later tick (_calculate_scoring_for_tick, _get_results_for_tick_lite),   *)
(* as long as the threads of two ticks do not overlap.                     *)
Chained ==
  trouble # "overlap" =>
    \A n \in Ticks \ {1} : points[n] # <<>> => SubSeq(points[n], 1, n - 1) = points[n - 1]

(* When the scoreboard of a tick was written, its ranking and that of the  *)
(* tick before are those of the points in the table, even if one failure   *)
(* of the master made it lose or repeat a tick's thread                    *)
(* (calculate_ranking_per_tick, get_ranking_for_tick).                     *)
RankedAsScored ==
  trouble # "overlap" /\ failures <= 1 =>
    \A n \in Ticks : ender[n] = "done" =>
      \A j \in {n, n - 1} \cap Ticks : points[j] # <<>> /\ rank[j] = points[j]

(* Every tick that has ended gets a ranking, "one entry per tick/team"     *)
(* (scoring_and_ranking), if the master is never interrupted.              *)
EveryTickRanked == \A n \in Ticks : ender[n] = "revoke" ~> rank[n] # <<>>
=============================================================================
