------------------------------ MODULE Scoring ------------------------------
(***************************************************************************)
(* Points, ranking and first bloods from the table of submitted flags      *)
(* (controlserver/scoring/scoring.py, algorithms/*.py), and the scripts    *)
(* that compute them again or cut the game back                            *)
(* (scripts/recreate_ranking.py, recreate_firstblood.py,                   *)
(* reset_ctf_to_round.py).                                                 *)
(*                                                                         *)
(* There is one service; the teams and the service of every row exist.     *)
(* The real-valued terms of the score are integers that keep their order:  *)
(* Worth[n] is sqrt(1/n), Damage[n] is n^0.3, and the division by the      *)
(* number of active teams and the configured factors are left out.  The    *)
(* term for the rank of the victim is counted apart from the rest.         *)
(***************************************************************************)
EXTENDS Integers, Sequences, SequencesExt

CONSTANTS
  Teams,        (* team ids                                                *)
  Flags,        (* flags that may be stolen: records of victim, tick, payload *)
  NumPayloads,  (* Service.num_payloads                                    *)
  Valid,        (* flags_rounds_valid                                      *)
  Limit,        (* firstblood_limit                                        *)
  Worth, Damage,
  Algorithms,   (* pairs of a scoring and a first blood algorithm          *)
  Outcomes,     (* checker results of a tick that are tried                *)
  Scripts,      (* scripts an organizer may run, one of them in a game     *)
  MaxTick,      (* bound: length of the game                               *)
  MaxRows,      (* bound: submitted flags                                  *)
  MaxFailures   (* bound: transactions that fail                           *)

Statuses == {"SUCCESS", "RECOVERING", "FLAGMISSING", "OFFLINE"}

ASSUME ScoringAssumption ==
  /\ Teams \subseteq Nat \ {0} /\ IsFiniteSet(Teams) /\ Teams # {}
  /\ MaxTick \in Nat \ {0}
  /\ \A f \in Flags : f.team \in Teams /\ f.issued \in 1..MaxTick /\ f.payload \in Nat
  /\ NumPayloads > 0 => \A f \in Flags : f.payload < NumPayloads
  /\ NumPayloads \in Nat /\ Valid \in Nat /\ Limit \in Nat \ {0}
  /\ Worth \in [1..Cardinality(Teams) -> Nat] /\ Damage \in [0..Cardinality(Teams) -> Nat]
  /\ Algorithms \subseteq {"saarctf", "playground"} \X {"default", "multi"}
  /\ Outcomes \subseteq [Teams -> Statuses]
  /\ Scripts \subseteq {"none", "recreate", "recompute", "reset"}

VARIABLES
  tick,      (* current tick                                               *)
  rows,      (* table submitted_flags in the order of ts                   *)
  status,    (* table checker_results of the ticks that were collected     *)
  points,    (* table team_points, None for a tick without rows            *)
  rank,      (* table team_rankings                                        *)
  todo, pc,  (* the tick that the end thread is scoring, 0 if none, and    *)
             (* its next step                                              *)
  cache,     (* the first blood cache of the master and of the script      *)
  script,    (* recreate_ranking.py: next tick and last tick               *)
  algo,      (* configured algorithms                                      *)
  tool,      (* the script that is run in this game                        *)
  failures,  (* failed transactions                                        *)
  past,      (* history: recreate_firstblood.py was run; every row came in *)
             (* after those of earlier ticks, before its tick was scored   *)
  exact      (* history: ticks that were scored when all their rows and    *)
             (* those of the ticks before were there                       *)

(* The elements of S as a sequence that is sorted by the relation R.       *)
InOrder(S, R) ==
  CHOOSE s \in [1..Cardinality(S) -> S] : \A i, j \in 1..Cardinality(S) : i < j => <<s[i], s[j]>> \in R

tables == <<rows, status, points, rank>>
vars == <<tick, tables, todo, pc, cache, script, algo, tool, failures, past, exact>>

Ticks == 1..MaxTick
None == <<>>
Row == [flag: Flags, by: Teams, tick: Ticks, fb: 0..Cardinality(Teams)]
TeamPoints == [worth: Int, bonus: Nat, def: Int, sla: Nat, delta: Nat, captured: Nat, stolen: Nat]
Keys == {f.payload : f \in Flags} \cup {0}
Cache == [max: [Keys -> Nat], victims: [Keys \X Teams -> SUBSET Teams]]
NoCache == [max |-> [k \in Keys |-> 0], victims |-> [x \in Keys \X Teams |-> {}]]
NoScript == [pc |-> "off", rn |-> 0, end |-> 0, clean |-> FALSE]

TypeOK ==
  /\ tick \in Ticks /\ rows \in Seq(Row) /\ todo \in 0..MaxTick /\ pc \in {"score", "rank"}
  /\ \A n \in Ticks :
       /\ status[n] = None \/ status[n] \in [Teams -> Statuses]
       /\ points[n] = None \/ points[n] \in [Teams -> TeamPoints]
       /\ rank[n] = None \/ rank[n] \in [Teams -> 1..Cardinality(Teams)]
  /\ cache \in [{"master", "script"} -> Cache]
  /\ script.pc \in {"off", "delete", "score", "rank", "done"} /\ script.rn \in 0..(MaxTick + 1)
  /\ algo \in Algorithms /\ tool \in Scripts /\ exact \subseteq Ticks

Init ==
  /\ tick = 1 /\ rows = <<>> /\ todo = 0 /\ pc = "score"
  /\ status = [n \in Ticks |-> None] /\ points = [n \in Ticks |-> None] /\ rank = [n \in Ticks |-> None]
  /\ cache = [p \in {"master", "script"} |-> NoCache]
  /\ script = NoScript /\ algo \in Algorithms /\ tool \in Scripts
  /\ failures = 0 /\ past = [recomputed |-> FALSE, inorder |-> TRUE] /\ exact = {}

-----------------------------------------------------------------------------
(* What the submission server adds to the table: a flag, once per team,    *)
(* while it is valid, under the tick it knows of.  That tick may be over   *)
(* and even scored.                                                        *)

Submitters(f, from, to) == {r.by : r \in {q \in ToSet(rows) : q.flag = f /\ q.tick \in from..to}}

Submit(f, team, t) ==
  /\ Len(rows) < MaxRows
  /\ t \in {tick, tick - 1} \cap f.issued..(f.issued + Valid)
  /\ team # f.team /\ team \notin Submitters(f, 1, MaxTick)
  /\ rows' = Append(rows, [flag |-> f, by |-> team, tick |-> t, fb |-> 0])
  /\ exact' = exact \ t..MaxTick
  /\ script' = [script EXCEPT !.clean = FALSE]
  /\ past' = [past EXCEPT !.inorder = @ /\ points[t] = None /\ \A r \in ToSet(rows) : r.tick <= t]
  /\ UNCHANGED <<tick, status, points, rank, todo, pc, cache, algo, tool, failures>>

(* A tick ends, its results are collected and its end thread goes on to    *)
(* the scoring; the next tick begins.                                      *)
EndTick(result) ==
  /\ todo = 0 /\ status[tick] = None
  /\ status' = [status EXCEPT ![tick] = result]
  /\ todo' = tick /\ pc' = "score"
  /\ tick' = IF tick < MaxTick THEN tick + 1 ELSE tick
  /\ UNCHANGED <<rows, points, rank, cache, script, algo, tool, failures, past, exact>>

-----------------------------------------------------------------------------
(* The scoring algorithm: the points of tick n, from those of the tick     *)
(* before and from the flags submitted in tick n.                          *)

FlagsOf(n) == {r \in ToSet(rows) : r.tick = n}

(* _get_submitted_flags: who submitted the flag before and in tick n.      *)
Previous(f, n) == Submitters(f, n - Valid - 2, n - 1)
Submissions(f, n) == Cardinality(Previous(f, n)) + Cardinality(Submitters(f, n, n))

Result(n) == IF status[n] = None THEN [t \in Teams |-> "REVOKED"] ELSE status[n]
sla_points(s) == CASE s = "SUCCESS" -> 2 [] s = "RECOVERING" -> 1 [] OTHER -> 0
SlaDelta(k, n, t) ==
  CASE k = n -> sla_points(Result(n)[t]) [] k # n /\ points[k] # None -> points[k][t].delta [] OTHER -> 0

(* The rank that decides on the value of a flag is the victim's when the   *)
(* flag was issued, the last one if it has none.                           *)
VictimRank(f, n) ==
  IF f.issued - 1 >= n - Valid - 1 /\ f.issued > 1 /\ rank[f.issued - 1] # None
    THEN rank[f.issued - 1][f.team] ELSE Cardinality(Teams)

(* Attacking teams per payload in tick n (playground algorithm).           *)
AttackingTeams(p, n) == Cardinality({r.by : r \in {q \in FlagsOf(n) : q.flag.payload = p}})

off_points(f, n) == IF algo[1] = "saarctf" THEN Worth[Submissions(f, n)] ELSE Worth[AttackingTeams(f.payload, n)]

(* Mutant: the value is not corrected for the ones who submitted before.   *)
PreviousCorrectionNone(team, n) == 0

(* A flag is worth less when more teams submit it: the teams that          *)
(* submitted it before lose the difference, once for each flag.            *)
PreviousCorrection(team, n) ==
  IF algo[1] = "playground" THEN 0
  ELSE MapThenSumSet(LAMBDA f : Worth[Submissions(f, n)] - Worth[Cardinality(Previous(f, n))],
                     {f \in {r.flag : r \in FlagsOf(n)} : team \in Previous(f, n)})

StolenFirst(team, n) ==
  Cardinality({f \in {r.flag : r \in FlagsOf(n)} : f.team = team /\ Previous(f, n) = {}})

Lost(team, n) ==
  MapThenSumSet(LAMBDA f : (Damage[Submissions(f, n)] - Damage[Cardinality(Previous(f, n))])
                             * SlaDelta(f.issued, n, team),
                {f \in {r.flag : r \in FlagsOf(n)} : f.team = team})

NoPoints == [worth |-> 0, bonus |-> 0, def |-> 0, sla |-> 0, delta |-> 0, captured |-> 0, stolen |-> 0]
Before(n) == IF n = 1 THEN [t \in Teams |-> NoPoints] ELSE points[n - 1]

(* The factor for the number of active teams is left out.                  *)
_calculate_sla(n) == [t \in Teams |-> sla_points(Result(n)[t])]

calculate_scoring(n) ==
  [t \in Teams |->
    LET mine == {i \in DOMAIN rows : rows[i].tick = n /\ rows[i].by = t}
        last == Before(n)[t]
    IN [worth |-> last.worth + PreviousCorrection(t, n) + MapThenSumSet(LAMBDA i : off_points(rows[i].flag, n), mine),
        bonus |-> last.bonus + MapThenSumSet(LAMBDA i : Cardinality(Teams) - VictimRank(rows[i].flag, n), mine),
        def |-> last.def - Lost(t, n),
        sla |-> last.sla + _calculate_sla(n)[t], delta |-> _calculate_sla(n)[t],
        captured |-> last.captured + Cardinality(mine),
        stolen |-> last.stolen + StolenFirst(t, n)]]

-----------------------------------------------------------------------------
(* First bloods.  Rows are indices of the table; db is the table as the    *)
(* transaction sees it.  A result is the cache and the levels to record.   *)

Key(r) == IF NumPayloads > 0 THEN r.flag.payload ELSE 0
SameKey(db, i) == {j \in DOMAIN db : Key(db[j]) = Key(db[i])}
FlagKey(r) == <<r.flag.team, r.flag.issued, r.flag.payload>>

(* DefaultFirstBloodAlgorithm: cache.max[k] = 1 if the key is in the cache. *)
DefaultIsFirst(db, c, i) ==
  c.max[Key(db[i])] = 0 /\ \A j \in SameKey(db, i) : j <= i => db[j].fb = 0
DefaultStep(db, acc, i) ==
  IF FlagKey(db[i]) \notin acc.seen /\ DefaultIsFirst(db, acc.cache, i)
    THEN [acc EXCEPT !.found = @ \cup {<<i, 1>>}, !.seen = @ \cup {FlagKey(db[i])}, !.cache.max[Key(db[i])] = 1]
    ELSE [acc EXCEPT !.seen = @ \cup {FlagKey(db[i])}]

(* MultiFirstBloodAlgorithm: a first blood of level N is the first theft   *)
(* from an Nth team.                                                       *)
DbLevel(db, i) == Max({0} \cup {db[j].fb : j \in {j \in SameKey(db, i) : j < i}})
DbVictims(db, i) == {db[j].flag.team : j \in {j \in SameKey(db, i) : j < i /\ db[j].by = db[i].by}}

MultiStep(db, acc, i) ==
  LET k == Key(db[i])
      x == <<k, db[i].by>>
      victim == db[i].flag.team
      level == Max({acc.cache.max[k], DbLevel(db, i)})
      known == acc.cache.victims[x] \cup DbVictims(db, i)
      reached == Cardinality(known \cup {victim})
  IN CASE acc.cache.max[k] >= Limit \/ victim \in acc.cache.victims[x] -> acc
       [] OTHER ->
          CASE level >= Limit -> [acc EXCEPT !.cache.max[k] = level]
            [] level < Limit /\ (victim \in known \/ reached <= level) ->
                 [acc EXCEPT !.cache.max[k] = level, !.cache.victims[x] = known \cup {victim}]
            [] OTHER ->
                 [acc EXCEPT !.cache.max[k] = reached, !.cache.victims[x] = known \cup {victim},
                             !.found = @ \cup {<<i, reached>>}]

RowsIn(db, S) == InOrder({i \in DOMAIN db : db[i].tick \in S}, {x \in (DOMAIN db) \X (DOMAIN db) : x[1] < x[2]})
get_firstbloods(db, c, is) ==
  FoldLeft(LAMBDA acc, i : IF algo[2] = "multi" THEN MultiStep(db, acc, i) ELSE DefaultStep(db, acc, i),
           [cache |-> c, found |-> {}, seen |-> {}], is)

Record(db, found) ==
  [i \in DOMAIN db |-> IF \E x \in found : x[1] = i
                         THEN [db[i] EXCEPT !.fb = (CHOOSE x \in found : x[1] = i)[2]] ELSE db[i]]

-----------------------------------------------------------------------------
(* _calculate_scoring_for_tick of process p: one transaction.  A missing   *)
(* tick before is calculated first, in a transaction of its own.           *)

FirstMissing(n) == CHOOSE j \in 1..n : (j = 1 \/ points[j - 1] # None) /\ \A k \in j..(n - 1) : points[k] = None

(* The rows of the tick are replaced.                                      *)
_save_teampoints(n, teampoints) == [points EXCEPT ![n] = teampoints]

Calculate(p, n) ==
  LET j == FirstMissing(n)
      fb == get_firstbloods(rows, cache[p], RowsIn(rows, {j}))
  IN /\ points' = _save_teampoints(j, calculate_scoring(j))
     /\ rows' = Record(rows, fb.found)
     /\ cache' = [cache EXCEPT ![p] = fb.cache]
     /\ exact' = IF 1..(j - 1) \subseteq exact THEN exact \cup {j} ELSE exact \ {j}

(* Mutant: the cache keeps what the failed transaction has found.          *)
CalculateFailsKeep(p, n) ==
  /\ failures < MaxFailures /\ failures' = failures + 1
  /\ cache' = [cache EXCEPT ![p] = get_firstbloods(rows, cache[p], RowsIn(rows, {FirstMissing(n)})).cache]

(* The transaction fails after the first bloods were found.                *)
CalculateFails(p, n) ==
  /\ failures < MaxFailures /\ failures' = failures + 1
  /\ cache' = [cache EXCEPT ![p] = NoCache]

ScoreTick ==
  /\ todo # 0 /\ pc = "score"
  /\ Calculate("master", todo)
  /\ pc' = IF FirstMissing(todo) = todo THEN "rank" ELSE "score"
  /\ UNCHANGED <<tick, status, rank, todo, script, algo, tool, failures, past>>

(* The transaction is tried again, or the exception ends the thread.       *)
ScoreTickFails ==
  /\ todo # 0 /\ pc = "score"
  /\ CalculateFails("master", todo)
  /\ todo' \in {0, todo}
  /\ UNCHANGED <<tick, tables, pc, script, algo, tool, past, exact>>

Total(p) == p.worth + p.bonus + p.def + p.sla

(* _order_by_points: the loop over the teams in the order of their points. *)
RankLoop(order, total) ==
  FoldLeft(LAMBDA acc, t :
             LET r == IF acc.prev # 0 /\ total[acc.prev] = total[t] THEN acc.rank[acc.prev] ELSE acc.i
             IN [prev |-> t, rank |-> [acc.rank EXCEPT ![t] = r], i |-> IF total[t] > 0 THEN acc.i + 1 ELSE acc.i],
           [prev |-> 0, rank |-> [t \in DOMAIN total |-> 0], i |-> 1], order).rank

ByPoints(total) ==
  InOrder(DOMAIN total, {x \in (DOMAIN total) \X (DOMAIN total) :
                           total[x[1]] > total[x[2]] \/ (total[x[1]] = total[x[2]] /\ x[1] < x[2])})

order_by_points(total) == RankLoop(ByPoints(total), total)
Ranking(p) == order_by_points([t \in DOMAIN p |-> Total(p[t])])

(* FilteredScoringCalculation.get_ranking_for_tick: the excluded teams     *)
(* that come first are subtracted from a rank, the points of the NOP team  *)
(* from the points.  (Mutant: the rank stays.)                             *)
RemovedNone(rk, X, t) == 0
Removed(rk, X, t) == Cardinality({x \in X : rk[x] < rk[t] \/ (rk[x] = rk[t] /\ x < t)})
Filtered(rk, total, X, offset) ==
  [t \in (DOMAIN rk) \ X |-> [rank |-> rk[t] - Removed(rk, X, t), points |-> Max({0, total[t] - offset})]]

(* create_ctftime_json: the standings of the teams that have points.       *)
Standings(filtered) ==
  [t \in {t \in DOMAIN filtered : filtered[t].points > 0} |-> filtered[t]]

(* calculate_ranking_per_tick; points that are missing are calculated.     *)
RankTick ==
  /\ todo # 0 /\ pc = "rank" /\ points[todo] # None
  /\ rank' = [rank EXCEPT ![todo] = Ranking(points[todo])]
  /\ todo' = 0
  /\ UNCHANGED <<tick, rows, status, points, pc, cache, script, algo, tool, failures, past, exact>>

PointsForRanking ==
  /\ todo # 0 /\ pc = "rank" /\ points[todo] = None
  /\ Calculate("master", todo)
  /\ UNCHANGED <<tick, status, rank, todo, pc, script, algo, tool, failures, past>>

-----------------------------------------------------------------------------
(* recreate_ranking.py start end: the ticks up to the last one that is     *)
(* over are deleted and calculated again, one after the other.             *)

LastOver == IF status[tick] = None THEN tick - 1 ELSE tick

RecreateStart(start) ==
  /\ tool = "recreate" /\ script.pc = "off" /\ start <= LastOver
  /\ script' = [pc |-> "delete", rn |-> start, end |-> LastOver, clean |-> start = 1]
  /\ cache' = [cache EXCEPT !["script"] = NoCache]
  /\ UNCHANGED <<tick, tables, todo, pc, algo, tool, failures, past, exact>>

RecreateDelete ==
  /\ script.pc = "delete"
  /\ points' = [points EXCEPT ![script.rn] = None]
  /\ rank' = [rank EXCEPT ![script.rn] = None]
  /\ script' = [script EXCEPT !.pc = "score"]
  /\ UNCHANGED <<tick, rows, status, todo, pc, cache, algo, tool, failures, past, exact>>

(* The tick was deleted, but the master may have calculated it meanwhile.  *)
RecreateScore ==
  /\ script.pc = "score"
  /\ Calculate("script", script.rn)
  /\ script' = [script EXCEPT !.pc = IF FirstMissing(script.rn) = script.rn THEN "rank" ELSE "score"]
  /\ UNCHANGED <<tick, status, rank, todo, pc, algo, tool, failures, past>>

(* Mutant: the last tick is left out.                                      *)
RecreateRankShort ==
  /\ script.pc = "rank" /\ points[script.rn] # None
  /\ rank' = [rank EXCEPT ![script.rn] = Ranking(points[script.rn])]
  /\ script' = [script EXCEPT !.rn = @ + 1, !.pc = IF script.rn + 1 >= script.end THEN "done" ELSE "delete"]
  /\ UNCHANGED <<tick, rows, status, points, todo, pc, cache, algo, tool, failures, past, exact>>

RecreateRank ==
  /\ script.pc = "rank" /\ points[script.rn] # None
  /\ rank' = [rank EXCEPT ![script.rn] = Ranking(points[script.rn])]
  /\ script' = [script EXCEPT !.rn = @ + 1, !.pc = IF script.rn = script.end THEN "done" ELSE "delete"]
  /\ UNCHANGED <<tick, rows, status, points, todo, pc, cache, algo, tool, failures, past, exact>>

(* recreate_firstblood.py: recompute_first_blood_flags, in a process and a *)
(* transaction of its own.  The default algorithm enters every first row   *)
(* into the cache before it asks the cache about them; the other one goes  *)
(* through the ticks until every payload has its last first blood.         *)
Unmarked == [i \in DOMAIN rows |-> [rows[i] EXCEPT !.fb = 0]]
FirstRows(db) == {i \in DOMAIN db : \A j \in SameKey(db, i) : i <= j}

DefaultRecomputation(db) ==
  LET c == [NoCache EXCEPT !.max = [k \in Keys |-> IF \E i \in FirstRows(db) : Key(db[i]) = k THEN 1 ELSE 0]]
  IN {<<i, 1>> : i \in {i \in FirstRows(db) : DefaultIsFirst(db, c, i)}}

AllDone(c) == \A k \in 0..(Max({1, NumPayloads}) - 1) : k \in Keys /\ c.max[k] >= Limit
MultiRecomputation(db) ==
  FoldLeft(LAMBDA acc, n :
             IF acc.done THEN acc
             ELSE LET new == get_firstbloods(db, acc.cache, RowsIn(db, {n}))
                  IN [cache |-> new.cache, found |-> acc.found \cup new.found,
                      done |-> new.found # {} /\ AllDone(new.cache)],
           [cache |-> NoCache, found |-> {}, done |-> FALSE], [n \in Ticks |-> n]).found

recompute_first_blood_flags ==
  /\ tool = "recompute" /\ ~past.recomputed /\ rows # <<>>
  /\ rows' = Record(Unmarked, IF algo[2] = "multi" THEN MultiRecomputation(Unmarked) ELSE DefaultRecomputation(Unmarked))
  /\ past' = [past EXCEPT !.recomputed = TRUE]
  /\ UNCHANGED <<tick, status, points, rank, todo, pc, cache, script, algo, tool, failures, exact>>

(* reset_ctf_to_round.py: the game is stopped, the master timer is down    *)
(* and its caches are gone with it.                                        *)
reset_database(n) ==
  /\ tool = "reset" /\ todo = 0 /\ script.pc = "off" /\ n < tick
  /\ rows' = [i \in DOMAIN RowsIn(rows, 1..n) |-> rows[RowsIn(rows, 1..n)[i]]]
  /\ status' = [k \in Ticks |-> IF k > n THEN None ELSE status[k]]
  /\ points' = [k \in Ticks |-> IF k > n THEN None ELSE points[k]]
  /\ rank' = [k \in Ticks |-> IF k > n THEN None ELSE rank[k]]
  /\ exact' = exact \ (n + 1)..MaxTick
  /\ cache' = [cache EXCEPT !["master"] = NoCache]
  /\ tick' = n + 1
  /\ UNCHANGED <<todo, pc, script, algo, tool, failures, past>>

Next ==
  \/ \E f \in Flags, team \in Teams, t \in Ticks : Submit(f, team, t)
  \/ \E result \in Outcomes : EndTick(result)
  \/ ScoreTick \/ ScoreTickFails \/ PointsForRanking \/ RankTick
  \/ \E n \in Ticks : RecreateStart(n)
  \/ RecreateDelete \/ RecreateScore \/ RecreateRank
  \/ recompute_first_blood_flags
  \/ \E n \in Ticks : reset_database(n)

Spec == Init /\ [][Next]_vars

-----------------------------------------------------------------------------
(* Properties.                                                             *)

Attacked(t, n) == {f \in Flags : t \in Submitters(f, 1, n)}

(* Everyone who submitted a flag, early or late, has in the end the value  *)
(* it has with all its submissions, although each tick only adds or takes  *)
(* a difference; a victim has lost a flag once, whoever submitted it and   *)
(* in however many ticks (ScoreTickAlgorithmBase, saarctf algorithm).  All *)
(* values are of their types.                                              *)
FlagWorth ==
  /\ TypeOK
  /\ algo[1] = "saarctf" => \A n \in exact : points[n] # None => \A t \in Teams :
       /\ points[n][t].worth = MapThenSumSet(LAMBDA f : Worth[Cardinality(Submitters(f, 1, n))], Attacked(t, n))
       /\ points[n][t].stolen = Cardinality({f \in Flags : f.team = t /\ Submitters(f, 1, n) # {}})

(* What a row should be marked with: the number of teams its submitter has *)
(* robbed of this payload, if that is more than anyone had before.         *)
Victims(db, i, t) == {db[j].flag.team : j \in {j \in SameKey(db, i) : j <= i /\ db[j].by = t}}
Reached(db, i) == Cardinality(Victims(db, i, db[i].by))
Level(db, i) ==
  LET top == IF algo[2] = "multi" THEN Limit ELSE 1
      before == {0} \cup {Reached(db, j) : j \in {j \in SameKey(db, i) : j < i}}
  IN IF Reached(db, i) <= top /\ \A m \in before : m < Reached(db, i) THEN Reached(db, i) ELSE 0

(* The first bloods of the scored ticks are the true ones whatever failed, *)
(* was repeated, was computed again or was reset: none lost with a         *)
(* transaction, none given twice (get_firstbloods, reset_caches; the       *)
(* default algorithm when recreate_firstblood.py was not run).             *)
FirstBloodsRight ==
  past.inorder /\ (algo[2] = "multi" \/ ~past.recomputed) => \A i \in DOMAIN rows :
    rows[i].tick \in exact => rows[i].fb = Level(rows, i)

(* Once recreate_ranking.py has gone through all ticks from the first, and *)
(* no flag came in meanwhile, their points count every row of the table    *)
(* and the rankings are those of the points, also when a tick ended and    *)
(* was scored while the script was running.                                *)
RecreatedRight ==
  script.pc = "done" /\ script.clean => \A n \in 1..script.end :
    n \in exact /\ points[n] # None /\ rank[n] = Ranking(points[n])

CountRank(total, t) ==
  1 + Cardinality({u \in DOMAIN total : total[u] > 0 /\ total[u] > total[t]})

(* In the ranking that is about to be stored, a rank is one more than the  *)
(* number of teams with more points, where all teams without points share  *)
(* the last one; and a scoreboard without some teams has the ranks it      *)
(* would have had without them, if none of them shared a rank with a team  *)
(* that stays; the exported standings then put no team before one that has *)
(* more points, also after the points of the NOP team were taken off       *)
(* (_order_by_points, FilteredScoringCalculation, create_ctftime_json).    *)
RanksRight ==
  \A n \in {n \in {todo} \ {0} : pc = "rank" /\ points[n] # None} :
    LET total == [t \in Teams |-> Total(points[n][t])]
        all == order_by_points(total)
    IN \A X \in SUBSET Teams :
         LET seen == Filtered(all, total, X, IF 1 \in X THEN total[1] ELSE 0)
             pos == Standings(seen)
         IN (\A x \in X, t \in Teams \ X : all[x] # all[t]) =>
              /\ \A t \in Teams \ X : seen[t].rank = CountRank([u \in Teams \ X |-> total[u]], t)
              /\ \A t, u \in DOMAIN pos : pos[t].points > pos[u].points => pos[t].rank < pos[u].rank
=============================================================================
