--------------------------- MODULE FlagSubmission ---------------------------
(***************************************************************************)
(* The flag submission server (flag-submission-server/src): worker threads *)
(* that check flags, look them up in a shared lossy cache and insert them  *)
(* into the database, and the main thread, which follows the clock of the  *)
(* game over Redis and grows the tables when teams are added.              *)
(*                                                                         *)
(* A flag is its decoded record; mac says whether its HMAC is right.  The  *)
(* game's master timer and the database are modelled as far as the server  *)
(* sees them.                                                              *)
(***************************************************************************)
EXTENDS Integers, Sequences

CONSTANTS
  Workers,        (* worker threads                                        *)
  Submitters,     (* team ids that get_team_id_from_ip returns             *)
  Flags,          (* decoded flags that are submitted                      *)
  NopTeam,        (* Config::nopTeamId, 0 if there is none                 *)
  Valid,          (* Config::flagRoundsValid                               *)
  RoundBuckets, PayloadBuckets,   (* size of the cache                     *)
  MaxService,     (* max_service_id                                        *)
  MinTeams,       (* least size of the team table                          *)
  FirstTeams,     (* teams registered when the server starts               *)
  MaxTick,        (* bound: ticks of the game                              *)
  MaxTeams,       (* bound: teams that register                            *)
  MaxFaults,      (* bound: lost Redis connections and dying servers       *)
  MaxErrors       (* bound: failing inserts                                *)

Flag == [team: Nat, service: Nat, round: Nat, payload: Nat, mac: BOOLEAN]

ASSUME SubmissionAssumption ==
  /\ Submitters \subseteq Nat /\ Flags \subseteq Flag
  /\ NopTeam \in Nat /\ Valid \in Nat
  /\ RoundBuckets \in Nat \ {0} /\ PayloadBuckets \in Nat \ {0}
  /\ MaxService \in Nat /\ MinTeams \in Nat /\ FirstTeams \in Nat /\ MaxTick \in Nat /\ MaxTeams \in Nat
  /\ MaxFaults \in Nat /\ MaxErrors \in Nat

VARIABLES
  tick,       (* the master timer's tick                                   *)
  gameState,  (* the master timer's state                                  *)
  pending,    (* keys the master has still to announce                     *)
  keys,       (* timing:state and timing:currentRound, "nil" and -1 if absent *)
  stage,      (* commands of the Redis connection executed, 0 if it is down *)
  chan,       (* replies and messages the main thread has not handled      *)
  state,      (* Redis::state                                              *)
  round,      (* Redis::current_round                                      *)
  teams,      (* highest team id in the database                           *)
  maxTeam,    (* max_team_id                                               *)
  cache,      (* flag_cache                                                *)
  job,        (* what each worker is doing                                 *)
  rows,       (* table submitted_flags                                     *)
  oks,        (* history: "[OK]" answers                                   *)
  refused,    (* history: told "Already submitted", neither stored nor     *)
              (* being stored                                              *)
  failed,     (* history: inserts that failed                              *)
  missed,     (* history: an announcement fell between GET and SUBSCRIBE   *)
  faults, errors

game == <<tick, gameState, pending>>
clock == <<state, round>>
tables == <<teams, maxTeam>>
history == <<oks, refused, failed>>
vars == <<game, keys, stage, chan, clock, tables, cache, job, rows, history, missed, faults, errors>>

KeyNames == {"state", "round"}
States == {"STOPPED", "SUSPENDED", "RUNNING"}
Pairs == Submitters \X Flags
(* flag_cache: a slot holds the round and payload of the last flag that    *)
(* was looked up there.                                                    *)
Slot(by, f) == <<by, f.service, f.team, f.round % RoundBuckets, f.payload % PayloadBuckets>>
(* Mutant: the payload is left out of the cache's key.                     *)
CacheKeyOfRound(f) == <<f.round, 0>>

CacheKey(f) == <<f.round, f.payload>>
Slots == {Slot(p[1], p[2]) : p \in Pairs}
Empty == <<0, 0>>

(* The reply to a GET or a published message: the value of one key.        *)
Message ==
  [reply: BOOLEAN, key: {"state"}, val: States] \cup [reply: BOOLEAN, key: {"round"}, val: Nat]

Idle == [at |-> "idle"]
Busy == [at: {"cache", "insert"}, by: Submitters, flag: Flags, seen: Int]

TypeOK ==
  /\ tick \in Nat /\ gameState \in States
  /\ pending \in Seq(KeyNames)
  /\ keys \in [state: States \cup {"nil"}, round: Nat \cup {-1}]
  /\ stage \in 0..4
  /\ chan \in Seq(Message)
  /\ state \in States /\ round \in Int
  /\ teams \in Nat /\ maxTeam \in Nat
  /\ cache \in [Slots -> Nat \X Nat]
  /\ job \in [Workers -> {Idle} \cup Busy]
  /\ rows \subseteq [by: Submitters, flag: Flags, tick: Int]
  /\ oks \in [Pairs -> Nat]
  /\ refused \subseteq Pairs /\ failed \subseteq Pairs
  /\ missed \in BOOLEAN
  /\ faults \in Nat /\ errors \in Nat

Larger(a, b) == IF a >= b THEN a ELSE b
NoEntries == [x \in Slots |-> Empty]

Init ==
  /\ tick = 0 /\ gameState = "STOPPED" /\ pending = <<>>
  /\ keys = [state |-> "nil", round |-> -1]
  /\ stage = 0 /\ chan = <<>>
  /\ state = "STOPPED" /\ round = -1
  /\ teams = FirstTeams /\ maxTeam = Larger(MinTeams, FirstTeams + 2)
  /\ cache = NoEntries
  /\ job = [w \in Workers |-> Idle]
  /\ rows = {}
  /\ oks = [p \in Pairs |-> 0] /\ refused = {} /\ failed = {}
  /\ missed = FALSE /\ faults = 0 /\ errors = 0

-----------------------------------------------------------------------------
(* The master timer, as the server sees it: on_update_times announces the  *)
(* state and then the tick.  An announcement arrives, the commands of a    *)
(* new Redis connection are executed, and a submission that began before   *)
(* an announcement is answered, within the tick.                           *)

Announcements == <<"state", "round">>

BeginTick ==
  /\ tick < MaxTick /\ pending = <<>> /\ chan = <<>> /\ stage \in {0, 4}
  /\ \A w \in Workers : job[w] # Idle => job[w].seen = tick
  /\ tick' = tick + 1 /\ gameState' = "RUNNING"
  /\ pending' = Announcements
  /\ UNCHANGED <<keys, stage, chan, clock, tables, cache, job, rows, history, missed, faults, errors>>

EndGame(s) ==
  /\ gameState = "RUNNING" /\ pending = <<>>
  /\ gameState' = s /\ pending' = Announcements
  /\ UNCHANGED <<tick, keys, stage, chan, clock, tables, cache, job, rows, history, missed, faults, errors>>

(* The keys the server has asked for and the keys it is subscribed to.     *)
Read(k) == stage >= IF k = "state" THEN 1 ELSE 2
Subscribed(k) == stage >= IF k = "state" THEN 3 ELSE 4

Value(reply, k, v) == [reply |-> reply, key |-> k, val |-> v]

(* redis_set_and_publish of one key.                                       *)
Announce ==
  /\ pending # <<>>
  /\ LET k == Head(pending)
         v == IF k = "state" THEN gameState ELSE tick
     IN /\ keys' = [keys EXCEPT ![k] = v]
        /\ chan' = IF Subscribed(k) THEN Append(chan, Value(FALSE, k, v)) ELSE chan
        /\ missed' = (missed \/ (Read(k) /\ ~Subscribed(k)))
  /\ pending' = Tail(pending)
  /\ UNCHANGED <<tick, gameState, stage, clock, tables, cache, job, rows, history, faults, errors>>

-----------------------------------------------------------------------------
(* The main thread: Redis.                                                 *)

(* Mutant: the tick is not read, only subscribed to.                       *)
onDatabaseSelectedStateOnly ==
  /\ stage < 4
  /\ stage' = stage + 1
  /\ chan' = IF stage = 0 /\ keys.state # "nil" THEN Append(chan, Value(TRUE, "state", keys.state)) ELSE chan
  /\ missed' = (missed /\ stage # 0)
  /\ UNCHANGED <<game, keys, clock, tables, cache, job, rows, history, faults, errors>>

(* onDatabaseSelected's four commands, executed by Redis in this order:    *)
(* GET state, GET currentRound, SUBSCRIBE state, SUBSCRIBE currentRound.   *)
onDatabaseSelected ==
  /\ stage < 4
  /\ stage' = stage + 1
  /\ chan' = IF stage = 0 /\ keys.state # "nil" THEN Append(chan, Value(TRUE, "state", keys.state))
              ELSE IF stage = 1 /\ keys.round # -1 THEN Append(chan, Value(TRUE, "round", keys.round))
              ELSE chan
  /\ missed' = (missed /\ stage # 0)
  /\ UNCHANGED <<game, keys, clock, tables, cache, job, rows, history, faults, errors>>

(* onGetKey and onHandleMessage: setCurrentState, setCurrentRound.         *)
Hear ==
  /\ chan # <<>>
  /\ state' = IF Head(chan).key = "state" THEN Head(chan).val ELSE state
  /\ round' = IF Head(chan).key = "round" THEN Head(chan).val ELSE round
  /\ chan' = Tail(chan)
  /\ UNCHANGED <<game, keys, stage, tables, cache, job, rows, history, missed, faults, errors>>

(* The connection is lost and opened again; a connection lost before the   *)
(* GETs are answered ends the process, see Terminate.                      *)
onDisconnect ==
  /\ faults < MaxFaults /\ faults' = faults + 1
  /\ stage = 4 /\ \A i \in 1..Len(chan) : ~chan[i].reply
  /\ stage' = 0 /\ chan' = <<>>
  /\ UNCHANGED <<game, keys, clock, tables, cache, job, rows, history, missed, errors>>

(* The process ends and is started again.                                  *)
Terminate ==
  /\ faults < MaxFaults /\ faults' = faults + 1
  /\ stage' = 0 /\ chan' = <<>>
  /\ state' = "STOPPED" /\ round' = -1
  /\ maxTeam' = Larger(MinTeams, teams + 2) /\ cache' = NoEntries
  /\ job' = [w \in Workers |-> Idle]
  /\ UNCHANGED <<game, keys, teams, rows, history, missed, errors>>

(* The main thread: PeriodicMaintenance.  A larger table starts empty.     *)
RegisterTeam ==
  /\ teams < MaxTeams
  /\ teams' = teams + 1
  /\ UNCHANGED <<game, keys, stage, chan, clock, maxTeam, cache, job, rows, history, missed, faults, errors>>

checkDatabase ==
  /\ teams + 1 > maxTeam
  /\ maxTeam' = teams + 1 /\ cache' = NoEntries
  /\ UNCHANGED <<game, keys, stage, chan, clock, teams, job, rows, history, missed, faults, errors>>

-----------------------------------------------------------------------------
(* The worker threads: progress_flag.  A flag that is turned down by the   *)
(* first checks changes nothing.                                           *)

IsTestFlag(f) == f.service >= 65534
IsNop(team) == NopTeam # 0 /\ team = NopTeam
(* Mutant: a flag is accepted one tick too long.                           *)
ExpiredLate(f) == f.round + Valid + 1 < round

Expired(f) == f.round + Valid < round

Admissible(by, f) ==
  /\ ~IsTestFlag(f)
  /\ state = "RUNNING"
  /\ by # 0 /\ by <= maxTeam
  /\ f.service <= MaxService /\ f.team <= maxTeam
  /\ ~IsNop(f.team) /\ ~IsNop(by)
  /\ f.round <= 32767
  /\ by # f.team
  /\ ~Expired(f)
  /\ f.mac

(* Who has the right HMAC has the flag from the game: of a tick that began.*)
Issued(f) == f.mac /\ f.round <= 32767 => f.round \in 1..tick

Submit(w, by, f) ==
  /\ job[w] = Idle /\ Issued(f)
  /\ Admissible(by, f)
  /\ job' = [job EXCEPT ![w] = [at |-> "cache", by |-> by, flag |-> f, seen |-> round]]
  /\ UNCHANGED <<game, keys, stage, chan, clock, tables, cache, rows, history, missed, faults, errors>>

Stored == {<<r.by, r.flag>> : r \in rows}
Pair(w) == <<job[w].by, job[w].flag>>
At(w, pc) == job[w] # Idle /\ job[w].at = pc
BeingStored(p) == \E w \in Workers : At(w, "insert") /\ Pair(w) = p
Done(w) == job' = [job EXCEPT ![w] = Idle]

(* checkFlag uses the cache for ids within the table only.                 *)
InTable(by, f) == by \in 1..maxTeam /\ f.team \in 1..maxTeam /\ f.service \in 1..MaxService
(* Mutant: any flag of the same round counts as cached.                    *)
CachedRound(by, f) == InTable(by, f) /\ cache[Slot(by, f)][1] = f.round

Cached(by, f) == InTable(by, f) /\ cache[Slot(by, f)] = CacheKey(f)

(* FlagCache::checkFlag: one atomic exchange.                              *)
AlreadyCached(w) ==
  /\ At(w, "cache") /\ Cached(job[w].by, job[w].flag)
  /\ refused' = refused \cup ({Pair(w)} \ (Stored \cup {p \in Pairs : BeingStored(p)}))
  /\ Done(w)
  /\ UNCHANGED <<game, keys, stage, chan, clock, tables, cache, rows, oks, failed, missed, faults, errors>>

NotCached(w) ==
  /\ At(w, "cache") /\ ~Cached(job[w].by, job[w].flag)
  /\ cache' = IF InTable(job[w].by, job[w].flag)
                THEN [cache EXCEPT ![Slot(job[w].by, job[w].flag)] = CacheKey(job[w].flag)]
                ELSE cache
  /\ job' = [job EXCEPT ![w].at = "insert"]
  /\ UNCHANGED <<game, keys, stage, chan, clock, tables, rows, history, missed, faults, errors>>

(* insertFlag: the row gets the round of this moment.                      *)
Row(w) == [by |-> job[w].by, flag |-> job[w].flag, tick |-> round]

InsertNew(w) ==
  /\ At(w, "insert") /\ Pair(w) \notin Stored
  /\ rows' = rows \cup {Row(w)}
  /\ oks' = [oks EXCEPT ![Pair(w)] = @ + 1]
  /\ Done(w)
  /\ UNCHANGED <<game, keys, stage, chan, clock, tables, cache, refused, failed, missed, faults, errors>>

(* Mutant: a conflicting insert is answered with "[OK]".                   *)
InsertConflictOk(w) ==
  /\ At(w, "insert") /\ Pair(w) \in Stored
  /\ oks' = [oks EXCEPT ![Pair(w)] = @ + 1]
  /\ Done(w)
  /\ UNCHANGED <<game, keys, stage, chan, clock, tables, cache, rows, refused, failed, missed, faults, errors>>

(* ON CONFLICT DO NOTHING                                                  *)
InsertConflict(w) ==
  /\ At(w, "insert") /\ Pair(w) \in Stored
  /\ Done(w)
  /\ UNCHANGED <<game, keys, stage, chan, clock, tables, cache, rows, history, missed, faults, errors>>

InsertFails(w) ==
  /\ At(w, "insert")
  /\ errors < MaxErrors /\ errors' = errors + 1
  /\ failed' = failed \cup {Pair(w)}
  /\ Done(w)
  /\ UNCHANGED <<game, keys, stage, chan, clock, tables, cache, rows, oks, refused, missed, faults>>

(* The connection breaks after the database has committed the row.         *)
InsertUnanswered(w) ==
  /\ At(w, "insert") /\ Pair(w) \notin Stored
  /\ errors < MaxErrors /\ errors' = errors + 1
  /\ rows' = rows \cup {Row(w)}
  /\ Done(w)
  /\ UNCHANGED <<game, keys, stage, chan, clock, tables, cache, history, missed, faults>>

Game == BeginTick \/ (\E s \in States \ {"RUNNING"} : EndGame(s)) \/ Announce
MainThread ==
  onDatabaseSelected \/ Hear \/ onDisconnect \/ Terminate \/ RegisterTeam \/ checkDatabase
Worker(w) ==
  \/ \E p \in Pairs : Submit(w, p[1], p[2])
  \/ AlreadyCached(w) \/ NotCached(w)
  \/ InsertNew(w) \/ InsertConflict(w) \/ InsertFails(w) \/ InsertUnanswered(w)

Next == Game \/ MainThread \/ \E w \in Workers : Worker(w)

Spec == Init /\ [][Next]_vars
-----------------------------------------------------------------------------
(* Properties.                                                             *)

(* The server keeps the ledger of SubmissionLedger: the table never holds  *)
(* a pair twice or loses one, and "[OK]" is answered once, exactly for the *)
(* submission that inserted the row, though several threads, the lossy     *)
(* cache and restarts are involved (progress_flag, insertFlag).            *)
Ledger == INSTANCE SubmissionLedger WITH ledger <- Stored, told <- oks
KeepsLedger == Ledger!LedgerSpec

(* A cache entry stands for a row, a row about to be written, or an insert *)
(* that failed: eviction, resets and collisions never turn a new flag into *)
(* a resubmission (FlagCache::checkFlag).                                  *)
CacheSound ==
  \A p \in Pairs :
    p[2].mac /\ p[2].round # 0 /\ cache[Slot(p[1], p[2])] = CacheKey(p[2]) =>
      p \in Stored \/ BeingStored(p) \/ p \in failed

(* What a worker has checked: the flag comes from the game.                *)
JobsSound == \A w \in Workers : job[w] # Idle => job[w].flag.mac /\ job[w].flag.round # 0

(* "Already submitted" is answered for a flag that is not stored only if   *)
(* the database failed on it before.                                       *)
RefusedOnlyAfterError == refused \subseteq failed

(* All rows of one flag lie in the window of ticks in which the scoring    *)
(* looks for earlier submissions of it (scoring.py, tick_submitted >= tick *)
(* - flags_rounds_valid - 2), although a flag may arrive before its tick   *)
(* is announced and may expire between the check and the insert, as long   *)
(* as the server never lost Redis and no announcement fell between GET and *)
(* SUBSCRIBE.  Rows written before the server knew any tick (-1) are not   *)
(* scored at all.                                                          *)
SameFlagWindow ==
  faults = 0 /\ ~missed => \A r, q \in rows :
    r.flag = q.flag /\ r.tick # -1 /\ q.tick # -1 => r.tick - q.tick <= Valid + 2

(* When nothing is under way the server follows the game, unless an        *)
(* announcement fell into the gap between GET and SUBSCRIBE.               *)
Follows ==
  stage = 4 /\ chan = <<>> /\ ~missed =>
    /\ keys.state # "nil" => state = keys.state
    /\ keys.round # -1 => round = keys.round

(* "Already submitted" means that the flag has been stored: a cache hit is *)
(* definitely not new.                                                     *)
RefusedIsOld == refused = {}
=============================================================================
