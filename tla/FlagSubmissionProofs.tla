------------------------ MODULE FlagSubmissionProofs ------------------------
(* Theorems about the flag submission server, for every number of workers,  *)
(* teams and flags and every size of the cache.                             *)
EXTENDS FlagSubmission, TLAPS

(* A worker that is not idle holds a pair.                                  *)
LEMMA BusyJob ==
  ASSUME TypeOK, NEW w \in Workers, job[w] # Idle
  PROVE  /\ job[w] \in Busy /\ job[w].by \in Submitters /\ job[w].flag \in Flags
         /\ Pair(w) \in Pairs /\ Pair(w)[1] = job[w].by /\ Pair(w)[2] = job[w].flag
BY DEF TypeOK, Busy, Pair, Pairs

(* Every slot a pair uses is a slot of the cache.                           *)
LEMMA SlotType ==
  ASSUME NEW p \in Pairs
  PROVE  Slot(p[1], p[2]) \in Slots
BY DEF Slots

(* The entries of the cache are pairs of numbers.                           *)
LEMMA CacheKeyType ==
  ASSUME NEW f \in Flags
  PROVE  CacheKey(f) \in Nat \X Nat
BY SubmissionAssumption DEF CacheKey, Flag

(* An empty cache is a cache.                                               *)
LEMMA NoEntriesType == NoEntries \in [Slots -> Nat \X Nat]
BY DEF NoEntries, Empty

(* An announcement or reply is a message.                                   *)
LEMMA ValueType ==
  ASSUME NEW reply \in BOOLEAN
  PROVE  /\ \A v \in States : Value(reply, "state", v) \in Message
         /\ \A v \in Nat : Value(reply, "round", v) \in Message
BY DEF Value, Message

(* Sending a message keeps the channel's type.                              *)
LEMMA AppendType ==
  ASSUME NEW q \in Seq(Message), NEW e \in Message
  PROVE  Append(q, e) \in Seq(Message)
OBVIOUS

(* The larger of two numbers is a number.                                   *)
LEMMA LargerType ==
  ASSUME NEW a \in Nat, NEW b \in Nat
  PROVE  Larger(a, b) \in Nat
BY DEF Larger

(* The steps of the game keep the types.                                    *)
LEMMA GameTypes == TypeOK /\ Game => TypeOK'
<1> SUFFICES ASSUME TypeOK, Game PROVE TypeOK'
  OBVIOUS
<1>1. Announcements \in Seq(KeyNames)
  BY DEF Announcements, KeyNames
<1>2. CASE BeginTick
  BY <1>1, <1>2 DEF TypeOK, BeginTick, States, clock, tables, history
<1>3. ASSUME NEW st \in States \ {"RUNNING"}, EndGame(st) PROVE TypeOK'
  BY <1>1, <1>3 DEF TypeOK, EndGame, clock, tables, history
<1>4. CASE Announce
  <2> DEFINE k == Head(pending)
             v == IF k = "state" THEN gameState ELSE tick
  <2>1. k \in {"state", "round"} /\ Tail(pending) \in Seq(KeyNames)
    BY <1>4 DEF TypeOK, Announce, KeyNames
  <2>2. CASE k = "state"
    <3>1. v \in States
      BY <2>2 DEF TypeOK
    <3>2. Value(FALSE, k, v) \in Message
      BY <2>2, <3>1, ValueType
    <3>3. keys' = [keys EXCEPT !.state = v]
      BY <1>4, <2>2 DEF Announce
    <3>4. keys' \in [state: States \cup {"nil"}, round: Nat \cup {-1}]
      BY <3>1, <3>3 DEF TypeOK
    <3>5. chan' = Append(chan, Value(FALSE, k, v)) \/ chan' = chan
      BY <1>4 DEF Announce
    <3>6. chan' \in Seq(Message) /\ missed' \in BOOLEAN
      BY <1>4, <3>2, <3>5, AppendType DEF TypeOK, Announce
    <3> QED
      BY <1>4, <2>1, <3>4, <3>6 DEF TypeOK, Announce, clock, tables, history
  <2>3. CASE k = "round"
    <3>1. v \in Nat
      BY <2>3 DEF TypeOK
    <3>2. Value(FALSE, k, v) \in Message
      BY <2>3, <3>1, ValueType
    <3>3. keys' = [keys EXCEPT !.round = v]
      BY <1>4, <2>3 DEF Announce
    <3>4. keys' \in [state: States \cup {"nil"}, round: Nat \cup {-1}]
      BY <3>1, <3>3 DEF TypeOK
    <3>5. chan' = Append(chan, Value(FALSE, k, v)) \/ chan' = chan
      BY <1>4 DEF Announce
    <3>6. chan' \in Seq(Message) /\ missed' \in BOOLEAN
      BY <1>4, <3>2, <3>5, AppendType DEF TypeOK, Announce
    <3> QED
      BY <1>4, <2>1, <3>4, <3>6 DEF TypeOK, Announce, clock, tables, history
  <2> QED
    BY <2>1, <2>2, <2>3
<1> QED
  BY <1>2, <1>3, <1>4 DEF Game

(* So do the steps of the main thread.                                      *)
LEMMA MainTypes == TypeOK /\ MainThread => TypeOK'
<1> SUFFICES ASSUME TypeOK, MainThread PROVE TypeOK'
  OBVIOUS
<1>1. CASE onDatabaseSelected
  <2>1. keys.state \in States \cup {"nil"} /\ keys.round \in Nat \cup {-1}
    BY DEF TypeOK
  <2>2. /\ keys.state # "nil" => Value(TRUE, "state", keys.state) \in Message
        /\ keys.round # -1 => Value(TRUE, "round", keys.round) \in Message
    BY <2>1, ValueType
  <2>3. chan' \in Seq(Message)
    <3>1. \/ keys.state # "nil" /\ chan' = Append(chan, Value(TRUE, "state", keys.state))
          \/ keys.round # -1 /\ chan' = Append(chan, Value(TRUE, "round", keys.round))
          \/ chan' = chan
      BY <1>1 DEF onDatabaseSelected
    <3> QED
      BY ZenonT(60), <2>2, <3>1, AppendType DEF TypeOK
  <2>4. missed' \in BOOLEAN /\ stage' \in 0..4
    BY <1>1 DEF TypeOK, onDatabaseSelected
  <2> QED
    BY <1>1, <2>3, <2>4 DEF TypeOK, onDatabaseSelected, game, clock, tables, history
<1>2. CASE Hear
  <2>1. Head(chan) \in Message /\ Tail(chan) \in Seq(Message)
    BY <1>2 DEF TypeOK, Hear
  <2>2. state' \in States /\ round' \in Int
    BY <1>2, <2>1 DEF TypeOK, Hear, Message
  <2> QED
    BY <1>2, <2>1, <2>2 DEF TypeOK, Hear, game, tables, history
<1>3. CASE onDisconnect
  BY <1>3 DEF TypeOK, onDisconnect, game, clock, tables, history
<1>4. CASE Terminate
  <2>1. maxTeam' \in Nat /\ cache' \in [Slots -> Nat \X Nat]
    BY <1>4, LargerType, NoEntriesType, SubmissionAssumption DEF TypeOK, Terminate
  <2> QED
    BY <1>4, <2>1 DEF TypeOK, Terminate, game, history, States
<1>5. CASE RegisterTeam
  BY <1>5 DEF TypeOK, RegisterTeam, game, clock, history
<1>6. CASE checkDatabase
  BY <1>6, NoEntriesType DEF TypeOK, checkDatabase, game, clock, history
<1> QED
  BY <1>1, <1>2, <1>3, <1>4, <1>5, <1>6 DEF MainThread

(* A worker that is done keeps the type of the jobs.                        *)
LEMMA DoneType ==
  ASSUME TypeOK, NEW w \in Workers, Done(w)
  PROVE  job' \in [Workers -> {Idle} \cup Busy]
BY DEF TypeOK, Done

(* The row a worker writes is a row.                                        *)
LEMMA RowType ==
  ASSUME TypeOK, NEW w \in Workers, At(w, "insert")
  PROVE  Row(w) \in [by: Submitters, flag: Flags, tick: Int]
BY BusyJob DEF TypeOK, At, Row

(* So do the steps of the workers.                                          *)
LEMMA WorkerTypes ==
  ASSUME TypeOK, NEW w \in Workers, Worker(w)
  PROVE  TypeOK'
<1>1. ASSUME NEW p \in Pairs, Submit(w, p[1], p[2]) PROVE TypeOK'
  <2>1. p[1] \in Submitters /\ p[2] \in Flags
    BY DEF Pairs
  <2>2. [at |-> "cache", by |-> p[1], flag |-> p[2], seen |-> round] \in Busy
    BY <2>1 DEF Busy, TypeOK
  <2>3. job' \in [Workers -> {Idle} \cup Busy]
    BY <1>1, <2>2 DEF TypeOK, Submit
  <2> QED
    BY <1>1, <2>3 DEF TypeOK, Submit, game, clock, tables, history
<1>2. CASE AlreadyCached(w)
  <2>1. Pair(w) \in Pairs
    BY <1>2, BusyJob DEF AlreadyCached, At
  <2>2. refused' \subseteq Pairs /\ job' \in [Workers -> {Idle} \cup Busy]
    BY <1>2, <2>1, DoneType DEF AlreadyCached, TypeOK
  <2> QED
    BY <1>2, <2>2 DEF TypeOK, AlreadyCached, game, clock, tables
<1>3. CASE NotCached(w)
  <2>1. job[w] \in Busy /\ job[w].flag \in Flags
    BY <1>3, BusyJob DEF NotCached, At
  <2>2. [job[w] EXCEPT !.at = "insert"] \in Busy
    BY <2>1 DEF Busy
  <2>3. job' = [job EXCEPT ![w] = [job[w] EXCEPT !.at = "insert"]]
    BY <1>3 DEF NotCached
  <2>4. job' \in [Workers -> {Idle} \cup Busy]
    BY <2>2, <2>3 DEF TypeOK
  <2>5. cache' \in [Slots -> Nat \X Nat]
    BY <1>3, <2>1, CacheKeyType DEF TypeOK, NotCached
  <2> QED
    BY <1>3, <2>4, <2>5 DEF TypeOK, NotCached, game, clock, tables, history
<1>4. CASE InsertNew(w)
  <2>1. Row(w) \in [by: Submitters, flag: Flags, tick: Int] /\ Pair(w) \in Pairs
    BY <1>4, RowType, BusyJob DEF InsertNew, At
  <2>2. oks' \in [Pairs -> Nat]
    BY <1>4, <2>1 DEF TypeOK, InsertNew
  <2>3. job' \in [Workers -> {Idle} \cup Busy]
    BY <1>4, DoneType DEF InsertNew
  <2> QED
    BY <1>4, <2>1, <2>2, <2>3 DEF TypeOK, InsertNew, game, clock, tables
<1>5. CASE InsertConflict(w)
  <2>1. job' \in [Workers -> {Idle} \cup Busy]
    BY <1>5, DoneType DEF InsertConflict
  <2> QED
    BY <1>5, <2>1 DEF TypeOK, InsertConflict, game, clock, tables, history
<1>6. CASE InsertFails(w)
  <2>1. Pair(w) \in Pairs /\ job' \in [Workers -> {Idle} \cup Busy]
    BY <1>6, BusyJob, DoneType DEF InsertFails, At
  <2> QED
    BY <1>6, <2>1 DEF TypeOK, InsertFails, game, clock, tables
<1>7. CASE InsertUnanswered(w)
  <2>1. /\ Row(w) \in [by: Submitters, flag: Flags, tick: Int]
        /\ job' \in [Workers -> {Idle} \cup Busy]
    BY <1>7, RowType, DoneType DEF InsertUnanswered
  <2> QED
    BY <1>7, <2>1 DEF TypeOK, InsertUnanswered, game, clock, tables, history
<1> QED
  BY <1>1, <1>2, <1>3, <1>4, <1>5, <1>6, <1>7 DEF Worker

(* TypeOK is inductive.                                                     *)
LEMMA TypeStep == TypeOK /\ [Next]_vars => TypeOK'
<1> SUFFICES ASSUME TypeOK, [Next]_vars PROVE TypeOK'
  OBVIOUS
<1>1. CASE UNCHANGED vars
  BY <1>1 DEF TypeOK, vars, game, clock, tables, history
<1> QED
  BY <1>1, GameTypes, MainTypes, WorkerTypes DEF Next

(* Every variable of the server keeps its type.                             *)
THEOREM SubmissionTypes == Spec => []TypeOK
<1>1. Init => TypeOK
  <2> SUFFICES ASSUME Init PROVE TypeOK
    OBVIOUS
  <2>1. maxTeam \in Nat /\ cache \in [Slots -> Nat \X Nat]
    BY LargerType, NoEntriesType, SubmissionAssumption DEF Init
  <2>2. keys \in [state: States \cup {"nil"}, round: Nat \cup {-1}]
    BY DEF Init
  <2>3. job \in [Workers -> {Idle} \cup Busy] /\ oks \in [Pairs -> Nat]
    BY DEF Init
  <2>4. teams \in Nat /\ state \in States /\ gameState \in States
    BY SubmissionAssumption DEF Init, States
  <2>5. missed \in BOOLEAN
    BY DEF Init
  <2>6. /\ tick \in Nat /\ pending \in Seq(KeyNames) /\ stage \in 0..4 /\ chan \in Seq(Message)
        /\ round \in Int /\ faults \in Nat /\ errors \in Nat
    BY DEF Init
  <2>7. /\ rows \subseteq [by: Submitters, flag: Flags, tick: Int]
        /\ refused \subseteq Pairs /\ failed \subseteq Pairs
    BY DEF Init
  <2> QED
    BY <2>1, <2>2, <2>3, <2>4, <2>5, <2>6, <2>7 DEF TypeOK
<1> QED
  BY <1>1, TypeStep, PTL DEF Spec

-----------------------------------------------------------------------------
(* An inserted row stores its pair.                                         *)
LEMMA StoredGrows ==
  ASSUME NEW w \in Workers, rows' = rows \cup {Row(w)}
  PROVE  Stored' = Stored \cup {Pair(w)}
<1>1. Row(w).by = job[w].by /\ Row(w).flag = job[w].flag
  BY DEF Row
<1>2. Stored' = {<<r.by, r.flag>> : r \in rows} \cup {<<Row(w).by, Row(w).flag>>}
  BY DEF Stored
<1> QED
  BY <1>1, <1>2 DEF Stored, Pair

(* A slot and the key in it name one flag with a right HMAC.                *)
LEMMA SlotNamesPair ==
  ASSUME NEW p \in Pairs, NEW q \in Pairs, p[2].mac, q[2].mac,
         Slot(p[1], p[2]) = Slot(q[1], q[2]), CacheKey(p[2]) = CacheKey(q[2])
  PROVE  p = q
<1>1. p[1] = q[1] /\ p[2].service = q[2].service /\ p[2].team = q[2].team
  BY DEF Slot
<1>2. p[2].round = q[2].round /\ p[2].payload = q[2].payload
  BY DEF CacheKey
<1>3. p[2] \in Flag /\ q[2] \in Flag
  BY SubmissionAssumption DEF Pairs
<1>4. p[2].mac = q[2].mac
  BY <1>3 DEF Flag
<1>5. p[2] = q[2]
  BY <1>1, <1>2, <1>3, <1>4 DEF Flag
<1> QED
  BY <1>1, <1>5 DEF Pairs

(* What the cache, the jobs and the refusals rest on.                       *)
SubmissionInv == CacheSound /\ JobsSound /\ RefusedOnlyAfterError

(* A step that leaves the cache, the jobs, the rows and the history alone.  *)
LEMMA ElsewhereKeepsCache ==
  ASSUME SubmissionInv, UNCHANGED <<cache, job, rows, failed, refused>>
  PROVE  SubmissionInv'
BY DEF SubmissionInv, CacheSound, JobsSound, RefusedOnlyAfterError, Stored, BeingStored, At, Pair

(* An empty cache is sound.                                                 *)
LEMMA EmptyCacheSound ==
  ASSUME cache' = NoEntries
  PROVE  CacheSound'
<1> SUFFICES ASSUME NEW p \in Pairs, p[2].round # 0 PROVE cache'[Slot(p[1], p[2])] # CacheKey(p[2])
  BY DEF CacheSound
<1> QED
  BY SlotType DEF NoEntries, Empty, CacheKey

(* A worker that is done with a pair which is stored or failed leaves the   *)
(* cache sound.                                                             *)
LEMMA DoneKeepsCache ==
  ASSUME TypeOK, SubmissionInv, NEW w \in Workers, job[w] # Idle, Done(w), cache' = cache,
         Stored \subseteq Stored', failed \subseteq failed',
         At(w, "insert") => Pair(w) \in Stored' \cup failed'
  PROVE  CacheSound' /\ JobsSound'
<1>1. \A v \in Workers : v # w => job'[v] = job[v]
  BY DEF Done, TypeOK
<1>2. job'[w] = Idle
  BY DEF Done, TypeOK
<1>3. JobsSound'
  BY <1>1, <1>2 DEF SubmissionInv, JobsSound
<1>4. ASSUME NEW p \in Pairs, BeingStored(p) PROVE p \in Stored' \/ BeingStored(p)' \/ p \in failed'
  <2> PICK v \in Workers : At(v, "insert") /\ Pair(v) = p
    BY <1>4 DEF BeingStored
  <2>1. CASE v = w
    BY <2>1
  <2>2. CASE v # w
    BY <1>1, <2>2 DEF BeingStored, At, Pair
  <2> QED
    BY <2>1, <2>2
<1>5. CacheSound'
  BY <1>4 DEF SubmissionInv, CacheSound
<1> QED
  BY <1>3, <1>5

(* Each step of a worker keeps the invariant.                               *)
LEMMA WorkerKeepsCache ==
  ASSUME TypeOK, SubmissionInv, NEW w \in Workers, Worker(w)
  PROVE  SubmissionInv'
<1>1. ASSUME NEW p \in Pairs, Submit(w, p[1], p[2]) PROVE SubmissionInv'
  <2> DEFINE j == [at |-> "cache", by |-> p[1], flag |-> p[2], seen |-> round]
  <2>1. /\ job[w] = Idle /\ job' = [job EXCEPT ![w] = j] /\ p[2].mac
        /\ UNCHANGED <<cache, rows, failed, refused>>
    BY <1>1 DEF Submit, Admissible, history
  <2>2. p[2].round # 0
    BY <1>1 DEF Submit, Admissible, Issued
  <2>3. job'[w] = j /\ \A v \in Workers : v # w => job'[v] = job[v]
    BY <2>1 DEF TypeOK
  <2>4. JobsSound'
    BY <2>1, <2>2, <2>3 DEF SubmissionInv, JobsSound
  <2>5. ASSUME NEW q \in Pairs, BeingStored(q) PROVE BeingStored(q)'
    <3> PICK v \in Workers : At(v, "insert") /\ Pair(v) = q
      BY <2>5 DEF BeingStored
    <3>1. v # w
      BY <2>1 DEF At
    <3> QED
      BY <2>3, <3>1 DEF BeingStored, At, Pair
  <2>6. CacheSound'
    BY <2>1, <2>5 DEF SubmissionInv, CacheSound, Stored
  <2> QED
    BY <2>1, <2>4, <2>6 DEF SubmissionInv, RefusedOnlyAfterError
<1>2. CASE AlreadyCached(w)
  <2>1. /\ job[w] # Idle /\ Done(w) /\ UNCHANGED <<cache, rows, failed>> /\ ~At(w, "insert")
        /\ refused' = refused \cup ({Pair(w)} \ (Stored \cup {p \in Pairs : BeingStored(p)}))
    BY <1>2 DEF AlreadyCached, At
  <2>2. Stored' = Stored
    BY <2>1 DEF Stored
  <2>3. CacheSound' /\ JobsSound'
    BY <2>1, <2>2, DoneKeepsCache
  <2>4. Pair(w) \in Pairs /\ Pair(w)[1] = job[w].by /\ Pair(w)[2] = job[w].flag
    BY <2>1, BusyJob
  <2>5. cache[Slot(job[w].by, job[w].flag)] = CacheKey(job[w].flag)
    BY <1>2 DEF AlreadyCached, Cached
  <2>6. job[w].flag.mac /\ job[w].flag.round # 0
    BY <2>1 DEF SubmissionInv, JobsSound
  <2>7. Pair(w) \in Stored \/ BeingStored(Pair(w)) \/ Pair(w) \in failed
    BY <2>4, <2>5, <2>6 DEF SubmissionInv, CacheSound
  <2>8. RefusedOnlyAfterError'
    BY <2>1, <2>4, <2>7 DEF SubmissionInv, RefusedOnlyAfterError
  <2> QED
    BY <2>3, <2>8 DEF SubmissionInv
<1>3. CASE NotCached(w)
  <2> DEFINE j == [job[w] EXCEPT !.at = "insert"]
  <2>1. /\ job[w] # Idle /\ job' = [job EXCEPT ![w] = j] /\ job[w].at = "cache"
        /\ UNCHANGED <<rows, failed, refused>>
        /\ cache' = cache \/ cache' = [cache EXCEPT ![Slot(job[w].by, job[w].flag)] = CacheKey(job[w].flag)]
    BY <1>3 DEF NotCached, At, history
  <2>2. PICK p \in Pairs : p = Pair(w) /\ p[1] = job[w].by /\ p[2] = job[w].flag /\ job[w] \in Busy
    BY <2>1, BusyJob
  <2>3. p[2].mac /\ p[2].round # 0
    BY <2>1, <2>2 DEF SubmissionInv, JobsSound
  <2>4. job'[w] = j /\ \A v \in Workers : v # w => job'[v] = job[v]
    BY <2>1 DEF TypeOK
  <2>5. j.at = "insert" /\ j.by = job[w].by /\ j.flag = job[w].flag
    BY <2>2 DEF Busy
  <2>6. job'[w] # Idle
    BY <2>4, <2>5 DEF Idle
  <2>7. JobsSound'
    BY <2>1, <2>4, <2>5 DEF SubmissionInv, JobsSound
  <2>8. BeingStored(p)'
    BY <2>2, <2>4, <2>5, <2>6 DEF BeingStored, At, Pair
  <2>9. ASSUME NEW q \in Pairs, BeingStored(q) PROVE BeingStored(q)'
    <3> PICK v \in Workers : At(v, "insert") /\ Pair(v) = q
      BY <2>9 DEF BeingStored
    <3>1. v # w
      BY <2>1 DEF At
    <3> QED
      BY <2>4, <3>1 DEF BeingStored, At, Pair
  <2>10. ASSUME NEW q \in Pairs, q[2].mac, q[2].round # 0,
                cache'[Slot(q[1], q[2])] = CacheKey(q[2])
         PROVE  q \in Stored' \/ BeingStored(q)' \/ q \in failed'
    <3>1. CASE cache[Slot(q[1], q[2])] = CacheKey(q[2])
      BY <2>1, <2>9, <2>10, <3>1 DEF SubmissionInv, CacheSound, Stored
    <3>2. CASE cache[Slot(q[1], q[2])] # CacheKey(q[2])
      <4>1. cache' = [cache EXCEPT ![Slot(p[1], p[2])] = CacheKey(p[2])]
        BY <2>1, <2>2, <2>10, <3>2
      <4>2. Slot(q[1], q[2]) \in Slots
        BY SlotType
      <4>3. Slot(q[1], q[2]) = Slot(p[1], p[2]) /\ CacheKey(q[2]) = CacheKey(p[2])
        BY <2>10, <3>2, <4>1, <4>2 DEF TypeOK
      <4>4. q = p
        BY <2>2, <2>3, <2>10, <4>3, SlotNamesPair
      <4> QED
        BY <2>8, <4>4
    <3> QED
      BY <3>1, <3>2
  <2>11. CacheSound'
    BY <2>10 DEF CacheSound
  <2> QED
    BY <2>1, <2>7, <2>11 DEF SubmissionInv, RefusedOnlyAfterError
<1>4. CASE InsertNew(w)
  <2>1. Stored' = Stored \cup {Pair(w)}
    BY <1>4, StoredGrows DEF InsertNew
  <2> QED
    BY <1>4, <2>1, DoneKeepsCache DEF InsertNew, At, SubmissionInv, RefusedOnlyAfterError
<1>5. CASE InsertConflict(w)
  <2>1. Stored' = Stored
    BY <1>5 DEF InsertConflict, Stored
  <2> QED
    BY <1>5, <2>1, DoneKeepsCache DEF InsertConflict, At, history, SubmissionInv, RefusedOnlyAfterError
<1>6. CASE InsertFails(w)
  <2>1. Stored' = Stored
    BY <1>6 DEF InsertFails, Stored
  <2> QED
    BY <1>6, <2>1, DoneKeepsCache DEF InsertFails, At, SubmissionInv, RefusedOnlyAfterError
<1>7. CASE InsertUnanswered(w)
  <2>1. Stored' = Stored \cup {Pair(w)}
    BY <1>7, StoredGrows DEF InsertUnanswered
  <2> QED
    BY <1>7, <2>1, DoneKeepsCache DEF InsertUnanswered, At, history, SubmissionInv, RefusedOnlyAfterError
<1> QED
  BY <1>1, <1>2, <1>3, <1>4, <1>5, <1>6, <1>7 DEF Worker

(* SubmissionInv is inductive, given the types.                             *)
LEMMA CacheStep == TypeOK /\ SubmissionInv /\ [Next]_vars => SubmissionInv'
<1> SUFFICES ASSUME TypeOK, SubmissionInv, [Next]_vars PROVE SubmissionInv'
  OBVIOUS
<1>1. CASE Game
  BY <1>1, ElsewhereKeepsCache DEF Game, BeginTick, EndGame, Announce, history
<1>2. CASE MainThread
  <2>1. CASE onDatabaseSelected \/ Hear \/ onDisconnect \/ RegisterTeam
    BY <2>1, ElsewhereKeepsCache
    DEF onDatabaseSelected, Hear, onDisconnect, RegisterTeam, history
  <2>2. CASE checkDatabase
    BY <2>2, EmptyCacheSound DEF checkDatabase, history, SubmissionInv, JobsSound, RefusedOnlyAfterError
  <2>3. CASE Terminate
    BY <2>3, EmptyCacheSound DEF Terminate, history, SubmissionInv, JobsSound, RefusedOnlyAfterError
  <2> QED
    BY <1>2, <2>1, <2>2, <2>3 DEF MainThread
<1>3. CASE UNCHANGED vars
  BY <1>3, ElsewhereKeepsCache DEF vars, history
<1> QED
  BY <1>1, <1>2, <1>3, WorkerKeepsCache DEF Next

(* The first state satisfies the invariant.                                 *)
LEMMA CacheInit == Init => SubmissionInv
<1> SUFFICES ASSUME Init PROVE SubmissionInv
  OBVIOUS
<1>1. CacheSound
  <2> SUFFICES ASSUME NEW p \in Pairs, p[2].round # 0 PROVE cache[Slot(p[1], p[2])] # CacheKey(p[2])
    BY DEF CacheSound
  <2> QED
    BY SlotType DEF Init, NoEntries, Empty, CacheKey
<1> QED
  BY <1>1 DEF Init, SubmissionInv, JobsSound, RefusedOnlyAfterError

(* However many threads submit however many flags, whatever the sizes of    *)
(* the cache, restarts, resizes and Redis faults: a flag is only turned     *)
(* down as a resubmission without being stored if an insert of it failed.   *)
THEOREM RefusalsJustified == Spec => []RefusedOnlyAfterError
<1>1. SubmissionInv => RefusedOnlyAfterError
  BY DEF SubmissionInv
<1> QED
  BY <1>1, CacheInit, CacheStep, SubmissionTypes, PTL DEF Spec

(* The entries of the cache stay sound.                                     *)
THEOREM CacheStaysSound == Spec => []CacheSound
<1>1. SubmissionInv => CacheSound
  BY DEF SubmissionInv
<1> QED
  BY <1>1, CacheInit, CacheStep, SubmissionTypes, PTL DEF Spec

-----------------------------------------------------------------------------
(* Every step of a worker is a step of the ledger or changes nothing in it. *)
LEMMA WorkerKeepsLedger ==
  ASSUME TypeOK, NEW w \in Workers, Worker(w)
  PROVE  Ledger!LedgerNext \/ UNCHANGED <<Stored, oks>>
<1>1. CASE InsertNew(w)
  <2>1. Pair(w) \in Pairs
    BY <1>1, BusyJob DEF InsertNew, At
  <2>2. Ledger!Accept(Pair(w))
    BY <1>1, StoredGrows DEF InsertNew, Ledger!Accept
  <2> QED
    BY <2>1, <2>2 DEF Ledger!LedgerNext
<1>2. CASE InsertUnanswered(w)
  <2>1. Pair(w) \in Pairs
    BY <1>2, BusyJob DEF InsertUnanswered, At
  <2>2. Ledger!RecordSilently(Pair(w))
    BY <1>2, StoredGrows DEF InsertUnanswered, Ledger!RecordSilently, history
  <2> QED
    BY <2>1, <2>2 DEF Ledger!LedgerNext
<1>3. CASE ~InsertNew(w) /\ ~InsertUnanswered(w)
  <2>1. UNCHANGED <<rows, oks>>
    BY <1>3 DEF Worker, Submit, AlreadyCached, NotCached, InsertConflict, InsertFails, history
  <2> QED
    BY <2>1 DEF Stored
<1> QED
  BY <1>1, <1>2, <1>3

(* The submission server implements the ledger: every pair is recorded at   *)
(* most once and for good, and "[OK]" is answered once, by the insert that  *)
(* recorded it, for any number of threads and any cache.                    *)
THEOREM ImplementsLedger == Spec => KeepsLedger
<1>1. Init => Ledger!LedgerInit
  BY DEF Init, Ledger!LedgerInit, Stored
<1>2. TypeOK /\ [Next]_vars => [Ledger!LedgerNext]_<<Stored, oks>>
  <2> SUFFICES ASSUME TypeOK, [Next]_vars PROVE Ledger!LedgerNext \/ UNCHANGED <<Stored, oks>>
    OBVIOUS
  <2>1. CASE Game
    BY <2>1 DEF Game, BeginTick, EndGame, Announce, history, Stored
  <2>2. CASE MainThread
    BY <2>2 DEF MainThread, onDatabaseSelected, Hear, onDisconnect, Terminate, RegisterTeam,
       checkDatabase, history, Stored
  <2>3. CASE UNCHANGED vars
    BY <2>3 DEF vars, history, Stored
  <2> QED
    BY <2>1, <2>2, <2>3, WorkerKeepsLedger DEF Next
<1> QED
  BY <1>1, <1>2, SubmissionTypes, PTL DEF Spec, KeepsLedger, Ledger!LedgerSpec

-----------------------------------------------------------------------------
(* The clock of the game on its way to the server.                          *)

(* What the server will have heard of a key when the channel is empty.      *)
Heard(k) == IF k = "state" THEN state ELSE round
Latest(k, v) ==
  \/ \E i \in 1..Len(chan) : /\ chan[i].key = k /\ chan[i].val = v
                             /\ \A j \in 1..Len(chan) : j > i => chan[j].key # k
  \/ /\ \A i \in 1..Len(chan) : chan[i].key # k
     /\ Heard(k) = v

(* From the GET on, the last value on its way is the one in Redis.          *)
FollowsInv ==
  ~missed => /\ Read("state") /\ keys.state # "nil" => Latest("state", keys.state)
             /\ Read("round") /\ keys.round # -1 => Latest("round", keys.round)

(* A server that never lost Redis misses nothing before it has asked for    *)
(* the clock, and one that missed nothing is at most one tick behind.       *)
NotAsked == faults = 0 /\ stage = 0 => ~missed
Steady == faults = 0 /\ ~missed
Recent(t) == t \in {tick - 1, tick}
TickInv ==
  /\ pending \in {<<>>, <<"round">>, Announcements}
  /\ gameState = "RUNNING" \/ pending # <<>> => tick >= 1
  /\ pending = <<>> => keys.round = tick \/ (keys.round = -1 /\ tick = 0)
  /\ keys.round = -1 \/ Recent(keys.round)
  /\ Steady =>
       /\ round = -1 \/ Recent(round)
       /\ stage = 0 => round = -1 /\ chan = <<>>
       /\ keys.round = -1 => round = -1
       /\ \A i \in 1..Len(chan) : chan[i].key = "round" => keys.round # -1 /\ Recent(chan[i].val)

(* What a worker is about to store, and what was stored.                    *)
Timely(j) ==
  /\ j.flag.round <= tick
  /\ \/ Recent(j.seen) /\ j.seen <= j.flag.round + Valid
     \/ j.seen = -1 /\ \A q \in rows : q.tick = -1 \/ Recent(q.tick)
InWindow(r) ==
  \/ r.tick = -1
  \/ /\ r.flag.round - 1 <= r.tick /\ r.tick <= tick
     /\ \/ r.tick <= r.flag.round + Valid + 1
        \/ \A q \in rows : q.tick = -1 \/ q.tick >= r.tick - 1
WindowInv ==
  Steady => /\ \A w \in Workers : job[w] # Idle => Timely(job[w])
            /\ \A r \in rows : InWindow(r)
            /\ round = -1 => \A r \in rows : r.tick = -1

(* A channel with one more message.                                         *)
LEMMA AppendIndex ==
  ASSUME NEW q \in Seq(Message), NEW e \in Message, NEW i \in 1..Len(Append(q, e))
  PROVE  \/ i \in 1..Len(q) /\ Append(q, e)[i] = q[i]
         \/ i = Len(q) + 1 /\ Append(q, e)[i] = e
OBVIOUS

(* A message that is sent is the latest of its key, and leaves the other    *)
(* key alone.                                                               *)
LEMMA SentIsLatest ==
  ASSUME TypeOK, NEW e \in Message, chan' = Append(chan, e), UNCHANGED clock
  PROVE  /\ Latest(e.key, e.val)'
         /\ \A k, v : k # e.key /\ Latest(k, v) => Latest(k, v)'
<1>1. /\ chan \in Seq(Message) /\ Len(chan) \in Nat /\ Len(chan') = Len(chan) + 1
      /\ chan'[Len(chan) + 1] = e
      /\ \A i \in 1..Len(chan) : chan'[i] = chan[i]
  BY DEF TypeOK
<1>2. Latest(e.key, e.val)'
  <2>1. Len(chan) + 1 \in 1..Len(chan')
    BY <1>1
  <2>2. \A j \in 1..Len(chan') : ~(j > Len(chan) + 1)
    BY <1>1
  <2> QED
    BY <1>1, <2>1, <2>2 DEF Latest
<1>3. ASSUME NEW k, NEW v, k # e.key, Latest(k, v) PROVE Latest(k, v)'
  <2>1. \A j \in 1..Len(chan') : j \in 1..Len(chan) \/ j = Len(chan) + 1
    BY <1>1
  <2>2. ASSUME NEW i \in 1..Len(chan), chan[i].key = k, chan[i].val = v,
               \A j \in 1..Len(chan) : j > i => chan[j].key # k
        PROVE  Latest(k, v)'
    <3>1. i \in 1..Len(chan') /\ chan'[i] = chan[i]
      BY <1>1
    <3>2. \A j \in 1..Len(chan') : j > i => chan'[j].key # k
      BY <1>1, <1>3, <2>1, <2>2
    <3> QED
      BY <2>2, <3>1, <3>2 DEF Latest
  <2>3. CASE (\A i \in 1..Len(chan) : chan[i].key # k) /\ Heard(k) = v
    <3>1. \A j \in 1..Len(chan') : chan'[j].key # k
      BY <1>1, <1>3, <2>1, <2>3
    <3>2. Heard(k)' = Heard(k)
      BY DEF Heard, clock
    <3> QED
      BY <2>3, <3>1, <3>2 DEF Latest
  <2> QED
    BY <1>3, <2>2, <2>3 DEF Latest
<1> QED
  BY <1>2, <1>3

(* A message that is heard changes nothing about what is the latest.        *)
LEMMA HearingKeepsLatest ==
  ASSUME TypeOK, Hear, NEW k \in KeyNames, NEW v, Latest(k, v)
  PROVE  Latest(k, v)'
<1>1. /\ chan \in Seq(Message) /\ Len(chan) \in Nat /\ Len(chan) >= 1
      /\ Len(chan') = Len(chan) - 1 /\ chan[1] \in Message
      /\ \A i \in 1..Len(chan') : chan'[i] = chan[i + 1]
  BY DEF TypeOK, Hear
<1>2. chan[1].key \in KeyNames
  BY <1>1 DEF Message, KeyNames
<1>3. Heard(k)' = IF chan[1].key = k THEN chan[1].val ELSE Heard(k)
  BY <1>1, <1>2 DEF Hear, Heard, KeyNames
<1>4. ASSUME NEW i \in 1..Len(chan), chan[i].key = k, chan[i].val = v,
             \A j \in 1..Len(chan) : j > i => chan[j].key # k
      PROVE  Latest(k, v)'
  <2>1. CASE i = 1
    <3>1. \A j \in 1..Len(chan') : chan'[j].key # k
      <4>1. \A j \in 1..Len(chan') : j + 1 \in 1..Len(chan) /\ j + 1 > i
        BY <1>1, <2>1
      <4> QED
        BY <1>1, <1>4, <4>1
    <3> QED
      BY <1>3, <1>4, <2>1, <3>1 DEF Latest
  <2>2. CASE i # 1
    <3>1. i - 1 \in 1..Len(chan') /\ chan'[i - 1] = chan[i]
      BY <1>1, <2>2
    <3>2. \A j \in 1..Len(chan') : j > i - 1 => chan'[j].key # k
      <4>1. \A j \in 1..Len(chan') : j > i - 1 => j + 1 \in 1..Len(chan) /\ j + 1 > i
        BY <1>1
      <4> QED
        BY <1>1, <1>4, <4>1
    <3> QED
      BY <1>4, <3>1, <3>2 DEF Latest
  <2> QED
    BY <2>1, <2>2
<1>5. CASE (\A i \in 1..Len(chan) : chan[i].key # k) /\ Heard(k) = v
  <2>1. \A j \in 1..Len(chan') : chan'[j].key # k
    <3>1. \A j \in 1..Len(chan') : j + 1 \in 1..Len(chan)
      BY <1>1
    <3> QED
      BY <1>1, <1>5, <3>1
  <2>2. Heard(k)' = v
    BY <1>1, <1>3, <1>5
  <2> QED
    BY <2>1, <2>2 DEF Latest
<1> QED
  BY <1>4, <1>5 DEF Latest

(* FollowsInv is inductive, given the types.                                *)
LEMMA FollowsStep == TypeOK /\ FollowsInv /\ [Next]_vars => FollowsInv'
<1> SUFFICES ASSUME TypeOK, FollowsInv, [Next]_vars PROVE FollowsInv'
  OBVIOUS
<1>1. CASE Announce
  <2>1. PICK k \in KeyNames : k = Head(pending)
    BY <1>1 DEF TypeOK, Announce
  <2>2. PICK v : v = IF k = "state" THEN gameState ELSE tick
    OBVIOUS
  <2>3. PICK e \in Message : e = Value(FALSE, k, v) /\ e.key = k /\ e.val = v
    BY <2>1, <2>2, ValueType DEF TypeOK, Value, KeyNames
  <2>4. /\ UNCHANGED <<clock, stage>>
        /\ chan' = IF Subscribed(k) THEN Append(chan, e) ELSE chan
        /\ missed' = (missed \/ (Read(k) /\ ~Subscribed(k)))
    BY <1>1, <2>1, <2>2, <2>3 DEF Announce
  <2>5. /\ Read("state")' <=> Read("state")
        /\ Read("round")' <=> Read("round")
    BY <2>4 DEF Read
  <2>6. ASSUME NEW q, NEW u, q # k, Latest(q, u) PROVE Latest(q, u)'
    <3>1. CASE Subscribed(k)
      BY <2>3, <2>4, <2>6, <3>1, SentIsLatest
    <3>2. CASE ~Subscribed(k)
      BY <2>4, <2>6, <3>2 DEF Latest, Heard, clock
    <3> QED
      BY <3>1, <3>2
  <2>7. ASSUME ~missed', Read(k) PROVE ~missed /\ Latest(k, v)'
    <3>1. Subscribed(k) /\ ~missed
      BY <2>4, <2>7
    <3>2. Latest(e.key, e.val)'
      BY <2>3, <2>4, <3>1, SentIsLatest
    <3> QED
      BY <2>3, <3>1, <3>2
  <2>8. CASE k = "state"
    <3>1. PICK r : r = keys.round
      OBVIOUS
    <3>2. keys'.state = v /\ keys'.round = r
      BY <1>1, <2>1, <2>2, <2>8, <3>1 DEF Announce, TypeOK
    <3>3. ~missed' /\ Read("round") /\ r # -1 => Latest("round", r)'
      BY <2>4, <2>6, <2>8, <3>1 DEF FollowsInv
    <3> QED
      BY <2>5, <2>7, <2>8, <3>2, <3>3 DEF FollowsInv
  <2>9. CASE k = "round"
    <3>1. PICK s : s = keys.state
      OBVIOUS
    <3>2. keys'.round = v /\ keys'.state = s
      BY <1>1, <2>1, <2>2, <2>9, <3>1 DEF Announce, TypeOK
    <3>3. ~missed' /\ Read("state") /\ s # "nil" => Latest("state", s)'
      BY <2>4, <2>6, <2>9, <3>1 DEF FollowsInv
    <3> QED
      BY <2>5, <2>7, <2>9, <3>2, <3>3 DEF FollowsInv
  <2> QED
    BY <2>8, <2>9 DEF KeyNames
<1>2. CASE onDatabaseSelected
  <2>1. PICK s, r : s = keys.state /\ r = keys.round
    OBVIOUS
  <2>2. /\ UNCHANGED clock /\ stage' = stage + 1 /\ stage \in 0..3
        /\ stage # 0 /\ ~missed' => ~missed
        /\ keys'.state = s /\ keys'.round = r
    BY <1>2, <2>1 DEF onDatabaseSelected, TypeOK
  <2>3. CASE stage = 0
    <3>1. /\ ~Read("round")'
          /\ s # "nil" => chan' = Append(chan, Value(TRUE, "state", s))
      <4>1. ~Read("round")'
        BY <2>2, <2>3 DEF Read
      <4> QED
        BY <1>2, <2>1, <2>3, <4>1 DEF onDatabaseSelected
    <3>2. ASSUME s # "nil" PROVE Latest("state", s)'
      <4>1. PICK e \in Message : e = Value(TRUE, "state", s) /\ e.key = "state" /\ e.val = s
        BY <2>1, <3>2, ValueType DEF TypeOK, Value
      <4>2. Latest(e.key, e.val)'
        BY <2>2, <3>1, <3>2, <4>1, SentIsLatest
      <4> QED
        BY <4>1, <4>2
    <3> QED
      BY <2>2, <3>1, <3>2 DEF FollowsInv
  <2>4. CASE stage = 1
    <3>1. /\ chan' = (IF r # -1 THEN Append(chan, Value(TRUE, "round", r)) ELSE chan)
          /\ Read("state")
      BY <1>2, <2>1, <2>2, <2>4 DEF onDatabaseSelected, Read
    <3>2. ASSUME r # -1 PROVE Latest("round", r)' /\ (Latest("state", s) => Latest("state", s)')
      <4>1. PICK e \in Message : e = Value(TRUE, "round", r) /\ e.key = "round" /\ e.val = r
        BY <2>1, <3>2, ValueType DEF TypeOK, Value
      <4>2. Latest(e.key, e.val)' /\ \A q, u : q # e.key /\ Latest(q, u) => Latest(q, u)'
        BY <2>2, <3>1, <3>2, <4>1, SentIsLatest
      <4> QED
        BY <4>1, <4>2
    <3>3. ASSUME r = -1, Latest("state", s) PROVE Latest("state", s)'
      BY <2>2, <3>1, <3>3 DEF Latest, Heard, clock
    <3>4. ~missed' /\ s # "nil" => Latest("state", s)
      BY <2>1, <2>2, <2>4, <3>1 DEF FollowsInv
    <3> QED
      BY <2>2, <3>2, <3>3, <3>4 DEF FollowsInv
  <2>5. CASE stage \notin {0, 1}
    <3>1. Read("state") /\ Read("round")
      BY <2>2, <2>5 DEF Read
    <3>2. chan' = chan /\ keys' = keys
      BY <1>2, <2>5 DEF onDatabaseSelected
    <3> QED
      BY <2>2, <2>5, <3>1, <3>2 DEF FollowsInv, Latest, Heard, clock
  <2> QED
    BY <2>3, <2>4, <2>5
<1>3. CASE Hear
  <2>1. UNCHANGED <<keys, stage, missed>>
    BY <1>3 DEF Hear
  <2>2. PICK s, r : s = keys.state /\ r = keys.round
    OBVIOUS
  <2>3. /\ Latest("state", s) => Latest("state", s)'
        /\ Latest("round", r) => Latest("round", r)'
    BY <1>3, HearingKeepsLatest DEF KeyNames
  <2> QED
    BY <2>1, <2>2, <2>3 DEF FollowsInv, Read
<1>4. CASE onDisconnect \/ Terminate
  BY <1>4 DEF onDisconnect, Terminate, FollowsInv, Read
<1>5. CASE UNCHANGED <<keys, stage, chan, clock, missed>>
  BY <1>5 DEF FollowsInv, Read, Latest, Heard, clock
<1> QED
  BY <1>1, <1>2, <1>3, <1>4, <1>5
  DEF Next, Game, BeginTick, EndGame, MainThread, RegisterTeam, checkDatabase, Worker, Submit,
      AlreadyCached, NotCached, InsertNew, InsertConflict, InsertFails, InsertUnanswered, vars

(* When everything was heard the server's clock is the one in Redis, unless *)
(* an announcement fell into the gap (onDatabaseSelected, onGetKey,         *)
(* onHandleMessage), through any number of lost connections and restarts.   *)
THEOREM ServerFollows == Spec => []Follows
<1>1. Init => FollowsInv
  BY DEF Init, FollowsInv, Read
<1>2. TypeOK /\ FollowsInv => Follows
  <2> SUFFICES ASSUME TypeOK, FollowsInv, stage = 4, chan = <<>>, ~missed
               PROVE  /\ keys.state # "nil" => state = keys.state
                      /\ keys.round # -1 => round = keys.round
    BY DEF Follows
  <2>1. Read("state") /\ Read("round") /\ Len(chan) = 0
    BY DEF Read
  <2>2. 1..Len(chan) = {}
    BY <2>1
  <2> QED
    BY <2>1, <2>2 DEF FollowsInv, Latest, Heard
<1> QED
  BY <1>1, <1>2, FollowsStep, SubmissionTypes, PTL DEF Spec

-----------------------------------------------------------------------------
(* The ticks of the rows.                                                   *)

(* Nothing is missed before the clock was asked for.                        *)
LEMMA NotAskedStep == TypeOK /\ NotAsked /\ [Next]_vars => NotAsked'
<1> SUFFICES ASSUME TypeOK, NotAsked, [Next]_vars, faults' = 0, stage' = 0 PROVE ~missed'
  BY DEF NotAsked
<1>1. CASE Announce
  <2>1. stage = 0 /\ faults = 0 /\ ~missed
    BY <1>1 DEF Announce, NotAsked
  <2>2. ~Read(Head(pending))
    BY <2>1 DEF Read
  <2> QED
    BY <1>1, <2>1, <2>2 DEF Announce
<1>2. CASE onDatabaseSelected
  BY <1>2 DEF onDatabaseSelected, TypeOK
<1>3. CASE onDisconnect \/ Terminate
  BY <1>3 DEF onDisconnect, Terminate, TypeOK
<1>4. CASE UNCHANGED <<stage, missed, faults>>
  BY <1>4 DEF NotAsked
<1> QED
  BY <1>1, <1>2, <1>3, <1>4
  DEF Next, Game, BeginTick, EndGame, MainThread, Hear, RegisterTeam, checkDatabase, Worker, Submit,
      AlreadyCached, NotCached, InsertNew, InsertConflict, InsertFails, InsertUnanswered, vars

(* A server that is steady was so before.                                   *)
LEMMA SteadyBefore ==
  ASSUME TypeOK, NotAsked, [Next]_vars, Steady'
  PROVE  Steady
<1>1. faults' = 0 => faults = 0
  <2>1. CASE onDisconnect \/ Terminate
    BY <2>1 DEF onDisconnect, Terminate, TypeOK
  <2>2. CASE faults' = faults
    BY <2>2
  <2> QED
    BY <2>1, <2>2
    DEF Next, Game, BeginTick, EndGame, Announce, MainThread, onDatabaseSelected, Hear, RegisterTeam,
        checkDatabase, Worker, Submit, AlreadyCached, NotCached, InsertNew, InsertConflict,
        InsertFails, InsertUnanswered, vars
<1>2. ASSUME faults = 0, ~missed' PROVE ~missed
  <2>1. CASE Announce
    BY <1>2, <2>1 DEF Announce
  <2>2. CASE onDatabaseSelected
    BY <1>2, <2>2 DEF onDatabaseSelected, NotAsked
  <2>3. CASE missed' = missed
    BY <1>2, <2>3
  <2> QED
    BY <2>1, <2>2, <2>3
    DEF Next, Game, BeginTick, EndGame, MainThread, Hear, onDisconnect, Terminate, RegisterTeam,
        checkDatabase, Worker, Submit, AlreadyCached, NotCached, InsertNew, InsertConflict,
        InsertFails, InsertUnanswered, vars
<1> QED
  BY <1>1, <1>2 DEF Steady

(* When nothing is under way a steady server has the tick of the game, or   *)
(* none yet.                                                                *)
LEMMA SettledClock ==
  ASSUME TypeOK, FollowsInv, TickInv, Steady, pending = <<>>, chan = <<>>, stage \in {0, 4}
  PROVE  round = -1 \/ round = tick
<1>1. CASE stage = 0
  BY <1>1 DEF TickInv
<1>2. CASE stage = 4 /\ keys.round # -1
  <2>1. Read("round") /\ ~missed
    BY <1>2 DEF Read, Steady
  <2>2. Len(chan) = 0 /\ 1..Len(chan) = {}
    OBVIOUS
  <2>3. round = keys.round
    BY <1>2, <2>1, <2>2 DEF FollowsInv, Latest, Heard
  <2> QED
    BY <1>2, <2>3 DEF TickInv
<1>3. CASE keys.round = -1
  BY <1>3 DEF TickInv
<1> QED
  BY <1>1, <1>2, <1>3

(* TickInv is inductive, given the types and what is on its way.            *)
LEMMA TickStep == TypeOK /\ FollowsInv /\ NotAsked /\ TickInv /\ [Next]_vars => TickInv'
<1> SUFFICES ASSUME TypeOK, FollowsInv, NotAsked, TickInv, [Next]_vars PROVE TickInv'
  OBVIOUS
<1>0. Steady' => Steady
  BY SteadyBefore
<1>1. CASE BeginTick
  <2>1. /\ pending = <<>> /\ chan = <<>> /\ stage \in {0, 4} /\ tick' = tick + 1 /\ pending' = Announcements
        /\ UNCHANGED <<keys, stage, chan, round>> /\ tick \in Nat /\ (Steady' <=> Steady)
    BY <1>1 DEF BeginTick, clock, TypeOK, Steady
  <2>2. keys.round = -1 \/ keys.round = tick
    BY <2>1 DEF TickInv
  <2>3. Steady => round = -1 \/ round = tick
    BY <2>1, SettledClock
  <2>4. Announcements # <<>> /\ Len(chan') = 0
    BY <2>1 DEF Announcements
  <2>5. \A i \in 1..Len(chan') : FALSE
    BY <2>4
  <2> QED
    BY <2>1, <2>2, <2>3, <2>4, <2>5 DEF TickInv, Recent
<1>2. ASSUME NEW s \in States \ {"RUNNING"}, EndGame(s) PROVE TickInv'
  <2>1. /\ tick >= 1 /\ pending' = Announcements /\ (Steady' <=> Steady)
        /\ UNCHANGED <<tick, keys, stage, chan, round>>
    BY <1>2 DEF EndGame, clock, Steady, TickInv
  <2>2. Announcements # <<>>
    BY DEF Announcements
  <2> QED
    BY <2>1, <2>2 DEF TickInv, Recent
<1>3. CASE Announce
  <2>1. /\ UNCHANGED <<tick, gameState, stage, round>> /\ pending # <<>> /\ pending' = Tail(pending)
        /\ tick >= 1 /\ tick \in Nat
    BY <1>3 DEF Announce, clock, TickInv, TypeOK
  <2>2. CASE pending = Announcements
    <3>1. Head(pending) = "state" /\ pending' = <<"round">>
      BY <2>1, <2>2 DEF Announcements
    <3>2. keys'.round = keys.round /\ (chan' = chan \/ chan' = Append(chan, Value(FALSE, "state", gameState)))
      BY <1>3, <3>1 DEF Announce, TypeOK
    <3>3. \A i \in 1..Len(chan') : chan'[i].key = "round" => i \in 1..Len(chan) /\ chan'[i] = chan[i]
      <4>1. chan \in Seq(Message) /\ Value(FALSE, "state", gameState) \in Message
        BY ValueType DEF TypeOK
      <4>2. Value(FALSE, "state", gameState).key = "state"
        BY DEF Value
      <4> QED
        BY <3>2, <4>1, <4>2, AppendIndex
    <3>4. stage = 0 => chan' = chan
      BY <1>3, <3>1 DEF Announce, Subscribed
    <3>5. <<"round">> # <<>>
      OBVIOUS
    <3> QED
      BY <1>0, <2>1, <3>1, <3>2, <3>3, <3>4, <3>5 DEF TickInv, Recent
  <2>3. CASE pending = <<"round">>
    <3>1. Head(pending) = "round" /\ pending' = <<>>
      BY <2>1, <2>3
    <3>2. keys'.round = tick /\ (chan' = chan \/ chan' = Append(chan, Value(FALSE, "round", tick)))
      BY <1>3, <3>1 DEF Announce, TypeOK
    <3>3. \A i \in 1..Len(chan') : \/ i \in 1..Len(chan) /\ chan'[i] = chan[i]
                                   \/ chan'[i].val = tick
      <4>1. chan \in Seq(Message) /\ Value(FALSE, "round", tick) \in Message
        BY <2>1, ValueType DEF TypeOK
      <4>2. Value(FALSE, "round", tick).val = tick
        BY DEF Value
      <4> QED
        BY ZenonT(60), <3>2, <4>1, <4>2, AppendIndex
    <3>4. stage = 0 => chan' = chan
      BY <1>3, <3>1 DEF Announce, Subscribed
    <3> QED
      BY <1>0, <2>1, <3>1, <3>2, <3>3, <3>4 DEF TickInv, Recent
  <2> QED
    BY <2>1, <2>2, <2>3 DEF TickInv
<1>4. CASE onDatabaseSelected
  <2>1. /\ UNCHANGED <<tick, gameState, pending, keys, round>> /\ stage' # 0
        /\ \/ chan' = chan
           \/ keys.state # "nil" /\ chan' = Append(chan, Value(TRUE, "state", keys.state))
           \/ keys.round # -1 /\ chan' = Append(chan, Value(TRUE, "round", keys.round))
    <3>1. UNCHANGED <<tick, gameState, pending, keys, round>> /\ stage' # 0
      BY <1>4 DEF onDatabaseSelected, game, clock, TypeOK
    <3> QED
      BY <1>4, <3>1 DEF onDatabaseSelected
  <2>2. \A i \in 1..Len(chan') : chan'[i].key = "round" =>
          \/ i \in 1..Len(chan) /\ chan'[i] = chan[i]
          \/ keys.round # -1 /\ chan'[i].val = keys.round
    <3>1. chan \in Seq(Message)
      BY DEF TypeOK
    <3>2. CASE keys.state # "nil" /\ chan' = Append(chan, Value(TRUE, "state", keys.state))
      <4>1. Value(TRUE, "state", keys.state) \in Message /\ Value(TRUE, "state", keys.state).key = "state"
        BY <3>2, ValueType DEF TypeOK, Value
      <4> QED
        BY <3>1, <3>2, <4>1, AppendIndex
    <3>3. CASE keys.round # -1 /\ chan' = Append(chan, Value(TRUE, "round", keys.round))
      <4>1. Value(TRUE, "round", keys.round) \in Message /\ Value(TRUE, "round", keys.round).val = keys.round
        BY <3>3, ValueType DEF TypeOK, Value
      <4> QED
        BY <3>1, <3>3, <4>1, AppendIndex
    <3> QED
      BY <2>1, <3>2, <3>3
  <2> QED
    BY <1>0, <2>1, <2>2 DEF TickInv, Recent
<1>5. CASE Hear
  <2>1. /\ UNCHANGED <<tick, gameState, pending, keys, stage>> /\ chan # <<>> /\ chan' = Tail(chan)
        /\ round' = IF chan[1].key = "round" THEN chan[1].val ELSE round
    BY <1>5 DEF Hear, game, TypeOK
  <2>2. /\ 1 \in 1..Len(chan)
        /\ \A i \in 1..Len(chan') : i + 1 \in 1..Len(chan) /\ chan'[i] = chan[i + 1]
    BY <2>1 DEF TypeOK
  <2> QED
    BY <1>0, <2>1, <2>2 DEF TickInv, Recent
<1>6. CASE onDisconnect \/ Terminate
  <2>1. UNCHANGED <<tick, gameState, pending, keys>> /\ ~Steady'
    BY <1>6 DEF onDisconnect, Terminate, game, Steady, TypeOK
  <2> QED
    BY <2>1 DEF TickInv, Recent
<1>7. CASE UNCHANGED <<game, keys, stage, chan, clock, missed, faults>>
  BY <1>7 DEF TickInv, Recent, Steady, game, clock
<1> QED
  BY <1>1, <1>2, <1>3, <1>4, <1>5, <1>6, <1>7
  DEF Next, Game, MainThread, RegisterTeam, checkDatabase, Worker, Submit,
      AlreadyCached, NotCached, InsertNew, InsertConflict, InsertFails, InsertUnanswered, vars

(* A steady server writes rows of the current tick or the one before.       *)
LEMMA InsertInWindow ==
  ASSUME TypeOK, TickInv, WindowInv, Steady, NEW w \in Workers, job[w] # Idle,
         rows' = rows \cup {Row(w)}, UNCHANGED tick
  PROVE  \A r \in rows' : InWindow(r)'
<1>1. /\ job[w].flag.round \in Nat /\ Valid \in Nat /\ tick \in Nat
      /\ \A r \in rows : r.tick \in Int /\ r.flag.round \in Nat
  BY BusyJob, SubmissionAssumption DEF TypeOK, Flag
<1>2. PICK n : /\ n = Row(w) /\ n.tick = round /\ n.flag = job[w].flag
               /\ rows' = rows \cup {n} /\ (round = -1 \/ Recent(round))
  BY DEF Row, TickInv
<1>3. Timely(job[w]) /\ \A r \in rows : InWindow(r)
  BY DEF WindowInv
<1>4. ASSUME NEW r \in rows PROVE InWindow(r)'
  <2>1. r.tick = -1 \/ r.tick <= tick
    BY <1>3, <1>4 DEF InWindow
  <2>2. n.tick = -1 \/ r.tick = -1 \/ n.tick >= r.tick - 1
    BY <1>1, <1>2, <2>1 DEF Recent
  <2> QED
    BY <1>2, <1>3, <1>4, <2>2 DEF InWindow
<1>5. InWindow(n)'
  <2> SUFFICES ASSUME n.tick # -1
               PROVE  /\ n.flag.round - 1 <= n.tick /\ n.tick <= tick
                      /\ \/ n.tick <= n.flag.round + Valid + 1
                         \/ \A q \in rows' : q.tick = -1 \/ q.tick >= n.tick - 1
    BY <1>2 DEF InWindow
  <2>1. n.flag.round - 1 <= n.tick /\ n.tick <= tick
    BY <1>1, <1>2, <1>3 DEF Recent, Timely
  <2>2. CASE Recent(job[w].seen) /\ job[w].seen <= job[w].flag.round + Valid
    BY <1>1, <1>2, <2>1, <2>2 DEF Recent
  <2>3. CASE \A q \in rows : q.tick = -1 \/ Recent(q.tick)
    BY <1>1, <1>2, <2>1, <2>3 DEF Recent
  <2> QED
    BY <1>3, <2>1, <2>2, <2>3 DEF Timely
<1> QED
  BY <1>2, <1>4, <1>5

(* WindowInv is inductive, given the clock.                                 *)
LEMMA WindowStep ==
  TypeOK /\ FollowsInv /\ NotAsked /\ TickInv /\ WindowInv /\ [Next]_vars => WindowInv'
<1> SUFFICES ASSUME TypeOK, FollowsInv, NotAsked, TickInv, WindowInv, [Next]_vars, Steady'
             PROVE  WindowInv'
  BY DEF WindowInv
<1>0. Steady /\ Valid \in Nat /\ tick \in Nat
  BY SteadyBefore, SubmissionAssumption DEF TypeOK
<1>1. CASE BeginTick
  <2>1. /\ tick' = tick + 1 /\ UNCHANGED <<job, rows, round>> /\ pending = <<>> /\ chan = <<>>
        /\ stage \in {0, 4} /\ \A w \in Workers : job[w] # Idle => job[w].seen = tick
    BY <1>1 DEF BeginTick, clock
  <2>2. ASSUME NEW w \in Workers, job[w] # Idle PROVE Timely(job[w])'
    <3>1. /\ Timely(job[w]) /\ job[w].seen = tick
          /\ job[w].flag.round \in Nat
      BY <1>0, <2>1, <2>2, BusyJob, SubmissionAssumption DEF WindowInv, Flag
    <3>2. job[w].seen <= job[w].flag.round + Valid
      BY <1>0, <3>1 DEF Timely
    <3> QED
      BY <1>0, <2>1, <3>1, <3>2 DEF Timely, Recent
  <2>3. ASSUME NEW r \in rows PROVE InWindow(r)'
    <3>1. r.tick \in Int /\ InWindow(r)
      BY <1>0 DEF WindowInv, TypeOK
    <3> QED
      BY <1>0, <2>1, <3>1 DEF InWindow
  <2> QED
    BY <1>0, <2>1, <2>2, <2>3 DEF WindowInv
<1>2. CASE Hear
  <2>1. UNCHANGED <<tick, job, rows>> /\ (round' = -1 => round = -1)
    <3>1. /\ round' = (IF chan[1].key = "round" THEN chan[1].val ELSE round)
          /\ 1 \in 1..Len(chan) /\ UNCHANGED <<tick, job, rows>>
      BY <1>2 DEF Hear, game, TypeOK
    <3>2. chan[1].key = "round" => chan[1].val # -1
      BY SMTT(60), <1>0, <3>1 DEF TickInv, Recent, Message, TypeOK
    <3> QED
      BY <3>1, <3>2
  <2> QED
    BY <1>0, <2>1 DEF WindowInv, Timely, InWindow, Recent
<1>3. ASSUME NEW w \in Workers, NEW p \in Pairs, Submit(w, p[1], p[2]) PROVE WindowInv'
  <2> DEFINE j == [at |-> "cache", by |-> p[1], flag |-> p[2], seen |-> round]
  <2>1. /\ UNCHANGED <<tick, round, rows>> /\ job' = [job EXCEPT ![w] = j]
    BY <1>3 DEF Submit, game, clock
  <2>2. p[2].round <= tick /\ ~Expired(p[2]) /\ p[2] \in Flags
    BY <1>0, <1>3 DEF Submit, Admissible, Issued, Pairs
  <2>3. Timely(j)
    <3>1. p[2].round \in Nat
      BY <2>2, SubmissionAssumption DEF Flag
    <3>2. CASE round = -1
      BY <1>0, <2>2, <3>2 DEF Timely, WindowInv
    <3>3. CASE Recent(round)
      <4>1. round <= p[2].round + Valid
        BY <1>0, <2>2, <3>1, <3>3 DEF Expired, Recent
      <4> QED
        BY <2>2, <3>3, <4>1 DEF Timely
    <3> QED
      BY <1>0, <3>2, <3>3 DEF TickInv
  <2>4. /\ \A v \in Workers : v # w => job'[v] = job[v]
        /\ job'[w] = j
    BY <2>1 DEF TypeOK
  <2>5. \A v \in Workers : job'[v] # Idle => Timely(job'[v])
    BY <1>0, <2>3, <2>4 DEF WindowInv
  <2>6. \A v \in Workers : job'[v] # Idle => Timely(job[v])'
    <3> HIDE DEF j
    <3> QED
      BY <2>1, <2>5 DEF Timely, Recent
  <2> QED
    BY <1>0, <2>1, <2>6 DEF WindowInv, InWindow
<1>4. ASSUME NEW w \in Workers, job[w] # Idle, Done(w), UNCHANGED <<tick, round>>,
             rows' = rows \/ rows' = rows \cup {Row(w)}
      PROVE  WindowInv'
  <2>1. \A v \in Workers : job'[v] # Idle => job'[v] = job[v] /\ job[v] # Idle
    BY <1>4 DEF Done, TypeOK
  <2>2. Row(w).tick = round /\ (round = -1 \/ Recent(round))
    BY <1>0 DEF Row, TickInv
  <2>3. ASSUME NEW v \in Workers, job[v] # Idle PROVE Timely(job[v]) /\ (job'[v] = job[v] => Timely(job[v])')
    <3>1. Timely(job[v])
      BY <1>0, <2>3 DEF WindowInv
    <3> QED
      BY <1>4, <2>2, <3>1 DEF Timely, Recent
  <2>4. \A r \in rows' : InWindow(r)'
    <3>1. CASE rows' = rows
      BY <1>0, <1>4, <3>1 DEF WindowInv, InWindow
    <3>2. CASE rows' = rows \cup {Row(w)}
      BY <1>0, <1>4, <3>2, InsertInWindow
    <3> QED
      BY <1>4, <3>1, <3>2
  <2>5. round' = -1 => \A r \in rows' : r.tick = -1
    BY <1>0, <1>4, <2>2 DEF WindowInv
  <2> QED
    BY <2>1, <2>3, <2>4, <2>5 DEF WindowInv
<1>5. ASSUME NEW w \in Workers, NotCached(w) PROVE WindowInv'
  <2>1. /\ UNCHANGED <<tick, round, rows>> /\ job[w] # Idle
        /\ job' = [job EXCEPT ![w] = [job[w] EXCEPT !.at = "insert"]]
    BY <1>5 DEF NotCached, At, game, clock
  <2>2. \A v \in Workers : job'[v] # Idle =>
          job[v] # Idle /\ job'[v].flag = job[v].flag /\ job'[v].seen = job[v].seen
    BY <2>1, BusyJob DEF TypeOK, Busy
  <2>3. \A v \in Workers : job'[v] # Idle => Timely(job[v])'
    BY <1>0, <2>1, <2>2 DEF WindowInv, Timely, Recent
  <2> QED
    BY <1>0, <2>1, <2>3 DEF WindowInv, InWindow
<1>6. CASE onDisconnect \/ Terminate
  BY <1>6 DEF onDisconnect, Terminate, Steady, TypeOK
<1>7. CASE UNCHANGED <<tick, round, job, rows>>
  BY <1>0, <1>7 DEF WindowInv, Timely, InWindow, Recent
<1>8. ASSUME NEW w \in Workers, Worker(w) PROVE WindowInv'
  BY <1>3, <1>4, <1>5, <1>8
  DEF Worker, AlreadyCached, InsertNew, InsertConflict, InsertFails, InsertUnanswered, At, game, clock
<1> QED
  BY <1>1, <1>2, <1>6, <1>7, <1>8
  DEF Next, Game, EndGame, Announce, MainThread, onDatabaseSelected, RegisterTeam, checkDatabase,
      vars, game, clock

(* All rows of a flag lie in the window the scoring searches for earlier    *)
(* submissions (scoring.py, tick - flags_rounds_valid - 2), for every       *)
(* flags_rounds_valid and every number of workers, as long as the server    *)
(* follows the clock without a break.                                       *)
THEOREM RowsInWindow == Spec => []SameFlagWindow
<1>1. Init => FollowsInv /\ NotAsked /\ TickInv /\ WindowInv
  <2> SUFFICES ASSUME Init PROVE FollowsInv /\ NotAsked /\ TickInv /\ WindowInv
    OBVIOUS
  <2>1. FollowsInv /\ NotAsked /\ WindowInv
    BY DEF Init, FollowsInv, Read, NotAsked, WindowInv
  <2>2. TickInv
    BY DEF Init, TickInv, Recent
  <2> QED
    BY <2>1, <2>2
<1>2. TypeOK /\ WindowInv => SameFlagWindow
  <2> SUFFICES ASSUME TypeOK, WindowInv, Steady, NEW r \in rows, NEW q \in rows, r.flag = q.flag,
                      r.tick # -1, q.tick # -1
               PROVE  r.tick - q.tick <= Valid + 2
    BY DEF SameFlagWindow, Steady
  <2>1. r.tick \in Int /\ q.tick \in Int /\ Valid \in Nat /\ r.flag.round \in Nat
    BY SubmissionAssumption DEF TypeOK, Flag
  <2>2. InWindow(r) /\ InWindow(q)
    BY DEF WindowInv
  <2> QED
    BY <2>1, <2>2 DEF InWindow
<1> QED
  BY <1>1, <1>2, FollowsStep, NotAskedStep, TickStep, WindowStep, SubmissionTypes, PTL DEF Spec
=============================================================================
