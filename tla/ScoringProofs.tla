-------------------------- MODULE ScoringProofs ---------------------------
(* Theorems about the points, the ranking and the first bloods, for every  *)
(* number of teams, ticks, flags and failures, also while                  *)
(* recreate_ranking.py, recreate_firstblood.py or a reset interferes.      *)
EXTENDS Scoring, FoldTheorems, TLAPS

-----------------------------------------------------------------------------
(* Sorted indices.                                                         *)

(* A set that can be put in a line is put in order.                        *)
LEMMA OrderIs ==
  ASSUME NEW S, IsFiniteSet(S), NEW R, Line(S, R)
  PROVE  SortedBy(InOrder(S, R), S, R)
<1>1. PICK s : SortedBy(s, S, R)
  BY SortExists
<1> DEFINE P(q) == \A i, j \in 1..Cardinality(S) : i < j => <<q[i], q[j]>> \in R
<1>2. s \in [1..Cardinality(S) -> S] /\ P(s)
  BY <1>1 DEF SortedBy
<1>3. InOrder(S, R) = CHOOSE q \in [1..Cardinality(S) -> S] : P(q)
  BY DEF InOrder
<1> HIDE DEF P
<1>4. InOrder(S, R) \in [1..Cardinality(S) -> S] /\ P(InOrder(S, R))
  BY <1>2, <1>3
<1> QED
  BY <1>4 DEF SortedBy, P

(* The indices of the rows of some ticks, in the order of the table: each  *)
(* of them once.                                                           *)
Indices(is, db, T) ==
  /\ is \in [1..Len(is) -> {i \in DOMAIN db : db[i].tick \in T}] /\ Len(is) \in Nat
  /\ \A i, j \in 1..Len(is) : i < j => is[i] < is[j]
  /\ \A x \in {i \in DOMAIN db : db[i].tick \in T} : \E i \in 1..Len(is) : is[i] = x
(* RowsIn lists them.                                                      *)
LEMMA RowsInAre ==
  ASSUME NEW db, NEW N \in Nat, DOMAIN db = 1..N, NEW T
  PROVE  Indices(RowsIn(db, T), db, T)
<1> DEFINE S == {i \in DOMAIN db : db[i].tick \in T}
           R == {x \in (DOMAIN db) \X (DOMAIN db) : x[1] < x[2]}
<1>1. S \subseteq 1..N /\ RowsIn(db, T) = InOrder(S, R)
  BY DEF RowsIn
<1>2. IsFiniteSet(S)
  BY <1>1, FS_Interval, FS_Subset
<1>3. ASSUME NEW x \in S, NEW y \in S PROVE <<x, y>> \in R <=> x < y
  <2>1. <<x, y>> \in (DOMAIN db) \X (DOMAIN db) /\ <<x, y>>[1] = x /\ <<x, y>>[2] = y
    OBVIOUS
  <2> QED
    BY <2>1
<1> HIDE DEF S, R
<1>4. \A x \in S : x \in Int
  BY <1>1
<1>5. Line(S, R)
  <2>2. \A x \in S : <<x, x>> \notin R
    BY <1>3, <1>4
  <2>3. \A x \in S, y \in S : x # y => <<x, y>> \in R \/ <<y, x>> \in R
    BY <1>3, <1>4
  <2>4. ASSUME NEW x \in S, NEW y \in S, NEW z \in S, <<x, y>> \in R, <<y, z>> \in R PROVE <<x, z>> \in R
    BY <1>3, <1>4, <2>4
  <2> QED
    BY <2>2, <2>3, <2>4 DEF Line
<1>6. PICK s : s = InOrder(S, R)
  OBVIOUS
<1>7. SortedBy(s, S, R)
  BY <1>2, <1>5, <1>6, OrderIs
<1>8. PICK n \in Nat : n = Cardinality(S)
  BY <1>2, FS_CardinalityType
<1>9. s \in [1..n -> S] /\ \A i, j \in 1..n : i < j => <<s[i], s[j]>> \in R
  BY <1>7, <1>8 DEF SortedBy
<1>10. Len(s) = n
  BY <1>9
<1>11. \A i, j \in 1..n : i < j => s[i] < s[j]
  BY <1>3, <1>9
<1>12. \A x \in S : \E i \in 1..n : s[i] = x
  BY <1>2, <1>5, <1>7, <1>8, SortedAll
<1> QED
  BY <1>1, <1>6, <1>9, <1>10, <1>11, <1>12 DEF Indices, S

-----------------------------------------------------------------------------
(* The table of submitted flags.                                           *)

(* There are teams, and a set of them is not larger than all of them.      *)
LEMMA TeamSets ==
  /\ Cardinality(Teams) \in Nat /\ Cardinality(Teams) # 0
  /\ \A S \in SUBSET Teams : IsFiniteSet(S) /\ Cardinality(S) \in 0..Cardinality(Teams)
<1>1. IsFiniteSet(Teams) /\ Teams # {}
  BY ScoringAssumption
<1>2. Cardinality(Teams) \in Nat /\ Cardinality(Teams) # 0
  BY <1>1, FS_CardinalityType, FS_EmptySet
<1>3. ASSUME NEW S \in SUBSET Teams PROVE IsFiniteSet(S) /\ Cardinality(S) \in 0..Cardinality(Teams)
  <2>1. IsFiniteSet(S) /\ Cardinality(S) <= Cardinality(Teams)
    BY <1>1, FS_Subset
  <2>2. Cardinality(S) \in Nat
    BY <2>1, FS_CardinalityType
  <2> QED
    BY <1>2, <2>1, <2>2
<1> QED
  BY <1>2, <1>3

(* Every row is of a tick in which its flag is valid, and no team          *)
(* submitted a flag twice.                                                 *)
Table(db) ==
  /\ db \in Seq(Row)
  /\ \A i \in DOMAIN db : db[i].tick \in db[i].flag.issued..(db[i].flag.issued + Valid)
  /\ \A i, j \in DOMAIN db : db[i].flag = db[j].flag /\ db[i].by = db[j].by => i = j

(* Rows that differ only in their first bloods.                            *)
Like(a, b) ==
  /\ DOMAIN a = DOMAIN b
  /\ \A i \in DOMAIN a : a[i].flag = b[i].flag /\ a[i].by = b[i].by /\ a[i].tick = b[i].tick

(* What is known of a row.                                                 *)
LEMMA RowOf ==
  ASSUME NEW db, Table(db)
  PROVE  /\ \E N \in Nat : DOMAIN db = 1..N /\ N = Len(db) /\ db \in [1..N -> Row]
         /\ \A i \in DOMAIN db :
              /\ db[i] \in Row /\ db[i].flag \in Flags /\ db[i].by \in Teams /\ db[i].tick \in Ticks
              /\ db[i].fb \in 0..Cardinality(Teams) /\ db[i].flag.payload \in Nat
              /\ db[i].flag.team \in Teams /\ db[i].flag.issued \in Ticks /\ db[i].flag.issued <= db[i].tick
<1>1. PICK N \in Nat : N = Len(db) /\ db \in [1..N -> Row]
  BY DEF Table
<1>2. DOMAIN db = 1..N
  BY <1>1
<1>3. ASSUME NEW i \in DOMAIN db
      PROVE  /\ db[i] \in Row /\ db[i].flag \in Flags /\ db[i].by \in Teams /\ db[i].tick \in Ticks
             /\ db[i].fb \in 0..Cardinality(Teams) /\ db[i].flag.payload \in Nat
             /\ db[i].flag.team \in Teams /\ db[i].flag.issued \in Ticks /\ db[i].flag.issued <= db[i].tick
  <2>1. db[i] \in Row
    BY <1>1, <1>2, <1>3
  <2>2. db[i].flag \in Flags /\ db[i].by \in Teams /\ db[i].tick \in Ticks /\ db[i].fb \in 0..Cardinality(Teams)
    BY <2>1 DEF Row
  <2>3. db[i].flag.payload \in Nat /\ db[i].flag.team \in Teams /\ db[i].flag.issued \in Ticks
    BY <2>2, ScoringAssumption DEF Ticks
  <2>4. db[i].flag.issued <= db[i].tick
    BY <1>3, <2>2, <2>3 DEF Table, Ticks
  <2> QED
    BY <2>1, <2>2, <2>3, <2>4
<1> QED
  BY <1>1, <1>2, <1>3

(* A table whose first bloods are replaced is still one.                   *)
LEMMA LikeTable ==
  ASSUME NEW a, NEW b, Table(b), Like(a, b), a \in [DOMAIN b -> Row]
  PROVE  Table(a)
<1>1. PICK N \in Nat : DOMAIN b = 1..N
  BY RowOf
<1>2. a \in Seq(Row) /\ DOMAIN a = DOMAIN b
  BY <1>1
<1>3. \A i \in DOMAIN a : a[i].tick \in a[i].flag.issued..(a[i].flag.issued + Valid)
  BY DEF Like, Table
<1>4. \A i, j \in DOMAIN a : a[i].flag = a[j].flag /\ a[i].by = a[j].by => i = j
  BY DEF Like, Table
<1> QED
  BY <1>2, <1>3, <1>4 DEF Table

(* The levels that a search for first bloods may find.                     *)
Found(db) == SUBSET ((DOMAIN db) \X (0..Cardinality(Teams)))

(* Recording first bloods changes nothing else.                            *)
LEMMA Recorded ==
  ASSUME NEW db, Table(db), NEW found \in Found(db)
  PROVE  Like(Record(db, found), db) /\ Table(Record(db, found))
<1>1. PICK new : new = Record(db, found)
  OBVIOUS
<1>2. new = [i \in DOMAIN db |-> IF \E x \in found : x[1] = i
                         THEN [db[i] EXCEPT !.fb = (CHOOSE x \in found : x[1] = i)[2]] ELSE db[i]]
  BY <1>1 DEF Record
<1>3. ASSUME NEW i \in DOMAIN db
      PROVE  new[i] \in Row /\ new[i].flag = db[i].flag /\ new[i].by = db[i].by /\ new[i].tick = db[i].tick
  <2>0. db[i] \in Row
    BY RowOf
  <2>1. CASE \E x \in found : x[1] = i
    <3>1. PICK y : y = CHOOSE x \in found : x[1] = i
      OBVIOUS
    <3>2. y \in found
      BY <2>1, <3>1
    <3>3. y[2] \in 0..Cardinality(Teams)
      BY <3>2 DEF Found
    <3>4. new[i] = [db[i] EXCEPT !.fb = y[2]]
      BY <1>2, <2>1, <3>1
    <3> QED
      BY <2>0, <3>3, <3>4 DEF Row
  <2>2. CASE ~\E x \in found : x[1] = i
    BY <1>2, <2>0, <2>2
  <2> QED
    BY <2>1, <2>2
<1>4. DOMAIN new = DOMAIN db /\ new \in [DOMAIN db -> Row]
  BY <1>2, <1>3
<1>5. Like(new, db)
  BY <1>3, <1>4 DEF Like
<1> QED
  BY <1>1, <1>4, <1>5, LikeTable

(* Who submitted a flag, by the indices of the table.                      *)
LEMMA SubmittersAre ==
  ASSUME NEW f, NEW a, NEW b, NEW t
  PROVE  t \in Submitters(f, a, b) <=> \E i \in DOMAIN rows : rows[i].flag = f /\ rows[i].by = t /\ rows[i].tick \in a..b
BY DEF Submitters, ToSet

(* A submission makes a longer table.                                      *)
LEMMA SubmitTable ==
  ASSUME Table(rows), tick \in Ticks, NEW f \in Flags, NEW team \in Teams, NEW t \in Ticks, Submit(f, team, t)
  PROVE  /\ Table(rows')
         /\ \E N \in Nat : /\ DOMAIN rows = 1..N /\ DOMAIN rows' = 1..(N + 1)
                           /\ \A i \in 1..N : rows'[i] = rows[i]
                           /\ rows'[N + 1] = [flag |-> f, by |-> team, tick |-> t, fb |-> 0]
<1>1. PICK N \in Nat : DOMAIN rows = 1..N /\ N = Len(rows) /\ rows \in [1..N -> Row]
  BY RowOf
<1> DEFINE new == [flag |-> f, by |-> team, tick |-> t, fb |-> 0]
<1>2. /\ rows' = Append(rows, new) /\ team \notin Submitters(f, 1, MaxTick)
      /\ t \in f.issued..(f.issued + Valid)
  BY DEF Submit
<1>3. new \in Row /\ new.flag = f /\ new.by = team /\ new.tick = t
  BY TeamSets DEF Row
<1> HIDE DEF new
<1>4. /\ rows' \in Seq(Row) /\ Len(rows') = N + 1 /\ DOMAIN rows' = 1..(N + 1)
      /\ \A i \in 1..N : rows'[i] = rows[i]
      /\ rows'[N + 1] = new
  BY <1>1, <1>2, <1>3
<1>5. \A i \in 1..N : rows[i].flag = f => rows[i].by # team
  <2>1. \A i \in 1..N : rows[i].tick \in 1..MaxTick
    BY <1>1, RowOf DEF Ticks
  <2> QED
    BY <1>1, <1>2, <2>1, SubmittersAre
<1>6. \A i \in 1..(N + 1) : i = N + 1 \/ i \in 1..N
  OBVIOUS
<1>7. \A i \in DOMAIN rows' : rows'[i].tick \in rows'[i].flag.issued..(rows'[i].flag.issued + Valid)
  BY <1>1, <1>2, <1>3, <1>4, <1>6 DEF Table
<1>8. ASSUME NEW i \in DOMAIN rows', NEW j \in DOMAIN rows', rows'[i].flag = rows'[j].flag, rows'[i].by = rows'[j].by
      PROVE  i = j
  <2>1. CASE i \in 1..N /\ j \in 1..N
    BY <1>1, <1>4, <1>8, <2>1 DEF Table
  <2>2. CASE i = N + 1 /\ j \in 1..N
    BY <1>3, <1>4, <1>5, <1>8, <2>2
  <2>3. CASE i \in 1..N /\ j = N + 1
    BY <1>3, <1>4, <1>5, <1>8, <2>3
  <2> QED
    BY <1>4, <1>6, <2>1, <2>2, <2>3
<1> QED
  BY <1>1, <1>4, <1>7, <1>8 DEF Table, new

-----------------------------------------------------------------------------
(* The search for first bloods finds levels of rows, and keeps its cache.  *)

Acc(db) == [cache: Cache, found: Found(db), seen: SUBSET (Teams \X Ticks \X Nat)]

(* The parts of an accumulator, and what the steps make of them.           *)
LEMMA AccParts ==
  ASSUME NEW db, NEW acc \in Acc(db), NEW k \in Keys
  PROVE  /\ acc.cache \in Cache /\ acc.found \in Found(db) /\ acc.seen \in SUBSET (Teams \X Ticks \X Nat)
         /\ acc.cache.max \in [Keys -> Nat] /\ acc.cache.victims \in [Keys \X Teams -> SUBSET Teams]
         /\ \A n \in Nat : [acc EXCEPT !.cache.max[k] = n] \in Acc(db)
         /\ \A n \in Nat, u \in Teams, S \in SUBSET Teams :
              [acc EXCEPT !.cache.max[k] = n, !.cache.victims[<<k, u>>] = S] \in Acc(db)
<1>1. /\ acc.cache \in Cache /\ acc.found \in Found(db) /\ acc.seen \in SUBSET (Teams \X Ticks \X Nat)
      /\ acc = [cache |-> acc.cache, found |-> acc.found, seen |-> acc.seen]
  BY DEF Acc
<1>2. PICK c \in Cache, fo \in Found(db), se \in SUBSET (Teams \X Ticks \X Nat) :
        acc = [cache |-> c, found |-> fo, seen |-> se]
  BY <1>1
<1>3. /\ c.max \in [Keys -> Nat] /\ c.victims \in [Keys \X Teams -> SUBSET Teams]
      /\ c = [max |-> c.max, victims |-> c.victims]
  BY DEF Cache
<1>4. PICK m \in [Keys -> Nat], v \in [Keys \X Teams -> SUBSET Teams] : c = [max |-> m, victims |-> v]
  BY <1>3
<1>5. ASSUME NEW n \in Nat PROVE [acc EXCEPT !.cache.max[k] = n] \in Acc(db)
  <2>1. [acc EXCEPT !.cache.max[k] = n] = [cache |-> [max |-> [m EXCEPT ![k] = n], victims |-> v], found |-> fo, seen |-> se]
    BY <1>2, <1>4
  <2>2. [m EXCEPT ![k] = n] \in [Keys -> Nat]
    OBVIOUS
  <2> QED
    BY <2>1, <2>2 DEF Acc, Cache
<1>6. ASSUME NEW n \in Nat, NEW u \in Teams, NEW S \in SUBSET Teams
      PROVE  [acc EXCEPT !.cache.max[k] = n, !.cache.victims[<<k, u>>] = S] \in Acc(db)
  <2>0. PICK x \in Keys \X Teams : x = <<k, u>>
    OBVIOUS
  <2>9. [acc EXCEPT !.cache.max[k] = n, !.cache.victims[x] = S]
          = [cache |-> [max |-> [m EXCEPT ![k] = n], victims |-> [v EXCEPT ![x] = S]], found |-> fo, seen |-> se]
    <3>1. PICK one : one = [acc EXCEPT !.cache.max[k] = n]
      OBVIOUS
    <3>2. one = [cache |-> [max |-> [m EXCEPT ![k] = n], victims |-> v], found |-> fo, seen |-> se]
      BY <1>2, <1>4, <3>1
    <3>3. [one EXCEPT !.cache.victims[x] = S]
            = [cache |-> [max |-> [m EXCEPT ![k] = n], victims |-> [v EXCEPT ![x] = S]], found |-> fo, seen |-> se]
      BY <3>2
    <3>4. [acc EXCEPT !.cache.max[k] = n, !.cache.victims[x] = S] = [one EXCEPT !.cache.victims[x] = S]
      BY <3>1
    <3> QED
      BY <3>3, <3>4
  <2>1. [acc EXCEPT !.cache.max[k] = n, !.cache.victims[<<k, u>>] = S]
          = [cache |-> [max |-> [m EXCEPT ![k] = n], victims |-> [v EXCEPT ![<<k, u>>] = S]], found |-> fo, seen |-> se]
    BY <2>0, <2>9
  <2>2. [m EXCEPT ![k] = n] \in [Keys -> Nat]
    OBVIOUS
  <2>3. [v EXCEPT ![<<k, u>>] = S] \in [Keys \X Teams -> SUBSET Teams]
    OBVIOUS
  <2> QED
    BY <2>1, <2>2, <2>3 DEF Acc, Cache
<1> QED
  BY <1>1, <1>2, <1>3, <1>5, <1>6

(* The key of a row is one of the cache.                                   *)
LEMMA KeyOf ==
  ASSUME NEW db, Table(db), NEW i \in DOMAIN db
  PROVE  Key(db[i]) \in Keys /\ FlagKey(db[i]) \in Teams \X Ticks \X Nat
<1>1. db[i].flag \in Flags /\ db[i].flag.payload \in Nat /\ db[i].flag.team \in Teams /\ db[i].flag.issued \in Ticks
  BY RowOf
<1> QED
  BY <1>1 DEF Key, Keys, FlagKey

(* Accumulators also stay ones when more is found or seen.                 *)
LEMMA AccGrows ==
  ASSUME NEW db, NEW acc \in Acc(db), NEW F \in Found(db), NEW S \in SUBSET (Teams \X Ticks \X Nat)
  PROVE  /\ [acc EXCEPT !.found = F] \in Acc(db) /\ [acc EXCEPT !.seen = S] \in Acc(db)
BY DEF Acc

(* A step of the default algorithm.                                        *)
LEMMA DefaultStepType ==
  ASSUME NEW db, Table(db), NEW acc \in Acc(db), NEW i \in DOMAIN db
  PROVE  DefaultStep(db, acc, i) \in Acc(db)
<1>1. PICK k \in Keys : k = Key(db[i])
  BY KeyOf
<1>2. PICK fk \in Teams \X Ticks \X Nat : fk = FlagKey(db[i])
  BY KeyOf
<1>3. PICK F \in Found(db) : F = acc.found \cup {<<i, 1>>}
  <2>1. 1 \in 0..Cardinality(Teams)
    BY TeamSets
  <2>2. acc.found \cup {<<i, 1>>} \in Found(db)
    <3>1. acc.found \in Found(db)
      BY <1>1, AccParts
    <3> QED
      BY <2>1, <3>1 DEF Found
  <2> QED
    BY <2>2
<1>4. PICK S \in SUBSET (Teams \X Ticks \X Nat) : S = acc.seen \cup {fk}
  <2>1. acc.seen \cup {fk} \in SUBSET (Teams \X Ticks \X Nat)
    BY <1>1, AccParts
  <2> QED
    BY <2>1
<1>5. PICK one \in Acc(db) : one = [acc EXCEPT !.found = F]
  BY AccGrows
<1>6. PICK two \in Acc(db) : two = [one EXCEPT !.seen = S]
  BY AccGrows
<1>7. [two EXCEPT !.cache.max[k] = 1] \in Acc(db)
  BY AccParts
<1>8. [acc EXCEPT !.seen = S] \in Acc(db)
  BY AccGrows
<1>9. [acc EXCEPT !.found = @ \cup {<<i, 1>>}, !.seen = @ \cup {fk}, !.cache.max[k] = 1] = [two EXCEPT !.cache.max[k] = 1]
  BY <1>3, <1>4, <1>5, <1>6 DEF Acc
<1>10. [acc EXCEPT !.seen = @ \cup {fk}] = [acc EXCEPT !.seen = S]
  BY <1>4
<1> QED
  BY <1>1, <1>2, <1>7, <1>8, <1>9, <1>10 DEF DefaultStep

(* The greatest of some levels is a number.                                *)
LEMMA MaxOf ==
  ASSUME NEW S, IsFiniteSet(S), S \subseteq Int, S # {}
  PROVE  Max(S) \in S /\ \A y \in S : Max(S) >= y
BY TopIs DEF Max, Top

(* A step of the algorithm with levels.                                    *)
LEMMA MultiStepType ==
  ASSUME NEW db, Table(db), NEW acc \in Acc(db), NEW i \in DOMAIN db
  PROVE  MultiStep(db, acc, i) \in Acc(db)
<1>1. PICK k \in Keys : k = Key(db[i])
  BY KeyOf
<1>2. PICK u \in Teams : u = db[i].by
  BY RowOf
<1>3. PICK victim \in Teams : victim = db[i].flag.team
  BY RowOf
<1>4. PICK level \in Nat : level = Max({acc.cache.max[k], DbLevel(db, i)})
  <2>1. DbLevel(db, i) \in Nat
    <3> DEFINE S == {0} \cup {db[j].fb : j \in {j \in SameKey(db, i) : j < i}}
    <3>1. S \subseteq 0..Cardinality(Teams)
      <4>1. \A j \in SameKey(db, i) : db[j].fb \in 0..Cardinality(Teams)
        BY RowOf DEF SameKey
      <4> QED
        BY <4>1, TeamSets
    <3>3. S \subseteq Int /\ S # {}
      BY <3>1
    <3>4. DbLevel(db, i) = Max(S)
      BY DEF DbLevel
    <3> HIDE DEF S
    <3>0. IsFiniteSet(0..Cardinality(Teams))
      BY TeamSets, FS_Interval
    <3>2. IsFiniteSet(S)
      BY <3>0, <3>1, FS_Subset
    <3>5. Max(S) \in S
      BY <3>2, <3>3, MaxOf
    <3>6. Max(S) \in 0..Cardinality(Teams)
      BY <3>1, <3>5
    <3> QED
      BY <3>4, <3>6
  <2>2. PICK a \in Nat, b \in Nat : a = acc.cache.max[k] /\ b = DbLevel(db, i)
    BY <2>1, AccParts
  <2>3. IsFiniteSet({a, b})
    <3>1. IsFiniteSet({a}) /\ {a, b} = {a} \cup {b}
      BY FS_Singleton
    <3> QED
      BY <3>1, FS_AddElement
  <2>4. {a, b} \subseteq Int /\ {a, b} # {} /\ {a, b} \subseteq Nat
    OBVIOUS
  <2>5. Max({a, b}) \in {a, b}
    BY <2>3, <2>4, MaxOf
  <2> QED
    BY <2>2, <2>5
<1>5. PICK known \in SUBSET Teams : known = acc.cache.victims[<<k, u>>] \cup DbVictims(db, i)
  <2>1. DbVictims(db, i) \subseteq Teams
    BY RowOf DEF DbVictims, SameKey
  <2>2. acc.cache.victims[<<k, u>>] \in SUBSET Teams
    <3>1. acc.cache.victims \in [Keys \X Teams -> SUBSET Teams]
      BY AccParts
    <3> QED
      BY <3>1
  <2> QED
    BY <2>1, <2>2
<1>6. PICK all \in SUBSET Teams : all = known \cup {victim}
  OBVIOUS
<1>7. PICK reached \in 0..Cardinality(Teams) : reached = Cardinality(all)
  BY TeamSets
<1>8. reached \in Nat
  BY TeamSets
<1>9. [acc EXCEPT !.cache.max[k] = level] \in Acc(db)
  BY AccParts
<1>10. [acc EXCEPT !.cache.max[k] = level, !.cache.victims[<<k, u>>] = all] \in Acc(db)
  BY AccParts
<1>11. PICK F \in Found(db) : F = acc.found \cup {<<i, reached>>}
  <2>1. acc.found \cup {<<i, reached>>} \in Found(db)
    <3>1. acc.found \in Found(db)
      BY <1>1, AccParts
    <3> QED
      BY <3>1 DEF Found
  <2> QED
    BY <2>1
<1>12. PICK more \in Acc(db) : more = [acc EXCEPT !.cache.max[k] = reached, !.cache.victims[<<k, u>>] = all]
  BY <1>8, AccParts
<1>13. [more EXCEPT !.found = F] \in Acc(db)
  BY AccGrows
<1>14. [acc EXCEPT !.cache.max[k] = reached, !.cache.victims[<<k, u>>] = all, !.found = @ \cup {<<i, reached>>}]
         = [more EXCEPT !.found = F]
  BY <1>11, <1>12 DEF Acc
<1> QED
  BY <1>1, <1>2, <1>3, <1>4, <1>5, <1>6, <1>7, <1>9, <1>10, <1>13, <1>14 DEF MultiStep

(* A set of indices is finite and has a last one.                          *)
LEMMA MaxIn ==
  ASSUME NEW n \in Nat
  PROVE  IsFiniteSet(1..n) /\ \A s \in SUBSET (1..n) : s # {} => Max(s) \in s
<1>1. IsFiniteSet(1..n)
  BY FS_Interval
<1>2. ASSUME NEW s \in SUBSET (1..n), s # {} PROVE Max(s) \in s
  <2>1. s \subseteq Int
    OBVIOUS
  <2>2. IsFiniteSet(s)
    BY <1>1, FS_Subset
  <2> QED
    BY <1>2, <2>1, <2>2, MaxOf
<1> QED
  BY <1>1, <1>2

(* The search over some rows.                                              *)
LEMMA FirstBloodsType ==
  ASSUME NEW db, Table(db), NEW c \in Cache, NEW n \in Nat, NEW is \in [1..n -> DOMAIN db]
  PROVE  get_firstbloods(db, c, is) \in Acc(db)
<1> DEFINE Step(acc, i) == IF algo[2] = "multi" THEN MultiStep(db, acc, i) ELSE DefaultStep(db, acc, i)
           start == [cache |-> c, found |-> {}, seen |-> {}]
           F == [x \in 1..n |-> [acc \in Acc(db) |-> Step(acc, is[x])]]
           Q(g) == g = [s \in SUBSET (1..n) |-> IF s = {} THEN start ELSE Step(g[s \ {Max(s)}], is[Max(s)])]
<1>1. start \in Acc(db)
  BY DEF Acc, Found
<1>2. \A acc \in Acc(db), i \in DOMAIN db : Step(acc, i) \in Acc(db)
  BY DefaultStepType, MultiStepType
<1>3. get_firstbloods(db, c, is) = (CHOOSE g : Q(g))[1..n]
  <2>1. DOMAIN is = 1..n
    OBVIOUS
  <2> QED
    BY <2>1 DEF get_firstbloods, FoldLeft, MapThenFoldSet
<1> HIDE DEF Step, start
<1>4. F \in [1..n -> [Acc(db) -> Acc(db)]]
  BY <1>2
<1>5. \A x \in 1..n, acc \in Acc(db) : F[x][acc] = Step(acc, is[x])
  OBVIOUS
<1> HIDE DEF F
<1>6. PICK g \in [SUBSET (1..n) -> Acc(db)] : FoldsLeft(g, n, start, F)
  BY <1>1, <1>4, FoldLeftExists
<1>7. \A s \in SUBSET (1..n) : s # {} => Max(s) \in s
  BY MaxIn
<1>8. ASSUME NEW s \in SUBSET (1..n) PROVE g[s] = IF s = {} THEN start ELSE Step(g[s \ {Max(s)}], is[Max(s)])
  <2>1. Max(s) = Top(s)
    BY DEF Max, Top
  <2>2. g[s] = IF s = {} THEN start ELSE F[Max(s)][g[s \ {Max(s)}]]
    BY <1>6, <2>1 DEF FoldsLeft
  <2>3. s # {} => Max(s) \in 1..n /\ g[s \ {Max(s)}] \in Acc(db)
    BY <1>7
  <2> QED
    BY <1>5, <2>2, <2>3
<1>9. Q(g)
  BY <1>8
<1>10. PICK k : k = CHOOSE h : Q(h)
  OBVIOUS
<1>11. Q(k)
  <2> HIDE DEF Q
  <2> QED
    BY <1>9, <1>10
<1>12. \A s \in SUBSET (1..n) : k[s] = IF s = {} THEN start ELSE Step(k[s \ {Max(s)}], is[Max(s)])
  BY <1>11
<1> DEFINE T == {s \in SUBSET (1..n) : k[s] \in Acc(db)}
<1>13. {} \in T
  BY <1>1, <1>12
<1>14. ASSUME NEW s \in SUBSET (1..n), s # {} PROVE \E x \in s : s \ {x} \in T => s \in T
  <2>1. PICK x \in s : x = Max(s)
    BY <1>7, <1>14
  <2>2. ASSUME s \ {x} \in T PROVE s \in T
    <3>1. k[s] = Step(k[s \ {x}], is[x])
      BY <1>12, <1>14, <2>1
    <3>2. k[s \ {x}] \in Acc(db) /\ is[x] \in DOMAIN db
      BY <2>2
    <3> QED
      BY <1>2, <3>1, <3>2
  <2> QED
    BY <2>2
<1>15. SUBSET (1..n) \subseteq T
  <2> HIDE DEF T
  <2>1. Inductive(1..n, T)
    BY <1>13, <1>14 DEF Inductive
  <2> QED
    BY <2>1, MaxIn, SubsetsBy
<1> QED
  BY <1>3, <1>10, <1>15

(* The search over the rows of some ticks.                                 *)
LEMMA SearchType ==
  ASSUME NEW db, Table(db), NEW c \in Cache, NEW T
  PROVE  /\ get_firstbloods(db, c, RowsIn(db, T)) \in Acc(db)
         /\ get_firstbloods(db, c, RowsIn(db, T)).cache \in Cache
         /\ get_firstbloods(db, c, RowsIn(db, T)).found \in Found(db)
<1>1. PICK N \in Nat : DOMAIN db = 1..N
  BY RowOf
<1>2. PICK is : is = RowsIn(db, T)
  OBVIOUS
<1>3. Indices(is, db, T)
  BY <1>1, <1>2, RowsInAre
<1>4. PICK n \in Nat : n = Len(is) /\ is \in [1..n -> DOMAIN db]
  BY <1>3 DEF Indices
<1>5. PICK acc \in Acc(db) : acc = get_firstbloods(db, c, is)
  BY <1>4, FirstBloodsType
<1>6. acc.cache \in Cache /\ acc.found \in Found(db)
  BY DEF Acc
<1> QED
  BY <1>2, <1>5, <1>6

(* recompute_first_blood_flags finds levels of rows, too.                  *)
LEMMA RecomputationType ==
  ASSUME NEW db, Table(db)
  PROVE  DefaultRecomputation(db) \in Found(db) /\ MultiRecomputation(db) \in Found(db)
<1>1. DefaultRecomputation(db) \in Found(db)
  <2>1. 1 \in 0..Cardinality(Teams)
    BY TeamSets
  <2>2. FirstRows(db) \subseteq DOMAIN db
    BY DEF FirstRows
  <2>3. PICK c : c = [NoCache EXCEPT !.max = [k \in Keys |-> IF \E i \in FirstRows(db) : Key(db[i]) = k THEN 1 ELSE 0]]
    OBVIOUS
  <2>4. DefaultRecomputation(db) = {<<i, 1>> : i \in {i \in FirstRows(db) : DefaultIsFirst(db, c, i)}}
    BY <2>3 DEF DefaultRecomputation
  <2>5. PICK S : S = {i \in FirstRows(db) : DefaultIsFirst(db, c, i)} /\ S \subseteq DOMAIN db
    BY <2>2
  <2>6. {<<i, 1>> : i \in S} \in Found(db)
    BY <2>1, <2>5 DEF Found
  <2> QED
    BY <2>4, <2>5, <2>6
<1> DEFINE V == [cache: Cache, found: Found(db), done: BOOLEAN]
           Step(acc, m) == IF acc.done THEN acc
                           ELSE LET new == get_firstbloods(db, acc.cache, RowsIn(db, {m}))
                                IN [cache |-> new.cache, found |-> acc.found \cup new.found,
                                    done |-> new.found # {} /\ AllDone(new.cache)]
           start == [cache |-> NoCache, found |-> {}, done |-> FALSE]
           is == [m \in Ticks |-> m]
           n == MaxTick
           F == [x \in 1..n |-> [acc \in V |-> Step(acc, is[x])]]
           Q(g) == g = [s \in SUBSET (1..n) |-> IF s = {} THEN start ELSE Step(g[s \ {Max(s)}], is[Max(s)])]
<1>2. NoCache \in Cache
  BY DEF NoCache, Cache
<1>3. start \in V
  BY <1>2 DEF Found
<1>4. ASSUME NEW acc \in V, NEW m PROVE Step(acc, m) \in V
  <2>1. acc.cache \in Cache /\ acc.found \in Found(db)
    OBVIOUS
  <2>2. PICK new : new = get_firstbloods(db, acc.cache, RowsIn(db, {m}))
    OBVIOUS
  <2>3. new.cache \in Cache /\ new.found \in Found(db)
    BY <2>1, <2>2, SearchType
  <2>4. acc.found \cup new.found \in Found(db)
    BY <2>1, <2>3 DEF Found
  <2>5. (new.found # {} /\ AllDone(new.cache)) \in BOOLEAN
    OBVIOUS
  <2>6. [cache |-> new.cache, found |-> acc.found \cup new.found, done |-> new.found # {} /\ AllDone(new.cache)] \in V
    BY <2>3, <2>4, <2>5
  <2>7. ~acc.done => Step(acc, m) = [cache |-> new.cache, found |-> acc.found \cup new.found,
                                      done |-> new.found # {} /\ AllDone(new.cache)]
    BY <2>2
  <2>8. acc.done => Step(acc, m) = acc
    OBVIOUS
  <2>9. acc.done \in BOOLEAN
    OBVIOUS
  <2> HIDE DEF Step, V
  <2> QED
    BY <1>4, <2>6, <2>7, <2>8, <2>9
<1>5. n \in Nat
  BY ScoringAssumption
<1>6. MultiRecomputation(db) = (CHOOSE g : Q(g))[1..n].found
  <2>1. DOMAIN is = 1..n
    BY DEF Ticks
  <2> QED
    BY <2>1 DEF MultiRecomputation, FoldLeft, MapThenFoldSet
<1> HIDE DEF Step, start, is, V
<1>7. F \in [1..n -> [V -> V]]
  BY <1>4
<1>8. \A x \in 1..n, acc \in V : F[x][acc] = Step(acc, is[x])
  OBVIOUS
<1> HIDE DEF F, n
<1>9. PICK g \in [SUBSET (1..n) -> V] : FoldsLeft(g, n, start, F)
  BY <1>3, <1>5, <1>7, FoldLeftExists
<1>10. IsFiniteSet(1..n) /\ \A s \in SUBSET (1..n) : s # {} => Max(s) \in s
  BY <1>5, MaxIn
<1>11. ASSUME NEW s \in SUBSET (1..n) PROVE g[s] = IF s = {} THEN start ELSE Step(g[s \ {Max(s)}], is[Max(s)])
  <2>1. Max(s) = Top(s)
    BY DEF Max, Top
  <2>2. g[s] = IF s = {} THEN start ELSE F[Max(s)][g[s \ {Max(s)}]]
    BY <1>9, <2>1 DEF FoldsLeft
  <2>3. s # {} => Max(s) \in 1..n /\ g[s \ {Max(s)}] \in V
    BY <1>10
  <2> QED
    BY <1>8, <2>2, <2>3
<1>12. Q(g)
  BY <1>11
<1>13. PICK k : k = CHOOSE h : Q(h)
  OBVIOUS
<1>14. Q(k)
  <2> HIDE DEF Q
  <2> QED
    BY <1>12, <1>13
<1>15. \A s \in SUBSET (1..n) : k[s] = IF s = {} THEN start ELSE Step(k[s \ {Max(s)}], is[Max(s)])
  BY <1>14
<1> DEFINE T == {s \in SUBSET (1..n) : k[s] \in V}
<1>16. {} \in T
  BY <1>3, <1>15
<1>17. ASSUME NEW s \in SUBSET (1..n), s # {} PROVE \E x \in s : s \ {x} \in T => s \in T
  <2>1. PICK x \in s : x = Max(s)
    BY <1>10, <1>17
  <2>2. ASSUME s \ {x} \in T PROVE s \in T
    <3>1. k[s] = Step(k[s \ {x}], is[x])
      BY <1>15, <1>17, <2>1
    <3> QED
      BY <1>4, <2>2, <3>1
  <2> QED
    BY <2>2
<1>18. SUBSET (1..n) \subseteq T
  <2> HIDE DEF T
  <2>1. Inductive(1..n, T)
    BY <1>16, <1>17 DEF Inductive
  <2> QED
    BY <2>1, <1>10, SubsetsBy
<1>19. k[1..n] \in V
  BY <1>18
<1>20. k[1..n].found \in Found(db)
  BY <1>19 DEF V
<1> QED
  BY <1>1, <1>6, <1>13, <1>20

(* recompute_first_blood_flags changes nothing else in the rows.           *)
LEMMA RecomputeTable ==
  ASSUME Table(rows), recompute_first_blood_flags
  PROVE  Like(rows', rows) /\ Table(rows')
<1>1. PICK db : db = Unmarked
  OBVIOUS
<1>2. db \in [DOMAIN rows -> Row] /\ Like(db, rows)
  <2>1. \A i \in DOMAIN rows : rows[i] \in Row
    BY RowOf
  <2>2. \A r \in Row : LET q == [r EXCEPT !.fb = 0] IN q \in Row /\ q.flag = r.flag /\ q.by = r.by /\ q.tick = r.tick
    BY TeamSets DEF Row
  <2>3. DOMAIN db = DOMAIN rows /\ \A i \in DOMAIN rows : db[i] = [rows[i] EXCEPT !.fb = 0]
    BY <1>1 DEF Unmarked
  <2>4. db \in [DOMAIN rows -> Row]
    BY <1>1, <2>1, <2>2 DEF Unmarked
  <2> QED
    BY <2>1, <2>2, <2>3, <2>4 DEF Like
<1>3. Table(db)
  BY <1>2, LikeTable
<1>4. PICK found \in Found(db) : rows' = Record(db, found)
  BY <1>1, <1>3, RecomputationType DEF recompute_first_blood_flags
<1>5. Like(rows', db) /\ Table(rows')
  BY <1>3, <1>4, Recorded
<1>6. Like(rows', rows)
  BY <1>2, <1>5 DEF Like
<1> QED
  BY <1>5, <1>6

(* What reset_database leaves is a table, with the rows of the ticks up to *)
(* n.                                                                      *)
LEMMA ResetTable ==
  ASSUME Table(rows), NEW n \in Ticks, reset_database(n)
  PROVE  /\ Table(rows')
         /\ \A f, a : \A b \in Ticks : b <= n /\ a \in Nat \ {0} => Submitters(f, a, b)' = Submitters(f, a, b)
<1>1. PICK N \in Nat : DOMAIN rows = 1..N /\ rows \in [1..N -> Row]
  BY RowOf
<1>2. PICK is : is = RowsIn(rows, 1..n)
  OBVIOUS
<1>3. Indices(is, rows, 1..n)
  BY <1>1, <1>2, RowsInAre
<1>4. PICK m \in Nat : m = Len(is)
  BY <1>3 DEF Indices
<1>5. /\ is \in [1..m -> DOMAIN rows] /\ \A i \in 1..m : rows[is[i]].tick \in 1..n
      /\ \A i, j \in 1..m : i < j => is[i] < is[j]
      /\ \A x \in DOMAIN rows : rows[x].tick \in 1..n => \E i \in 1..m : is[i] = x
  BY <1>3, <1>4 DEF Indices
<1>6. rows' = [i \in 1..m |-> rows[is[i]]]
  <2>1. rows' = [i \in DOMAIN is |-> rows[is[i]]] /\ DOMAIN is = 1..m
    BY <1>2, <1>5 DEF reset_database
  <2> QED
    BY <2>1
<1>7. DOMAIN rows' = 1..m /\ \A i \in 1..m : rows'[i] = rows[is[i]] /\ is[i] \in DOMAIN rows
  BY <1>5, <1>6
<1>8. rows' \in Seq(Row)
  BY <1>1, <1>5, <1>6
<1>9. \A i \in DOMAIN rows' : rows'[i].tick \in rows'[i].flag.issued..(rows'[i].flag.issued + Valid)
  BY <1>7 DEF Table
<1>10. ASSUME NEW i \in DOMAIN rows', NEW j \in DOMAIN rows', rows'[i].flag = rows'[j].flag, rows'[i].by = rows'[j].by
       PROVE  i = j
  <2>1. is[i] = is[j]
    BY <1>7, <1>10 DEF Table
  <2>2. i \in 1..m /\ j \in 1..m /\ is[i] \in Int /\ is[j] \in Int
    BY <1>1, <1>7
  <2>3. ~(i < j) /\ ~(j < i)
    BY <1>5, <2>1, <2>2
  <2> QED
    BY <2>2, <2>3
<1>11. ASSUME NEW f, NEW a \in Nat \ {0}, NEW b \in Ticks, b <= n
       PROVE  Submitters(f, a, b)' = Submitters(f, a, b)
  <2>1. ASSUME NEW t PROVE t \in Submitters(f, a, b)' <=> t \in Submitters(f, a, b)
    <3>1. t \in Submitters(f, a, b)' <=> \E i \in DOMAIN rows' : rows'[i].flag = f /\ rows'[i].by = t /\ rows'[i].tick \in a..b
      BY DEF Submitters, ToSet
    <3>2. ASSUME NEW i \in DOMAIN rows', rows'[i].flag = f, rows'[i].by = t, rows'[i].tick \in a..b
          PROVE  \E j \in DOMAIN rows : rows[j].flag = f /\ rows[j].by = t /\ rows[j].tick \in a..b
      BY <1>7, <3>2
    <3>3. ASSUME NEW j \in DOMAIN rows, rows[j].flag = f, rows[j].by = t, rows[j].tick \in a..b
          PROVE  \E i \in DOMAIN rows' : rows'[i].flag = f /\ rows'[i].by = t /\ rows'[i].tick \in a..b
      <4>1. rows[j].tick \in 1..n
        BY <1>11, <3>3 DEF Ticks
      <4>2. PICK i \in 1..m : is[i] = j
        BY <1>5, <4>1
      <4> QED
        BY <1>7, <3>3, <4>2
    <3> QED
      BY <3>1, <3>2, <3>3, SubmittersAre
  <2> QED
    BY <2>1
<1> QED
  BY <1>8, <1>9, <1>10, <1>11 DEF Table

(* The first of the missing ticks before n, or n.                          *)
LEMMA FirstMissingIs ==
  ASSUME NEW n \in Ticks
  PROVE  /\ FirstMissing(n) \in 1..n /\ FirstMissing(n) \in Ticks
         /\ FirstMissing(n) = 1 \/ points[FirstMissing(n) - 1] # None
         /\ \A k \in FirstMissing(n)..(n - 1) : points[k] = None
<1> DEFINE P(j) == (j = 1 \/ points[j - 1] # None) /\ \A k \in j..(n - 1) : points[k] = None
           T == {j \in 1..n : \A k \in j..(n - 1) : points[k] = None}
<1>1. n \in Nat /\ n >= 1 /\ n <= MaxTick /\ MaxTick \in Nat
  BY ScoringAssumption DEF Ticks
<1>2. n \in T /\ T \in SUBSET Nat
  BY <1>1
<1>3. PICK j \in T : \A k \in T : j <= k
  BY <1>2, LeastNat
<1>4. j \in 1..n /\ P(j)
  <2>1. j \in 1..n /\ \A k \in j..(n - 1) : points[k] = None
    OBVIOUS
  <2>2. ASSUME j # 1, points[j - 1] = None PROVE FALSE
    <3>1. j - 1 \in 1..n /\ j - 1 < j
      BY <1>1, <2>1, <2>2
    <3>2. \A k \in (j - 1)..(n - 1) : k = j - 1 \/ k \in j..(n - 1)
      BY <1>1, <2>1
    <3>3. j - 1 \in T
      BY <2>1, <2>2, <3>1, <3>2
    <3> QED
      BY <1>1, <1>3, <2>1, <3>1, <3>3
  <2> QED
    BY <2>1, <2>2
<1>5. FirstMissing(n) = CHOOSE i \in 1..n : P(i)
  BY DEF FirstMissing
<1> HIDE DEF P
<1>6. FirstMissing(n) \in 1..n /\ P(FirstMissing(n))
  BY <1>4, <1>5
<1>7. FirstMissing(n) \in Ticks
  BY <1>1, <1>6 DEF Ticks
<1> QED
  BY <1>6, <1>7 DEF P

-----------------------------------------------------------------------------
(* The points of a tick as sums.                                           *)

Mine(t, n) == {i \in DOMAIN rows : rows[i].tick = n /\ rows[i].by = t}
Stolen(n) == {r.flag : r \in FlagsOf(n)}
Had(t, n) == {f \in Stolen(n) : t \in Previous(f, n)}
Own(t, n) == {f \in Stolen(n) : f.team = t}

Worths(t, n) == [i \in Mine(t, n) |-> off_points(rows[i].flag, n)]
Bonuses(t, n) == [i \in Mine(t, n) |-> Cardinality(Teams) - VictimRank(rows[i].flag, n)]
Corrections(t, n) == [f \in Had(t, n) |-> Worth[Submissions(f, n)] - Worth[Cardinality(Previous(f, n))]]
Losses(t, n) ==
  [f \in Own(t, n) |-> (Damage[Submissions(f, n)] - Damage[Cardinality(Previous(f, n))]) * SlaDelta(f.issued, n, t)]

(* The sums that the algorithm folds over sets.                            *)
LEMMA CorrectionSum ==
  ASSUME NEW t, NEW n
  PROVE  PreviousCorrection(t, n) = IF algo[1] = "playground" THEN 0 ELSE SumOver(Corrections(t, n), Had(t, n))
<1> DEFINE S == Had(t, n)
           F == Corrections(t, n)
           pick(s) == CHOOSE x \in s : TRUE
           val(f) == Worth[Submissions(f, n)] - Worth[Cardinality(Previous(f, n))]
           P(g) == g = [s \in SUBSET S |-> IF s = {} THEN 0 ELSE F[pick(s)] + g[s \ {pick(s)}]]
           Q(g) == g = [s \in SUBSET S |-> IF s = {} THEN 0 ELSE val(pick(s)) + g[s \ {pick(s)}]]
<1>1. SumOver(F, S) = (CHOOSE g : P(g))[S]
  BY DEF SumOver
<1>2. PreviousCorrection(t, n) = IF algo[1] = "playground" THEN 0 ELSE (CHOOSE g : Q(g))[S]
  BY DEF PreviousCorrection, MapThenSumSet, MapThenFoldSet, Had, Stolen
<1>3. \A s \in SUBSET S : s # {} => F[pick(s)] = val(pick(s))
  BY DEF Corrections
<1> HIDE DEF pick, val, F, S
<1>4. ASSUME NEW g PROVE P(g) <=> Q(g)
  BY <1>3
<1> HIDE DEF P, Q
<1>5. (CHOOSE g : P(g)) = (CHOOSE g : Q(g))
  BY <1>4
<1> QED
  BY <1>1, <1>2, <1>5 DEF F, S

(* Of the flags that were stolen from a team.                              *)
LEMMA LostSum ==
  ASSUME NEW t, NEW n
  PROVE  Lost(t, n) = SumOver(Losses(t, n), Own(t, n))
<1> DEFINE S == Own(t, n)
           F == Losses(t, n)
           pick(s) == CHOOSE x \in s : TRUE
           val(f) == (Damage[Submissions(f, n)] - Damage[Cardinality(Previous(f, n))]) * SlaDelta(f.issued, n, t)
           P(g) == g = [s \in SUBSET S |-> IF s = {} THEN 0 ELSE F[pick(s)] + g[s \ {pick(s)}]]
           Q(g) == g = [s \in SUBSET S |-> IF s = {} THEN 0 ELSE val(pick(s)) + g[s \ {pick(s)}]]
<1>1. SumOver(F, S) = (CHOOSE g : P(g))[S]
  BY DEF SumOver
<1>2. Lost(t, n) = (CHOOSE g : Q(g))[S]
  BY DEF Lost, MapThenSumSet, MapThenFoldSet, Own, Stolen
<1>3. \A s \in SUBSET S : s # {} => F[pick(s)] = val(pick(s))
  BY DEF Losses
<1> HIDE DEF pick, val, F, S
<1>4. ASSUME NEW g PROVE P(g) <=> Q(g)
  BY <1>3
<1> HIDE DEF P, Q
<1>5. (CHOOSE g : P(g)) = (CHOOSE g : Q(g))
  BY <1>4
<1> QED
  BY <1>1, <1>2, <1>5 DEF F, S

(* Of the rows of a team.                                                  *)
LEMMA MineSums ==
  ASSUME NEW t, NEW n
  PROVE  /\ MapThenSumSet(LAMBDA i : off_points(rows[i].flag, n), Mine(t, n)) = SumOver(Worths(t, n), Mine(t, n))
         /\ MapThenSumSet(LAMBDA i : Cardinality(Teams) - VictimRank(rows[i].flag, n), Mine(t, n))
              = SumOver(Bonuses(t, n), Mine(t, n))
<1> DEFINE S == Mine(t, n)
           F == Worths(t, n)
           G == Bonuses(t, n)
           pick(s) == CHOOSE x \in s : TRUE
           val(i) == off_points(rows[i].flag, n)
           bon(i) == Cardinality(Teams) - VictimRank(rows[i].flag, n)
           P(g) == g = [s \in SUBSET S |-> IF s = {} THEN 0 ELSE F[pick(s)] + g[s \ {pick(s)}]]
           Q(g) == g = [s \in SUBSET S |-> IF s = {} THEN 0 ELSE val(pick(s)) + g[s \ {pick(s)}]]
           R(g) == g = [s \in SUBSET S |-> IF s = {} THEN 0 ELSE G[pick(s)] + g[s \ {pick(s)}]]
           T(g) == g = [s \in SUBSET S |-> IF s = {} THEN 0 ELSE bon(pick(s)) + g[s \ {pick(s)}]]
<1>1. SumOver(F, S) = (CHOOSE g : P(g))[S] /\ SumOver(G, S) = (CHOOSE g : R(g))[S]
  BY DEF SumOver
<1>2. MapThenSumSet(LAMBDA i : off_points(rows[i].flag, n), S) = (CHOOSE g : Q(g))[S]
  BY DEF MapThenSumSet, MapThenFoldSet
<1>6. MapThenSumSet(LAMBDA i : Cardinality(Teams) - VictimRank(rows[i].flag, n), S) = (CHOOSE g : T(g))[S]
  BY DEF MapThenSumSet, MapThenFoldSet
<1>3. \A s \in SUBSET S : s # {} => F[pick(s)] = val(pick(s)) /\ G[pick(s)] = bon(pick(s))
  BY DEF Worths, Bonuses
<1> HIDE DEF pick, val, bon, F, G, S
<1>4. ASSUME NEW g PROVE (P(g) <=> Q(g)) /\ (R(g) <=> T(g))
  BY <1>3
<1> HIDE DEF P, Q, R, T
<1>5. (CHOOSE g : P(g)) = (CHOOSE g : Q(g)) /\ (CHOOSE g : R(g)) = (CHOOSE g : T(g))
  BY <1>4
<1> QED
  BY <1>1, <1>2, <1>5, <1>6 DEF F, G, S

(* The points of a team as the algorithm calculates them.                  *)
Scored(n, t) ==
  [worth |-> Before(n)[t].worth + (IF algo[1] = "playground" THEN 0 ELSE SumOver(Corrections(t, n), Had(t, n)))
               + SumOver(Worths(t, n), Mine(t, n)),
   bonus |-> Before(n)[t].bonus + SumOver(Bonuses(t, n), Mine(t, n)),
   def |-> Before(n)[t].def - SumOver(Losses(t, n), Own(t, n)),
   sla |-> Before(n)[t].sla + sla_points(Result(n)[t]), delta |-> sla_points(Result(n)[t]),
   captured |-> Before(n)[t].captured + Cardinality(Mine(t, n)),
   stolen |-> Before(n)[t].stolen + StolenFirst(t, n)]
(* They are those sums.                                                    *)
LEMMA ScoringIs ==
  ASSUME NEW n
  PROVE  calculate_scoring(n) = [t \in Teams |-> Scored(n, t)]
<1>1. ASSUME NEW t \in Teams PROVE calculate_scoring(n)[t] = Scored(n, t)
  <2>1. _calculate_sla(n)[t] = sla_points(Result(n)[t])
    BY DEF _calculate_sla
  <2>2. Mine(t, n) = {i \in DOMAIN rows : rows[i].tick = n /\ rows[i].by = t}
    BY DEF Mine
  <2> QED
    BY <2>1, <2>2, CorrectionSum, LostSum, MineSums DEF calculate_scoring, Scored
<1>2. calculate_scoring(n) = [t \in Teams |-> calculate_scoring(n)[t]]
  BY DEF calculate_scoring
<1> QED
  BY <1>1, <1>2

-----------------------------------------------------------------------------
(* The ranking.                                                            *)

(* One round of the loop, and the teams with points among the first j.     *)
RankStep(total, acc, t) ==
  LET r == IF acc.prev # 0 /\ total[acc.prev] = total[t] THEN acc.rank[acc.prev] ELSE acc.i
  IN [prev |-> t, rank |-> [acc.rank EXCEPT ![t] = r], i |-> IF total[t] > 0 THEN acc.i + 1 ELSE acc.i]
Scorers(total, order, j) == {u \in DOMAIN total : total[u] > 0 /\ \E m \in 1..j : u = order[m]}

(* The order of the teams: the ones with more points first, each once.     *)
Descends(order, total, n) ==
  /\ order \in [1..n -> DOMAIN total]
  /\ \A i, j \in 1..n : i < j => total[order[i]] >= total[order[j]]
  /\ \A i, j \in 1..n : order[i] = order[j] => i = j
  /\ \A u \in DOMAIN total : \E i \in 1..n : order[i] = u
(* ByPoints is such an order.                                              *)
LEMMA PointsOrder ==
  ASSUME NEW D, IsFiniteSet(D), D \subseteq Nat \ {0}, NEW total \in [D -> Int]
  PROVE  Descends(ByPoints(total), total, Cardinality(D)) /\ Cardinality(D) \in Nat
<1> DEFINE R == {x \in D \X D : total[x[1]] > total[x[2]] \/ (total[x[1]] = total[x[2]] /\ x[1] < x[2])}
<1>1. ByPoints(total) = InOrder(D, R) /\ DOMAIN total = D
  BY DEF ByPoints
<1>2. ASSUME NEW x \in D, NEW y \in D
      PROVE  <<x, y>> \in R <=> total[x] > total[y] \/ (total[x] = total[y] /\ x < y)
  <2>1. <<x, y>> \in D \X D /\ <<x, y>>[1] = x /\ <<x, y>>[2] = y
    OBVIOUS
  <2> QED
    BY <2>1
<1> HIDE DEF R
<1>3. \A x \in D : x \in Int /\ total[x] \in Int
  OBVIOUS
<1>4. Line(D, R)
  <2>1. \A x \in D : <<x, x>> \notin R
    BY <1>2, <1>3
  <2>2. \A x \in D, y \in D : x # y => <<x, y>> \in R \/ <<y, x>> \in R
    BY <1>2, <1>3
  <2>3. ASSUME NEW x \in D, NEW y \in D, NEW z \in D, <<x, y>> \in R, <<y, z>> \in R PROVE <<x, z>> \in R
    BY <1>2, <1>3, <2>3
  <2> QED
    BY <2>1, <2>2, <2>3 DEF Line
<1>5. PICK s : s = InOrder(D, R)
  OBVIOUS
<1>6. SortedBy(s, D, R)
  BY <1>4, <1>5, OrderIs
<1>7. PICK n \in Nat : n = Cardinality(D)
  BY FS_CardinalityType
<1>8. s \in [1..n -> D] /\ \A i, j \in 1..n : i < j => <<s[i], s[j]>> \in R
  BY <1>6, <1>7 DEF SortedBy
<1>9. ASSUME NEW i \in 1..n, NEW j \in 1..n, i < j PROVE total[s[i]] >= total[s[j]]
  <2>1. s[i] \in D /\ s[j] \in D /\ <<s[i], s[j]>> \in R
    BY <1>8, <1>9
  <2>2. total[s[i]] > total[s[j]] \/ total[s[i]] = total[s[j]]
    BY <1>2, <2>1
  <2>3. total[s[i]] \in Int /\ total[s[j]] \in Int
    BY <1>3, <2>1
  <2> QED
    BY <2>2, <2>3
<1>10. (\A i, j \in 1..n : s[i] = s[j] => i = j) /\ (\A x \in D : \E i \in 1..n : s[i] = x)
  BY <1>4, <1>6, <1>7, SortedAll
<1> QED
  BY <1>1, <1>5, <1>7, <1>8, <1>9, <1>10 DEF Descends

(* The loop goes through the order step by step.                           *)
Accs(D) == [prev: D \cup {0}, rank: [D -> Int], i: Int]
Loop(a, total, order, n) ==
  /\ a[0] = [prev |-> 0, rank |-> [t \in DOMAIN total |-> 0], i |-> 1]
  /\ \A j \in 1..n : a[j] = RankStep(total, a[j - 1], order[j])
Looped(total, order, n, D) ==
  \E a \in [0..n -> Accs(D)] : Loop(a, total, order, n) /\ RankLoop(order, total) = a[n].rank
(* RankLoop is its end.                                                    *)
LEMMA RankLoopIs ==
  ASSUME NEW D, 0 \notin D, NEW total \in [D -> Int], NEW n \in Nat, NEW order \in [1..n -> D]
  PROVE  Looped(total, order, n, D)
<1> DEFINE V == Accs(D)
           Step(acc, t) == RankStep(total, acc, t)
           start == [prev |-> 0, rank |-> [t \in D |-> 0], i |-> 1]
           F == [x \in 1..n |-> [acc \in V |-> Step(acc, order[x])]]
           Q(g) == g = [s \in SUBSET (1..n) |-> IF s = {} THEN start ELSE Step(g[s \ {Max(s)}], order[Max(s)])]
<1>0. DOMAIN total = D /\ DOMAIN order = 1..n
  OBVIOUS
<1>1. start \in V
  BY DEF Accs
<1>2. ASSUME NEW acc \in V, NEW t \in D PROVE Step(acc, t) \in V
  <2>1. acc.prev \in D \cup {0} /\ acc.rank \in [D -> Int] /\ acc.i \in Int
    BY DEF Accs
  <2>2. PICK r \in Int : r = IF acc.prev # 0 /\ total[acc.prev] = total[t] THEN acc.rank[acc.prev] ELSE acc.i
    BY <2>1
  <2>3. PICK k \in Int : k = IF total[t] > 0 THEN acc.i + 1 ELSE acc.i
    BY <2>1
  <2>4. [acc.rank EXCEPT ![t] = r] \in [D -> Int]
    BY <2>1
  <2>5. Step(acc, t) = [prev |-> t, rank |-> [acc.rank EXCEPT ![t] = r], i |-> k]
    BY <2>2, <2>3 DEF RankStep
  <2> QED
    BY <2>4, <2>5 DEF Accs
<1>3. RankLoop(order, total) = (CHOOSE g : Q(g))[1..n].rank
  BY <1>0 DEF RankLoop, FoldLeft, MapThenFoldSet, RankStep
<1> HIDE DEF Step, start, V
<1>4. F \in [1..n -> [V -> V]]
  BY <1>2
<1>5. \A x \in 1..n, acc \in V : F[x][acc] = Step(acc, order[x])
  OBVIOUS
<1> HIDE DEF F
<1>6. PICK g \in [SUBSET (1..n) -> V] : FoldsLeft(g, n, start, F)
  BY <1>1, <1>4, FoldLeftExists
<1>7. IsFiniteSet(1..n) /\ \A s \in SUBSET (1..n) : s # {} => Max(s) \in s
  BY MaxIn
<1>8. ASSUME NEW s \in SUBSET (1..n) PROVE g[s] = IF s = {} THEN start ELSE Step(g[s \ {Max(s)}], order[Max(s)])
  <2>1. Max(s) = Top(s)
    BY DEF Max, Top
  <2>2. g[s] = IF s = {} THEN start ELSE F[Max(s)][g[s \ {Max(s)}]]
    BY <1>6, <2>1 DEF FoldsLeft
  <2>3. s # {} => Max(s) \in 1..n /\ g[s \ {Max(s)}] \in V
    BY <1>7
  <2> QED
    BY <1>5, <2>2, <2>3
<1>9. Q(g)
  BY <1>8
<1>10. PICK k : k = CHOOSE h : Q(h)
  OBVIOUS
<1>11. Q(k)
  <2> HIDE DEF Q
  <2> QED
    BY <1>9, <1>10
<1>12. \A s \in SUBSET (1..n) : k[s] = IF s = {} THEN start ELSE Step(k[s \ {Max(s)}], order[Max(s)])
  BY <1>11
<1>13. k[1..0] = start
  <2>1. 1..0 = {} /\ {} \in SUBSET (1..n)
    OBVIOUS
  <2> QED
    BY <1>12, <2>1
<1>14. ASSUME NEW j \in 1..n PROVE k[1..j] = Step(k[1..(j - 1)], order[j])
  <2>1. Top(1..j) = j /\ (1..j) \ {j} = 1..(j - 1) /\ 1..j \in SUBSET (1..n) /\ 1..j # {}
    BY TopLast
  <2>2. Max(1..j) = j
    BY <2>1 DEF Max, Top
  <2> QED
    BY <1>12, <2>1, <2>2
<1> DEFINE T == {j \in Nat : j > n \/ k[1..j] \in V}
<1>15. 0 \in T
  BY <1>1, <1>13
<1>16. ASSUME NEW j \in Nat, j \in T PROVE j + 1 \in T
  <2>1. CASE j + 1 > n
    BY <2>1
  <2>2. CASE j + 1 <= n
    <3>1. k[1..j] \in V /\ j + 1 \in 1..n /\ (j + 1) - 1 = j
      BY <1>16, <2>2
    <3>2. k[1..(j + 1)] = Step(k[1..j], order[j + 1])
      BY <1>14, <3>1
    <3> QED
      BY <1>2, <3>1, <3>2
  <2> QED
    BY <2>1, <2>2
<1>17. \A j \in Nat : j \in T
  <2> HIDE DEF T
  <2> QED
    BY <1>15, <1>16, NatsBy
<1> DEFINE a == [j \in 0..n |-> k[1..j]]
<1>18. a \in [0..n -> V]
  <2>1. \A j \in 0..n : k[1..j] \in V
    BY <1>17
  <2> QED
    BY <2>1
<1>19. a[0] = start /\ a[n] = k[1..n] /\ \A j \in 1..n : a[j] = Step(a[j - 1], order[j])
  BY <1>13, <1>14
<1> HIDE DEF a
<1>20. Loop(a, total, order, n)
  BY <1>0, <1>19 DEF Loop, Step, start
<1>21. RankLoop(order, total) = a[n].rank
  BY <1>3, <1>10, <1>19
<1> QED
  BY <1>18, <1>20, <1>21 DEF V, Looped

(* A rank is one more than the number of teams with more points.           *)
LEMMA RanksAre ==
  ASSUME NEW D, IsFiniteSet(D), D \subseteq Nat \ {0}, NEW total \in [D -> Int]
  PROVE  order_by_points(total) = [t \in D |-> CountRank(total, t)]
<1>0. PICK n \in Nat : n = Cardinality(D)
  BY FS_CardinalityType
<1>1. PICK order \in [1..n -> D] : order = ByPoints(total) /\ Descends(order, total, n)
  <2>1. Descends(ByPoints(total), total, Cardinality(D)) /\ Cardinality(D) \in Nat /\ DOMAIN total = D
    BY PointsOrder
  <2> QED
    BY <1>0, <2>1 DEF Descends
<1>2. 0 \notin D /\ DOMAIN total = D
  OBVIOUS
<1>3. PICK a \in [0..n -> Accs(D)] : Loop(a, total, order, n) /\ RankLoop(order, total) = a[n].rank
  <2>1. Looped(total, order, n, D)
    BY <1>2, RankLoopIs
  <2> QED
    BY <2>1 DEF Looped
<1> DEFINE Good(j) ==
             /\ j > 0 => a[j].prev = order[j]
             /\ j = 0 => a[j].prev = 0
             /\ a[j].i = 1 + Cardinality(Scorers(total, order, j))
             /\ \A m \in 1..j : a[j].rank[order[m]] = CountRank(total, order[m])
           T == {j \in Nat : j > n \/ Good(j)}
<1>4. ASSUME NEW j \in 0..n
      PROVE  IsFiniteSet(Scorers(total, order, j)) /\ Cardinality(Scorers(total, order, j)) \in Nat
  <2>1. Scorers(total, order, j) \subseteq D
    BY <1>2 DEF Scorers
  <2> QED
    BY <2>1, FS_Subset, FS_CardinalityType
<1>5. 0 \in T
  <2>1. Scorers(total, order, 0) = {}
    BY DEF Scorers
  <2>2. Cardinality(Scorers(total, order, 0)) = 0
    BY <2>1, FS_EmptySet
  <2>3. a[0].prev = 0 /\ a[0].i = 1
    BY <1>3 DEF Loop
  <2> QED
    BY <2>2, <2>3
<1>6. ASSUME NEW j \in Nat, j < n, Good(j) PROVE Good(j + 1)
  <2>1. j + 1 \in 1..n /\ j \in 0..n /\ (j + 1) - 1 = j
    BY <1>6
  <2>2. PICK t \in D : t = order[j + 1]
    BY <2>1
  <2>3. PICK acc \in Accs(D) : acc = a[j]
    BY <2>1
  <2>4. acc.prev \in D \cup {0} /\ acc.rank \in [D -> Int] /\ acc.i \in Int
    BY DEF Accs
  <2>5. PICK r : r = IF acc.prev # 0 /\ total[acc.prev] = total[t] THEN acc.rank[acc.prev] ELSE acc.i
    OBVIOUS
  <2>6. a[j + 1] = [prev |-> t, rank |-> [acc.rank EXCEPT ![t] = r], i |-> IF total[t] > 0 THEN acc.i + 1 ELSE acc.i]
    <3>1. a[j + 1] = RankStep(total, acc, t)
      BY <1>3, <2>1, <2>2, <2>3 DEF Loop
    <3> QED
      BY <2>5, <3>1 DEF RankStep
  <2>7. a[j + 1].prev = t /\ a[j + 1].rank = [acc.rank EXCEPT ![t] = r]
        /\ a[j + 1].i = IF total[t] > 0 THEN acc.i + 1 ELSE acc.i
    BY <2>6
  <2>8. a[j + 1].i = 1 + Cardinality(Scorers(total, order, j + 1))
    <3> DEFINE A == Scorers(total, order, j)
               B == Scorers(total, order, j + 1)
    <3>1. \A m \in 1..(j + 1) : m = j + 1 \/ m \in 1..j
      OBVIOUS
    <3>2. \A m \in 1..j : m \in 1..(j + 1) /\ m \in 1..n /\ m # j + 1
      BY <1>6
    <3>3. j + 1 \in 1..(j + 1)
      OBVIOUS
    <3>4. t \notin A
      BY <1>1, <2>1, <2>2, <3>2 DEF Scorers, Descends
    <3>5. total[t] > 0 => B = A \cup {t}
      BY <1>2, <2>2, <3>1, <3>2, <3>3 DEF Scorers
    <3>6. ~(total[t] > 0) => B = A
      BY <1>2, <2>2, <3>1, <3>2 DEF Scorers
    <3>7. IsFiniteSet(A) /\ Cardinality(A) \in Nat /\ acc.i = 1 + Cardinality(A)
      BY <1>4, <1>6, <2>1, <2>3
    <3> HIDE DEF A, B
    <3>8. Cardinality(A \cup {t}) = Cardinality(A) + 1
      BY <3>4, <3>7, FS_AddElement
    <3>9. total[t] > 0 => a[j + 1].i = 1 + Cardinality(B)
      <4> SUFFICES ASSUME total[t] > 0 PROVE a[j + 1].i = 1 + Cardinality(B)
        OBVIOUS
      <4>1. a[j + 1].i = acc.i + 1
        BY <2>7
      <4>2. Cardinality(B) = Cardinality(A) + 1
        BY <3>5, <3>8
      <4> QED
        BY <3>7, <4>1, <4>2
    <3>10. ~(total[t] > 0) => a[j + 1].i = 1 + Cardinality(B)
      BY <2>7, <3>6, <3>7
    <3> QED
      BY <3>9, <3>10 DEF B
  <2>9. r = CountRank(total, t)
    <3>1. CASE acc.prev # 0 /\ total[acc.prev] = total[t]
      <4>1. j \in 1..j /\ j > 0 /\ acc.prev = order[j]
        BY <1>6, <2>3, <3>1
      <4>2. acc.rank[acc.prev] = CountRank(total, acc.prev)
        BY <1>6, <2>3, <4>1
      <4>3. CountRank(total, acc.prev) = CountRank(total, t)
        BY <3>1 DEF CountRank
      <4> QED
        BY <2>5, <3>1, <4>2, <4>3
    <3>2. CASE ~(acc.prev # 0 /\ total[acc.prev] = total[t])
      <4>1. ASSUME NEW u \in D PROVE (total[u] > 0 /\ total[u] > total[t]) <=> u \in Scorers(total, order, j)
        <5>1. PICK m \in 1..n : order[m] = u
          BY <1>1, <1>2 DEF Descends
        <5>2. m <= j => m \in 1..j
          OBVIOUS
        <5>3. total[u] \in Int /\ total[t] \in Int
          OBVIOUS
        <5>4. m > j => total[t] >= total[u]
          <6>1. m > j => m = j + 1 \/ j + 1 < m
            BY <2>1
          <6> QED
            BY <1>1, <2>1, <2>2, <5>1, <5>3, <6>1 DEF Descends
        <5>5. m <= j => total[u] > total[t]
          <6> SUFFICES ASSUME m <= j PROVE total[u] > total[t]
            OBVIOUS
          <6>1. j \in 1..n /\ j > 0 /\ j < j + 1
            BY <2>1
          <6>2. acc.prev = order[j]
            BY <1>6, <2>3, <6>1
          <6>3. acc.prev \in D /\ acc.prev # 0
            BY <1>2, <6>1, <6>2
          <6>4. total[acc.prev] # total[t]
            BY <3>2, <6>3
          <6>5. total[acc.prev] >= total[t]
            BY <1>1, <2>1, <2>2, <6>1, <6>2 DEF Descends
          <6>6. total[u] >= total[acc.prev]
            <7>1. m = j \/ m < j
              BY <6>1
            <7>2. m < j => total[u] >= total[acc.prev]
              BY <1>1, <5>1, <6>1, <6>2 DEF Descends
            <7>3. m = j => u = acc.prev
              BY <5>1, <6>2
            <7> QED
              BY <5>3, <7>1, <7>2, <7>3
          <6>7. total[acc.prev] \in Int
            BY <6>3
          <6> QED
            BY <5>3, <6>4, <6>5, <6>6, <6>7
        <5>6. u \in Scorers(total, order, j) <=> total[u] > 0 /\ m <= j
          <6>1. ASSUME NEW l \in 1..j, u = order[l] PROVE m <= j
            <7>1. l \in 1..n
              BY <2>1
            <7>2. l = m
              BY <1>1, <5>1, <6>1, <7>1 DEF Descends
            <7> QED
              BY <7>2
          <6> QED
            BY <1>2, <5>1, <5>2, <6>1 DEF Scorers
        <5>7. m > j \/ m <= j
          BY <2>1
        <5> QED
          BY <5>3, <5>4, <5>5, <5>6, <5>7
      <4>2. {u \in DOMAIN total : total[u] > 0 /\ total[u] > total[t]} = Scorers(total, order, j)
        BY <1>2, <4>1 DEF Scorers
      <4> QED
        BY <1>6, <2>3, <2>5, <3>2, <4>2 DEF CountRank
    <3> QED
      BY <3>1, <3>2
  <2>10. ASSUME NEW m \in 1..(j + 1) PROVE a[j + 1].rank[order[m]] = CountRank(total, order[m])
    <3>1. CASE m = j + 1
      <4>1. [acc.rank EXCEPT ![t] = r][t] = r
        BY <2>4
      <4> QED
        BY <2>2, <2>7, <2>9, <3>1, <4>1
    <3>2. CASE m \in 1..j
      <4>1. m \in 1..n /\ m # j + 1
        BY <2>1, <3>2
      <4>2. order[m] \in D /\ order[m] # t
        BY <1>1, <2>1, <2>2, <4>1 DEF Descends
      <4>3. [acc.rank EXCEPT ![t] = r][order[m]] = acc.rank[order[m]]
        BY <2>4, <4>2
      <4> QED
        BY <1>6, <2>3, <2>7, <3>2, <4>3
    <3> QED
      BY <3>1, <3>2
  <2> QED
    BY <2>2, <2>7, <2>8, <2>10
<1>7. ASSUME NEW j \in Nat, j \in T PROVE j + 1 \in T
  <2>1. j < n => Good(j)
    BY <1>7
  <2>2. ~(j < n) => j + 1 > n
    OBVIOUS
  <2> HIDE DEF Good
  <2> QED
    BY <1>6, <2>1, <2>2
<1>8. n \in T
  <2> HIDE DEF T
  <2> QED
    BY <1>5, <1>7, NatsBy
<1>9. \A m \in 1..n : a[n].rank[order[m]] = CountRank(total, order[m])
  BY <1>8
<1>10. \A u \in D : a[n].rank[u] = CountRank(total, u)
  BY <1>1, <1>2, <1>9 DEF Descends
<1>11. a[n].rank \in [D -> Int]
  <2>1. a[n] \in Accs(D)
    OBVIOUS
  <2> QED
    BY <2>1 DEF Accs
<1>12. a[n].rank = [t \in D |-> CountRank(total, t)]
  BY <1>10, <1>11
<1> QED
  BY <1>1, <1>3, <1>12 DEF order_by_points

-----------------------------------------------------------------------------
(* What the points of a tick are made of has its type.                     *)

Points == [Teams -> TeamPoints]
Ranks == [Teams -> 1..Cardinality(Teams)]
Results == [Teams -> Statuses]

(* No table of teams is None.                                              *)
LEMMA NotNone ==
  ASSUME NEW S, NEW g \in [Teams -> S]
  PROVE  g # None
<1>1. DOMAIN g = Teams /\ DOMAIN None = {}
  BY DEF None
<1> QED
  BY <1>1, ScoringAssumption

(* The flags of a tick.                                                    *)
LEMMA StolenAre ==
  ASSUME NEW n, NEW f
  PROVE  f \in Stolen(n) <=> \E i \in DOMAIN rows : rows[i].tick = n /\ rows[i].flag = f
BY DEF Stolen, FlagsOf, ToSet

(* Who submitted is a team.                                                *)
LEMMA SubmittersTeams ==
  ASSUME Table(rows), NEW f, NEW a, NEW b
  PROVE  /\ Submitters(f, a, b) \in SUBSET Teams /\ IsFiniteSet(Submitters(f, a, b))
         /\ Cardinality(Submitters(f, a, b)) \in 0..Cardinality(Teams)
<1>1. \A t \in Submitters(f, a, b) : t \in Teams
  BY SubmittersAre, RowOf
<1> QED
  BY <1>1, TeamSets

(* A flag that is stolen in tick n: its submissions before and in the tick *)
(* are all there are up to n.                                              *)
LEMMA Counts ==
  ASSUME Table(rows), NEW n \in Ticks, NEW f \in Stolen(n)
  PROVE  /\ f \in Flags /\ f.team \in Teams /\ f.issued \in 1..n
         /\ Previous(f, n) = Submitters(f, 1, n - 1)
         /\ Submissions(f, n) = Cardinality(Submitters(f, 1, n))
         /\ Submissions(f, n) \in 1..Cardinality(Teams)
         /\ Cardinality(Previous(f, n)) \in 0..Cardinality(Teams)
         /\ Previous(f, n) # {} => Cardinality(Previous(f, n)) \in 1..Cardinality(Teams)
<1>1. PICK i \in DOMAIN rows : rows[i].tick = n /\ rows[i].flag = f
  BY StolenAre
<1>2. n \in Nat /\ n >= 1 /\ n <= MaxTick /\ MaxTick \in Nat /\ Valid \in Nat
  BY ScoringAssumption DEF Ticks
<1>3. f \in Flags /\ f.team \in Teams /\ f.issued \in Ticks /\ f.issued <= n /\ n <= f.issued + Valid
  <2>1. f \in Flags /\ f.team \in Teams /\ f.issued \in Ticks /\ f.issued <= n
    BY <1>1, RowOf
  <2>2. n \in f.issued..(f.issued + Valid)
    BY <1>1 DEF Table
  <2> QED
    BY <1>2, <2>1, <2>2 DEF Ticks
<1>4. f.issued \in 1..n
  BY <1>2, <1>3 DEF Ticks
<1>5. \A j \in DOMAIN rows : rows[j].flag = f => rows[j].tick \in f.issued..(f.issued + Valid) /\ rows[j].tick \in Ticks
  BY RowOf DEF Table
<1>6. ASSUME NEW t PROVE t \in Previous(f, n) <=> t \in Submitters(f, 1, n - 1)
  <2>1. \A j \in DOMAIN rows : rows[j].flag = f => (rows[j].tick \in (n - Valid - 2)..(n - 1) <=> rows[j].tick \in 1..(n - 1))
    <3> SUFFICES ASSUME NEW j \in DOMAIN rows, rows[j].flag = f
                 PROVE  rows[j].tick \in (n - Valid - 2)..(n - 1) <=> rows[j].tick \in 1..(n - 1)
      OBVIOUS
    <3>1. PICK m \in Int : m = rows[j].tick /\ m >= f.issued /\ m >= 1
      BY <1>3, <1>5 DEF Ticks
    <3>2. PICK s \in Int : s = f.issued /\ s >= 1 /\ n <= s + Valid
      BY <1>3 DEF Ticks
    <3>3. m >= n - Valid - 2
      BY <1>2, <3>1, <3>2
    <3> QED
      BY <1>2, <3>1, <3>3
  <2> QED
    BY <2>1, SubmittersAre DEF Previous
<1>7. Previous(f, n) = Submitters(f, 1, n - 1)
  BY <1>6 DEF Previous, Submitters
<1> DEFINE A == Submitters(f, 1, n - 1)
           B == Submitters(f, n, n)
           C == Submitters(f, 1, n)
<1>8. C = A \cup B
  <2>1. \A m \in Ticks : m \in 1..n <=> (m \in 1..(n - 1) \/ m \in n..n)
    BY <1>2 DEF Ticks
  <2>2. \A t : t \in C <=> t \in A \/ t \in B
    BY <1>5, <2>1, SubmittersAre
  <2> QED
    BY <2>2
<1>9. A \cap B = {}
  <2> SUFFICES ASSUME NEW t, t \in A, t \in B PROVE FALSE
    OBVIOUS
  <2>1. PICK j \in DOMAIN rows : rows[j].flag = f /\ rows[j].by = t /\ rows[j].tick \in 1..(n - 1)
    BY SubmittersAre
  <2>2. PICK l \in DOMAIN rows : rows[l].flag = f /\ rows[l].by = t /\ rows[l].tick \in n..n
    <3>1. PICK m : m = n
      OBVIOUS
    <3>2. t \in Submitters(f, m, n)
      BY <3>1
    <3>3. \E l \in DOMAIN rows : rows[l].flag = f /\ rows[l].by = t /\ rows[l].tick \in m..n
      BY <3>2, SubmittersAre
    <3> QED
      BY <3>1, <3>3
  <2>3. j = l
    BY <2>1, <2>2 DEF Table
  <2> QED
    BY <1>2, <2>1, <2>2, <2>3
<1>10. rows[i].by \in B
  BY <1>1, <1>2, SubmittersAre
<1>11. /\ IsFiniteSet(A) /\ IsFiniteSet(B) /\ Cardinality(A) \in 0..Cardinality(Teams)
       /\ Cardinality(B) \in 0..Cardinality(Teams) /\ Cardinality(C) \in 0..Cardinality(Teams)
  BY SubmittersTeams
<1>12. Submissions(f, n) = Cardinality(A) + Cardinality(B)
  BY <1>7 DEF Submissions
<1> HIDE DEF A, B, C
<1>13. Cardinality(C) = Cardinality(A) + Cardinality(B)
  <2>1. Cardinality(A \cup B) = Cardinality(A) + Cardinality(B) - Cardinality(A \cap B)
    BY <1>11, FS_Union
  <2>2. Cardinality(A \cap B) = 0
    BY <1>9, FS_EmptySet
  <2> QED
    BY <1>8, <1>11, <2>1, <2>2, TeamSets
<1>14. Cardinality(B) # 0
  BY <1>10, <1>11, FS_EmptySet
<1>15. A # {} => Cardinality(A) # 0
  BY <1>11, FS_EmptySet
<1>16. Submissions(f, n) = Cardinality(C)
  BY <1>12, <1>13
<1>17. Submissions(f, n) \in 1..Cardinality(Teams)
  BY <1>11, <1>12, <1>13, <1>14, TeamSets
<1>18. A # {} => Cardinality(A) \in 1..Cardinality(Teams)
  BY <1>11, <1>15, TeamSets
<1> QED
  BY <1>3, <1>4, <1>7, <1>11, <1>16, <1>17, <1>18 DEF A, C

(* The rank that counts.                                                   *)
LEMMA VictimRankType ==
  ASSUME rank \in [Ticks -> {None} \cup Ranks], NEW f \in Flags, NEW n \in Ticks
  PROVE  VictimRank(f, n) \in 1..Cardinality(Teams) /\ Cardinality(Teams) - VictimRank(f, n) \in Nat
<1>1. f.team \in Teams /\ f.issued \in Ticks
  BY ScoringAssumption DEF Ticks
<1>2. VictimRank(f, n) \in 1..Cardinality(Teams)
  <2>1. CASE f.issued - 1 >= n - Valid - 1 /\ f.issued > 1 /\ rank[f.issued - 1] # None
    <3>1. f.issued - 1 \in Ticks
      BY <1>1, <2>1, ScoringAssumption DEF Ticks
    <3>2. rank[f.issued - 1] \in Ranks
      BY <2>1, <3>1
    <3>3. rank[f.issued - 1][f.team] \in 1..Cardinality(Teams)
      BY <1>1, <3>2 DEF Ranks
    <3> QED
      BY <2>1, <3>3 DEF VictimRank
  <2>2. CASE ~(f.issued - 1 >= n - Valid - 1 /\ f.issued > 1 /\ rank[f.issued - 1] # None)
    <3>1. VictimRank(f, n) = Cardinality(Teams)
      BY <2>2 DEF VictimRank
    <3> QED
      BY <3>1, TeamSets
  <2> QED
    BY <2>1, <2>2
<1> QED
  BY <1>2, TeamSets

(* The value of a flag.                                                    *)
LEMMA OffPointsType ==
  ASSUME Table(rows), NEW n \in Ticks, NEW i \in DOMAIN rows, rows[i].tick = n
  PROVE  off_points(rows[i].flag, n) \in Nat
<1>1. PICK f : f = rows[i].flag
  OBVIOUS
<1>2. f \in Stolen(n)
  BY <1>1, StolenAre
<1>3. Worth \in [1..Cardinality(Teams) -> Nat]
  BY ScoringAssumption
<1>4. Worth[Submissions(f, n)] \in Nat
  BY <1>2, <1>3, Counts
<1>5. PICK S : S = {r.by : r \in {q \in FlagsOf(n) : q.flag.payload = f.payload}}
  OBVIOUS
<1>6. S \in SUBSET Teams /\ S # {}
  <2>1. \A q \in FlagsOf(n) : q.by \in Teams
    BY RowOf DEF FlagsOf, ToSet
  <2>2. rows[i] \in FlagsOf(n) /\ rows[i].flag.payload = f.payload
    BY <1>1 DEF FlagsOf, ToSet
  <2>3. rows[i].by \in S
    BY <1>5, <2>2
  <2> QED
    BY <1>5, <2>1, <2>3
<1>7. Cardinality(S) \in 1..Cardinality(Teams)
  <2>1. IsFiniteSet(S) /\ Cardinality(S) \in 0..Cardinality(Teams)
    BY <1>6, TeamSets
  <2>2. Cardinality(S) # 0
    BY <1>6, <2>1, FS_EmptySet
  <2> QED
    BY <2>1, <2>2, TeamSets
<1>8. Worth[AttackingTeams(f.payload, n)] \in Nat
  BY <1>3, <1>5, <1>7 DEF AttackingTeams
<1> QED
  BY <1>1, <1>4, <1>8 DEF off_points

(* The sets of rows and of flags are finite.                               *)
LEMMA FiniteParts ==
  ASSUME Table(rows), NEW n, NEW t
  PROVE  IsFiniteSet(Mine(t, n)) /\ IsFiniteSet(Stolen(n)) /\ IsFiniteSet(Had(t, n)) /\ IsFiniteSet(Own(t, n))
<1>1. PICK N \in Nat : DOMAIN rows = 1..N
  BY RowOf
<1>2. IsFiniteSet(DOMAIN rows)
  BY <1>1, FS_Interval
<1>3. IsFiniteSet(Mine(t, n))
  <2>1. Mine(t, n) \in SUBSET (DOMAIN rows)
    BY DEF Mine
  <2> QED
    BY <1>2, <2>1, FS_Subset
<1>4. IsFiniteSet(Stolen(n))
  <2> DEFINE S == {i \in DOMAIN rows : rows[i].tick = n}
             m == [i \in S |-> rows[i].flag]
  <2>1. IsFiniteSet(S)
    BY <1>2, FS_Subset
  <2>2. m \in Surjection(S, Stolen(n))
    <3>1. \A i \in S : m[i] \in Stolen(n)
      BY StolenAre
    <3>2. \A f \in Stolen(n) : \E i \in S : m[i] = f
      BY StolenAre
    <3> QED
      BY <3>1, <3>2 DEF Surjection
  <2> HIDE DEF S, m
  <2> QED
    BY <2>1, <2>2, FS_Surjection
<1>5. Had(t, n) \in SUBSET Stolen(n) /\ Own(t, n) \in SUBSET Stolen(n)
  BY DEF Had, Own
<1> QED
  BY <1>3, <1>4, <1>5, FS_Subset

(* The terms of the sums.                                                  *)
LEMMA TermTypes ==
  ASSUME Table(rows), rank \in [Ticks -> {None} \cup Ranks], points \in [Ticks -> {None} \cup Points],
         NEW n \in Ticks, NEW t \in Teams
  PROVE  /\ Worths(t, n) \in [Mine(t, n) -> Nat] /\ Bonuses(t, n) \in [Mine(t, n) -> Nat]
         /\ Corrections(t, n) \in [Had(t, n) -> Int] /\ Losses(t, n) \in [Own(t, n) -> Int]
<1>1. \A i \in Mine(t, n) : i \in DOMAIN rows /\ rows[i].tick = n /\ rows[i].flag \in Flags
  BY RowOf DEF Mine
<1>2. Worths(t, n) \in [Mine(t, n) -> Nat]
  BY <1>1, OffPointsType DEF Worths
<1>3. Bonuses(t, n) \in [Mine(t, n) -> Nat]
  BY <1>1, VictimRankType DEF Bonuses
<1>4. Worth \in [1..Cardinality(Teams) -> Nat] /\ Damage \in [0..Cardinality(Teams) -> Nat]
  BY ScoringAssumption
<1>5. ASSUME NEW f \in Had(t, n) PROVE Worth[Submissions(f, n)] - Worth[Cardinality(Previous(f, n))] \in Int
  <2>1. f \in Stolen(n) /\ Previous(f, n) # {}
    BY DEF Had
  <2>2. Submissions(f, n) \in 1..Cardinality(Teams) /\ Cardinality(Previous(f, n)) \in 1..Cardinality(Teams)
    BY <2>1, Counts
  <2>3. Worth[Submissions(f, n)] \in Nat /\ Worth[Cardinality(Previous(f, n))] \in Nat
    BY <1>4, <2>2
  <2> QED
    BY <2>3
<1>6. Corrections(t, n) \in [Had(t, n) -> Int]
  BY <1>5 DEF Corrections
<1>7. ASSUME NEW f \in Own(t, n)
      PROVE  (Damage[Submissions(f, n)] - Damage[Cardinality(Previous(f, n))]) * SlaDelta(f.issued, n, t) \in Int
  <2>1. f \in Stolen(n)
    BY DEF Own
  <2>2. Submissions(f, n) \in 1..Cardinality(Teams) /\ Cardinality(Previous(f, n)) \in 0..Cardinality(Teams) /\ f.issued \in 1..n
    BY <2>1, Counts
  <2>3. Submissions(f, n) \in 0..Cardinality(Teams)
    BY <2>2
  <2>4. Damage[Submissions(f, n)] \in Nat /\ Damage[Cardinality(Previous(f, n))] \in Nat
    BY <1>4, <2>2, <2>3
  <2>5. SlaDelta(f.issued, n, t) \in Nat
    <3>1. f.issued \in Ticks
      BY <2>2, ScoringAssumption DEF Ticks
    <3>2. CASE f.issued = n
      <4>1. SlaDelta(f.issued, n, t) = sla_points(Result(n)[t])
        BY <3>2 DEF SlaDelta
      <4> QED
        BY <4>1 DEF sla_points
    <3>3. CASE f.issued # n /\ points[f.issued] # None
      <4>1. points[f.issued] \in Points
        BY <3>1, <3>3
      <4>2. points[f.issued][t] \in TeamPoints
        BY <4>1 DEF Points
      <4>3. points[f.issued][t].delta \in Nat
        BY <4>2 DEF TeamPoints
      <4> QED
        BY <3>3, <4>3 DEF SlaDelta
    <3>4. CASE f.issued # n /\ points[f.issued] = None
      BY <3>4 DEF SlaDelta
    <3> QED
      BY <3>2, <3>3, <3>4
  <2> QED
    BY <2>4, <2>5
<1>8. Losses(t, n) \in [Own(t, n) -> Int]
  BY <1>7 DEF Losses
<1> QED
  BY <1>2, <1>3, <1>6, <1>8

(* The points of a tick whose predecessor has points.                      *)
LEMMA ScoreType ==
  ASSUME Table(rows), rank \in [Ticks -> {None} \cup Ranks], points \in [Ticks -> {None} \cup Points],
         NEW n \in Ticks, n = 1 \/ points[n - 1] # None
  PROVE  calculate_scoring(n) \in Points
<1>1. Before(n) \in Points
  <2>1. CASE n = 1
    <3>1. NoPoints \in TeamPoints
      BY DEF NoPoints, TeamPoints
    <3> QED
      BY <2>1, <3>1 DEF Before, Points
  <2>2. CASE n # 1
    <3>1. n - 1 \in Ticks
      BY <2>2, ScoringAssumption DEF Ticks
    <3> QED
      BY <2>2, <3>1 DEF Before
  <2> QED
    BY <2>1, <2>2
<1>2. ASSUME NEW t \in Teams PROVE Scored(n, t) \in TeamPoints
  <2>1. PICK p \in TeamPoints : p = Before(n)[t]
    BY <1>1 DEF Points
  <2>2. /\ p.worth \in Int /\ p.bonus \in Nat /\ p.def \in Int /\ p.sla \in Nat /\ p.delta \in Nat
        /\ p.captured \in Nat /\ p.stolen \in Nat
    BY DEF TeamPoints
  <2>3. IsFiniteSet(Mine(t, n)) /\ IsFiniteSet(Stolen(n)) /\ IsFiniteSet(Had(t, n)) /\ IsFiniteSet(Own(t, n))
    BY FiniteParts
  <2>4. /\ Worths(t, n) \in [Mine(t, n) -> Nat] /\ Bonuses(t, n) \in [Mine(t, n) -> Nat]
        /\ Corrections(t, n) \in [Had(t, n) -> Int] /\ Losses(t, n) \in [Own(t, n) -> Int]
    BY TermTypes
  <2>5. PICK w \in Nat : w = SumOver(Worths(t, n), Mine(t, n))
    BY <2>3, <2>4, SumNat
  <2>6. PICK b \in Nat : b = SumOver(Bonuses(t, n), Mine(t, n))
    BY <2>3, <2>4, SumNat
  <2>7. PICK c \in Int : c = SumOver(Corrections(t, n), Had(t, n))
    BY <2>3, <2>4, SumType
  <2>8. PICK l \in Int : l = SumOver(Losses(t, n), Own(t, n))
    BY <2>3, <2>4, SumType
  <2>9. PICK d \in Nat : d = sla_points(Result(n)[t])
    BY DEF sla_points
  <2>10. PICK m \in Nat : m = Cardinality(Mine(t, n))
    BY <2>3, FS_CardinalityType
  <2>11. PICK s \in Nat : s = StolenFirst(t, n)
    <3>1. {f \in Stolen(n) : f.team = t /\ Previous(f, n) = {}} \in SUBSET Stolen(n)
      OBVIOUS
    <3>2. IsFiniteSet({f \in Stolen(n) : f.team = t /\ Previous(f, n) = {}})
      BY <2>3, <3>1, FS_Subset
    <3>3. StolenFirst(t, n) \in Nat
      BY <3>2, FS_CardinalityType DEF StolenFirst, Stolen
    <3> QED
      BY <3>3
  <2>12. PICK e \in Int : e = IF algo[1] = "playground" THEN 0 ELSE c
    OBVIOUS
  <2>13. Scored(n, t) = [worth |-> p.worth + e + w, bonus |-> p.bonus + b, def |-> p.def - l, sla |-> p.sla + d,
                         delta |-> d, captured |-> p.captured + m, stolen |-> p.stolen + s]
    BY <2>1, <2>5, <2>6, <2>7, <2>8, <2>9, <2>10, <2>11, <2>12 DEF Scored
  <2> QED
    BY <2>2, <2>13 DEF TeamPoints
<1>3. calculate_scoring(n) = [t \in Teams |-> Scored(n, t)]
  BY ScoringIs
<1> QED
  BY <1>2, <1>3 DEF Points

-----------------------------------------------------------------------------
(* Types.                                                                  *)

(* The ranking of a tick.                                                  *)
LEMMA RankingIs ==
  ASSUME NEW p \in Points
  PROVE  /\ [t \in Teams |-> Total(p[t])] \in [Teams -> Int]
         /\ Ranking(p) = [t \in Teams |-> CountRank([u \in Teams |-> Total(p[u])], t)]
         /\ Ranking(p) \in Ranks
<1>1. PICK total : total = [t \in Teams |-> Total(p[t])]
  OBVIOUS
<1>2. total \in [Teams -> Int]
  <2>1. \A t \in Teams : p[t].worth \in Int /\ p[t].bonus \in Nat /\ p[t].def \in Int /\ p[t].sla \in Nat
    BY DEF Points, TeamPoints
  <2>2. \A t \in Teams : Total(p[t]) \in Int
    BY <2>1 DEF Total
  <2> QED
    BY <1>1, <2>2
<1>3. Ranking(p) = order_by_points(total)
  BY <1>1 DEF Ranking, Points
<1>4. IsFiniteSet(Teams) /\ Teams \subseteq Nat \ {0}
  BY ScoringAssumption
<1>5. order_by_points(total) = [t \in Teams |-> CountRank(total, t)]
  BY <1>2, <1>4, RanksAre
<1>6. ASSUME NEW t \in Teams PROVE CountRank(total, t) \in 1..Cardinality(Teams)
  <2>1. PICK H : H = {u \in DOMAIN total : total[u] > 0 /\ total[u] > total[t]}
    OBVIOUS
  <2>2. H \in SUBSET Teams /\ t \notin H
    BY <1>2, <2>1
  <2>3. H \cup {t} \in SUBSET Teams
    BY <2>2
  <2>4. IsFiniteSet(H) /\ Cardinality(H) \in 0..Cardinality(Teams) /\ Cardinality(H \cup {t}) \in 0..Cardinality(Teams)
    BY <2>2, <2>3, TeamSets
  <2>5. Cardinality(H \cup {t}) = Cardinality(H) + 1
    BY <2>2, <2>4, FS_AddElement
  <2>6. CountRank(total, t) = 1 + Cardinality(H)
    BY <2>1 DEF CountRank
  <2> QED
    BY <2>4, <2>5, <2>6, TeamSets
<1> QED
  BY <1>1, <1>2, <1>3, <1>5, <1>6 DEF Ranks

(* What is known of recreate_ranking.py.                                   *)
ScriptType ==
  /\ script \in [pc: {"off", "delete", "score", "rank", "done"}, rn: 0..(MaxTick + 1), end: 0..MaxTick, clean: BOOLEAN]
  /\ script.pc \in {"delete", "score", "rank"} => script.rn \in 1..script.end
  /\ script.pc = "done" => script.rn = script.end + 1

(* The tables.                                                             *)
TableTypes ==
  /\ Table(rows) /\ status \in [Ticks -> {None} \cup Results]
  /\ points \in [Ticks -> {None} \cup Points] /\ rank \in [Ticks -> {None} \cup Ranks]

(* All of it.                                                              *)
TypeInv ==
  /\ TableTypes /\ ScriptType
  /\ tick \in Ticks /\ todo \in 0..MaxTick /\ pc \in {"score", "rank"}
  /\ cache \in [{"master", "script"} -> Cache]
  /\ algo \in Algorithms /\ tool \in Scripts /\ exact \subseteq Ticks

(* A transaction of the scoring keeps the types.                           *)
LEMMA CalculateTypes ==
  ASSUME TypeInv, NEW p \in {"master", "script"}, NEW n \in Ticks, Calculate(p, n)
  PROVE  /\ Like(rows', rows) /\ Table(rows')
         /\ points' \in [Ticks -> {None} \cup Points] /\ calculate_scoring(FirstMissing(n)) \in Points
         /\ cache' \in [{"master", "script"} -> Cache] /\ exact' \subseteq Ticks
<1>1. PICK j \in Ticks : j = FirstMissing(n) /\ (j = 1 \/ points[j - 1] # None)
  BY FirstMissingIs
<1>2. /\ Table(rows) /\ rank \in [Ticks -> {None} \cup Ranks] /\ points \in [Ticks -> {None} \cup Points]
      /\ cache \in [{"master", "script"} -> Cache] /\ exact \subseteq Ticks
  BY DEF TypeInv, TableTypes
<1>3. calculate_scoring(j) \in Points
  BY <1>1, <1>2, ScoreType
<1>4. points' = [points EXCEPT ![j] = calculate_scoring(j)]
  BY <1>1 DEF Calculate, _save_teampoints
<1>5. cache[p] \in Cache
  BY <1>2
<1>6. PICK fb : fb = get_firstbloods(rows, cache[p], RowsIn(rows, {j}))
  OBVIOUS
<1>7. fb.cache \in Cache /\ fb.found \in Found(rows)
  BY <1>2, <1>5, <1>6, SearchType
<1>8. rows' = Record(rows, fb.found) /\ cache' = [cache EXCEPT ![p] = fb.cache]
  BY <1>1, <1>6 DEF Calculate
<1>9. exact' \subseteq Ticks
  BY <1>1, <1>2 DEF Calculate
<1>10. Like(rows', rows) /\ Table(rows')
  BY <1>2, <1>7, <1>8, Recorded
<1>11. points' \in [Ticks -> {None} \cup Points]
  BY <1>2, <1>3, <1>4
<1>12. cache' \in [{"master", "script"} -> Cache]
  BY <1>2, <1>7, <1>8
<1> QED
  BY <1>1, <1>3, <1>9, <1>10, <1>11, <1>12

(* Init has the types.                                                     *)
LEMMA InitTypes ==
  ASSUME Init
  PROVE  TypeInv
<1>1. NoCache \in Cache
  BY DEF NoCache, Cache
<1>2. Table(rows)
  BY DEF Init, Table
<1>3. MaxTick \in Nat /\ MaxTick # 0
  BY ScoringAssumption
<1>4. ScriptType
  BY <1>3 DEF Init, NoScript, ScriptType
<1>5. tick \in Ticks /\ todo \in 0..MaxTick /\ pc \in {"score", "rank"} /\ algo \in Algorithms /\ tool \in Scripts /\ exact \subseteq Ticks
  BY <1>3 DEF Init, Ticks
<1>6. cache \in [{"master", "script"} -> Cache]
  BY <1>1 DEF Init
<1>7. /\ status \in [Ticks -> {None} \cup Results]
      /\ points \in [Ticks -> {None} \cup Points] /\ rank \in [Ticks -> {None} \cup Ranks]
  BY DEF Init
<1> QED
  BY <1>2, <1>4, <1>5, <1>6, <1>7 DEF TypeInv, TableTypes

(* Every step keeps them.                                                  *)
LEMMA NextTypes ==
  ASSUME TypeInv, [Next]_vars
  PROVE  TypeInv'
<1>1. /\ Table(rows) /\ status \in [Ticks -> {None} \cup Results]
      /\ points \in [Ticks -> {None} \cup Points] /\ rank \in [Ticks -> {None} \cup Ranks]
      /\ ScriptType /\ tick \in Ticks /\ todo \in 0..MaxTick /\ pc \in {"score", "rank"}
      /\ cache \in [{"master", "script"} -> Cache]
      /\ algo \in Algorithms /\ tool \in Scripts /\ exact \subseteq Ticks
  BY DEF TypeInv, TableTypes
<1>2. MaxTick \in Nat /\ MaxTick # 0
  BY ScoringAssumption
<1>3. todo # 0 => todo \in Ticks
  BY <1>1, <1>2 DEF Ticks
<1>4. script.pc \in {"delete", "score", "rank"} => script.rn \in Ticks
  BY <1>1, <1>2 DEF ScriptType, Ticks
<1>5. NoCache \in Cache
  BY DEF NoCache, Cache
<1>6. ASSUME NEW f \in Flags, NEW team \in Teams, NEW t \in Ticks, Submit(f, team, t) PROVE TypeInv'
  <2>1. Table(rows')
    BY <1>1, <1>6, SubmitTable
  <2>2. /\ script' = [script EXCEPT !.clean = FALSE] /\ exact' = exact \ t..MaxTick
        /\ UNCHANGED <<tick, status, points, rank, todo, pc, cache, algo, tool>>
    BY <1>6 DEF Submit
  <2>3. ScriptType'
    BY <1>1, <2>2 DEF ScriptType
  <2> QED
    BY <1>1, <2>1, <2>2, <2>3 DEF TypeInv, TableTypes
<1>7. ASSUME NEW result \in Outcomes, EndTick(result) PROVE TypeInv'
  <2>1. result \in Results
    BY ScoringAssumption DEF Results
  <2>2. /\ status' = [status EXCEPT ![tick] = result] /\ todo' = tick /\ pc' = "score"
        /\ tick' = IF tick < MaxTick THEN tick + 1 ELSE tick
        /\ UNCHANGED <<rows, points, rank, cache, script, algo, tool, exact>>
    BY <1>7 DEF EndTick
  <2>3. status' \in [Ticks -> {None} \cup Results]
    BY <1>1, <2>1, <2>2
  <2>4. tick' \in Ticks /\ todo' \in 0..MaxTick
    BY <1>1, <1>2, <2>2 DEF Ticks
  <2>5. ScriptType'
    BY <1>1, <2>2 DEF ScriptType
  <2> QED
    BY <1>1, <2>2, <2>3, <2>4, <2>5 DEF TypeInv, TableTypes
<1>8. ASSUME ScoreTick \/ PointsForRanking PROVE TypeInv'
  <2>1. Calculate("master", todo) /\ todo \in Ticks
    BY <1>3, <1>8 DEF ScoreTick, PointsForRanking
  <2>2. pc' \in {"score", "rank"} /\ UNCHANGED <<tick, status, rank, todo, script, algo, tool>>
    BY <1>1, <1>8 DEF ScoreTick, PointsForRanking
  <2>3. /\ Table(rows') /\ points' \in [Ticks -> {None} \cup Points]
        /\ cache' \in [{"master", "script"} -> Cache] /\ exact' \subseteq Ticks
    BY <2>1, CalculateTypes
  <2>4. ScriptType'
    BY <1>1, <2>2 DEF ScriptType
  <2> QED
    BY <1>1, <2>2, <2>3, <2>4 DEF TypeInv, TableTypes
<1>9. ASSUME ScoreTickFails PROVE TypeInv'
  <2>1. /\ todo' \in {0, todo} /\ cache' = [cache EXCEPT !["master"] = NoCache]
        /\ UNCHANGED <<tick, rows, status, points, rank, pc, script, algo, tool, exact>>
    BY <1>9 DEF ScoreTickFails, CalculateFails, tables
  <2>2. todo' \in 0..MaxTick /\ cache' \in [{"master", "script"} -> Cache]
    BY <1>1, <1>2, <1>5, <2>1
  <2>3. ScriptType'
    BY <1>1, <2>1 DEF ScriptType
  <2> QED
    BY <1>1, <2>1, <2>2, <2>3 DEF TypeInv, TableTypes
<1>10. ASSUME RankTick PROVE TypeInv'
  <2>1. /\ rank' = [rank EXCEPT ![todo] = Ranking(points[todo])] /\ todo' = 0 /\ todo # 0 /\ points[todo] # None
        /\ UNCHANGED <<tick, rows, status, points, pc, cache, script, algo, tool, exact>>
    BY <1>10 DEF RankTick
  <2>2. points[todo] \in Points
    BY <1>1, <1>3, <2>1
  <2>3. Ranking(points[todo]) \in Ranks
    BY <2>2, RankingIs
  <2>4. rank' \in [Ticks -> {None} \cup Ranks]
    BY <1>1, <2>1, <2>3
  <2>5. ScriptType'
    BY <1>1, <2>1 DEF ScriptType
  <2> QED
    BY <1>1, <1>2, <2>1, <2>4, <2>5 DEF TypeInv, TableTypes
<1>11. ASSUME NEW n \in Ticks, RecreateStart(n) PROVE TypeInv'
  <2>1. /\ script' = [pc |-> "delete", rn |-> n, end |-> LastOver, clean |-> n = 1] /\ n <= LastOver
        /\ cache' = [cache EXCEPT !["script"] = NoCache]
        /\ UNCHANGED <<tick, rows, status, points, rank, todo, pc, algo, tool, exact>>
    BY <1>11 DEF RecreateStart, tables
  <2>2. LastOver \in 0..MaxTick
    BY <1>1, <1>2 DEF LastOver, Ticks
  <2>3. ScriptType'
    <3>1. n \in 1..LastOver /\ n \in 0..(MaxTick + 1)
      BY <1>2, <2>1, <2>2 DEF Ticks
    <3> QED
      BY <2>1, <2>2, <3>1 DEF ScriptType
  <2>4. cache' \in [{"master", "script"} -> Cache]
    BY <1>1, <1>5, <2>1
  <2> QED
    BY <1>1, <2>1, <2>3, <2>4 DEF TypeInv, TableTypes
<1>12. ASSUME RecreateDelete PROVE TypeInv'
  <2>1. /\ script.pc = "delete" /\ script' = [script EXCEPT !.pc = "score"]
        /\ points' = [points EXCEPT ![script.rn] = None] /\ rank' = [rank EXCEPT ![script.rn] = None]
        /\ UNCHANGED <<tick, rows, status, todo, pc, cache, algo, tool, exact>>
    BY <1>12 DEF RecreateDelete
  <2>2. points' \in [Ticks -> {None} \cup Points] /\ rank' \in [Ticks -> {None} \cup Ranks]
    BY <1>1, <2>1
  <2>3. ScriptType'
    BY <1>1, <2>1 DEF ScriptType
  <2> QED
    BY <1>1, <2>1, <2>2, <2>3 DEF TypeInv, TableTypes
<1>13. ASSUME RecreateScore PROVE TypeInv'
  <2>1. script.pc = "score" /\ Calculate("script", script.rn) /\ script.rn \in Ticks
    BY <1>4, <1>13 DEF RecreateScore
  <2>2. /\ script' = [script EXCEPT !.pc = IF FirstMissing(script.rn) = script.rn THEN "rank" ELSE "score"]
        /\ UNCHANGED <<tick, status, rank, todo, pc, algo, tool>>
    BY <1>13 DEF RecreateScore
  <2>3. /\ Table(rows') /\ points' \in [Ticks -> {None} \cup Points]
        /\ cache' \in [{"master", "script"} -> Cache] /\ exact' \subseteq Ticks
    BY <2>1, CalculateTypes
  <2>4. ScriptType'
    BY <1>1, <2>1, <2>2 DEF ScriptType
  <2> QED
    BY <1>1, <2>2, <2>3, <2>4 DEF TypeInv, TableTypes
<1>14. ASSUME RecreateRank PROVE TypeInv'
  <2>1. /\ script.pc = "rank" /\ points[script.rn] # None
        /\ rank' = [rank EXCEPT ![script.rn] = Ranking(points[script.rn])]
        /\ script' = [script EXCEPT !.rn = @ + 1, !.pc = IF script.rn = script.end THEN "done" ELSE "delete"]
        /\ UNCHANGED <<tick, rows, status, points, todo, pc, cache, algo, tool, exact>>
    BY <1>14 DEF RecreateRank
  <2>2. script.rn \in Ticks
    BY <1>4, <2>1
  <2>3. Ranking(points[script.rn]) \in Ranks
    BY <1>1, <2>1, <2>2, RankingIs
  <2>4. rank' \in [Ticks -> {None} \cup Ranks]
    BY <1>1, <2>1, <2>3
  <2>5. ScriptType'
    <3>1. PICK rn \in Nat, end \in Nat : rn = script.rn /\ end = script.end /\ rn \in 1..end /\ end <= MaxTick
      BY <1>1, <1>2, <2>1 DEF ScriptType
    <3>2. rn + 1 \in 0..(MaxTick + 1) /\ (rn # end => rn + 1 \in 1..end) /\ (rn = end => rn + 1 = end + 1)
      BY <1>2, <3>1
    <3>3. script'.rn = rn + 1 /\ script'.end = end /\ script'.pc = IF rn = end THEN "done" ELSE "delete"
      BY <1>1, <2>1, <3>1 DEF ScriptType
    <3>4. script' \in [pc: {"off", "delete", "score", "rank", "done"}, rn: 0..(MaxTick + 1), end: 0..MaxTick, clean: BOOLEAN]
      BY <1>1, <2>1, <3>1, <3>2 DEF ScriptType
    <3> QED
      BY <3>2, <3>3, <3>4 DEF ScriptType
  <2> QED
    BY <1>1, <2>1, <2>4, <2>5 DEF TypeInv, TableTypes
<1>15. ASSUME recompute_first_blood_flags PROVE TypeInv'
  <2>1. Table(rows')
    BY <1>1, <1>15, RecomputeTable
  <2>2. UNCHANGED <<tick, status, points, rank, todo, pc, cache, script, algo, tool, exact>>
    BY <1>15 DEF recompute_first_blood_flags
  <2>3. ScriptType'
    BY <1>1, <2>2 DEF ScriptType
  <2> QED
    BY <1>1, <2>1, <2>2, <2>3 DEF TypeInv, TableTypes
<1>16. ASSUME NEW n \in Ticks, reset_database(n) PROVE TypeInv'
  <2>1. Table(rows')
    BY <1>1, <1>16, ResetTable
  <2>2. /\ status' = [k \in Ticks |-> IF k > n THEN None ELSE status[k]]
        /\ points' = [k \in Ticks |-> IF k > n THEN None ELSE points[k]]
        /\ rank' = [k \in Ticks |-> IF k > n THEN None ELSE rank[k]]
        /\ exact' = exact \ (n + 1)..MaxTick /\ cache' = [cache EXCEPT !["master"] = NoCache] /\ tick' = n + 1 /\ n < tick
        /\ UNCHANGED <<todo, pc, script, algo, tool>>
    BY <1>16 DEF reset_database
  <2>3. status' \in [Ticks -> {None} \cup Results]
    BY <1>1, <2>2
  <2>4. points' \in [Ticks -> {None} \cup Points]
    BY <1>1, <2>2
  <2>5. rank' \in [Ticks -> {None} \cup Ranks]
    BY <1>1, <2>2
  <2>6. cache' \in [{"master", "script"} -> Cache] /\ exact' \subseteq Ticks
    BY <1>1, <1>5, <2>2
  <2>7. tick' \in Ticks
    BY <1>1, <1>2, <2>2 DEF Ticks
  <2>8. ScriptType'
    BY <1>1, <2>2 DEF ScriptType
  <2> QED
    BY <1>1, <2>1, <2>2, <2>3, <2>4, <2>5, <2>6, <2>7, <2>8 DEF TypeInv, TableTypes
<1>17. CASE UNCHANGED vars
  BY <1>1, <1>17 DEF TypeInv, TableTypes, ScriptType, vars, tables
<1> QED
  BY <1>6, <1>7, <1>8, <1>9, <1>10, <1>11, <1>12, <1>13, <1>14, <1>15, <1>16, <1>17 DEF Next

-----------------------------------------------------------------------------
(* The ranks are right, also those of a scoreboard without some teams.     *)

(* The teams that are ranked before t, among those of S.                   *)
Ahead(total, S, t) == {u \in S : total[u] > 0 /\ total[u] > total[t]}

(* A team has a better rank than another one exactly when it is ranked     *)
(* before it.                                                              *)
LEMMA RankOrder ==
  ASSUME NEW S \in SUBSET Teams, NEW total \in [Teams -> Int], NEW x \in S, NEW t \in S
  PROVE  /\ Cardinality(Ahead(total, S, x)) \in Nat /\ Cardinality(Ahead(total, S, t)) \in Nat
         /\ x \in Ahead(total, S, t) <=> Cardinality(Ahead(total, S, x)) < Cardinality(Ahead(total, S, t))
<1> DEFINE A == Ahead(total, S, x)
           B == Ahead(total, S, t)
<1>1. IsFiniteSet(A) /\ IsFiniteSet(B) /\ Cardinality(A) \in Nat /\ Cardinality(B) \in Nat
  <2>1. A \in SUBSET Teams /\ B \in SUBSET Teams
    BY DEF Ahead
  <2>2. IsFiniteSet(A) /\ IsFiniteSet(B)
    BY <2>1, TeamSets
  <2> QED
    BY <2>2, FS_CardinalityType
<1>2. \A u \in S : total[u] \in Int
  OBVIOUS
<1>3. ASSUME x \in B PROVE Cardinality(A) < Cardinality(B)
  <2>1. A \subseteq B
    BY <1>2, <1>3 DEF Ahead
  <2>2. x \notin A
    BY <1>2 DEF Ahead
  <2> HIDE DEF A, B
  <2>3. A # B /\ A \in SUBSET B
    BY <1>3, <2>1, <2>2
  <2>4. Cardinality(A) <= Cardinality(B) /\ Cardinality(A) # Cardinality(B)
    BY <1>1, <2>3, FS_Subset
  <2> QED
    BY <1>1, <2>4
<1>4. ASSUME x \notin B PROVE ~(Cardinality(A) < Cardinality(B))
  <2>1. B \subseteq A
    BY <1>2, <1>4 DEF Ahead
  <2> HIDE DEF A, B
  <2>2. Cardinality(B) <= Cardinality(A)
    BY <1>1, <2>1, FS_Subset
  <2> QED
    BY <1>1, <2>2
<1> HIDE DEF A, B
<1> QED
  BY <1>1, <1>3, <1>4 DEF A, B

(* No team of X shares a rank with one that stays; the ranks and the order *)
(* of those that stay.                                                     *)
Apart(all, X) == \A x \in X, t \in Teams \ X : all[x] # all[t]
Offset(offset, total, X) == offset \in Int /\ (offset = 0 \/ \E x \in X : offset = total[x])
Fits(seen, pos, total, X) ==
  /\ \A t \in Teams \ X : seen[t].rank = CountRank([u \in Teams \ X |-> total[u]], t)
  /\ \A t, u \in DOMAIN pos : pos[t].points > pos[u].points => pos[t].rank < pos[u].rank

(* The ranks and the points without the teams X, less an offset.           *)
LEMMA FilteredRight ==
  ASSUME NEW total \in [Teams -> Int], NEW all, all = [t \in Teams |-> CountRank(total, t)],
         NEW X \in SUBSET Teams, Apart(all, X), NEW offset, Offset(offset, total, X),
         NEW seen, seen = Filtered(all, total, X, offset), NEW pos, pos = Standings(seen)
  PROVE  Fits(seen, pos, total, X)
<1> USE DEF Apart, Offset
<1> DEFINE Y == Teams \ X
           rest == [u \in Y |-> total[u]]
<1>1. \A t \in Teams : all[t] = 1 + Cardinality(Ahead(total, Teams, t))
  BY DEF CountRank, Ahead
<1>2. \A t \in Y : CountRank(rest, t) = 1 + Cardinality(Ahead(total, Y, t))
  <2> SUFFICES ASSUME NEW t \in Y PROVE CountRank(rest, t) = 1 + Cardinality(Ahead(total, Y, t))
    OBVIOUS
  <2>1. {u \in DOMAIN rest : rest[u] > 0 /\ rest[u] > rest[t]} = Ahead(total, Y, t)
    BY DEF Ahead
  <2> QED
    BY <2>1 DEF CountRank
<1>3. /\ DOMAIN seen = Y
      /\ \A t \in Y : seen[t].rank = all[t] - Removed(all, X, t) /\ seen[t].points = Max({0, total[t] - offset})
  BY DEF Filtered
<1>4. ASSUME NEW t \in Y PROVE seen[t].rank = 1 + Cardinality(Ahead(total, Y, t))
  <2> DEFINE A == Ahead(total, X, t)
             B == Ahead(total, Y, t)
             C == Ahead(total, Teams, t)
  <2>1. {x \in X : all[x] < all[t] \/ (all[x] = all[t] /\ x < t)} = A
    <3> SUFFICES ASSUME NEW x \in X PROVE (all[x] < all[t] \/ (all[x] = all[t] /\ x < t)) <=> x \in A
      BY DEF Ahead
    <3>1. all[x] # all[t] /\ x \in Teams /\ t \in Teams
      OBVIOUS
    <3>2. Teams \in SUBSET Teams
      OBVIOUS
    <3>3. /\ Cardinality(Ahead(total, Teams, x)) \in Nat /\ Cardinality(Ahead(total, Teams, t)) \in Nat
          /\ x \in Ahead(total, Teams, t) <=> Cardinality(Ahead(total, Teams, x)) < Cardinality(Ahead(total, Teams, t))
      BY <3>1, <3>2, RankOrder
    <3>4. all[x] < all[t] <=> Cardinality(Ahead(total, Teams, x)) < Cardinality(Ahead(total, Teams, t))
      BY <1>1, <3>1, <3>3
    <3>5. x \in Ahead(total, Teams, t) <=> x \in A
      BY DEF Ahead
    <3> QED
      BY <3>1, <3>3, <3>4, <3>5
  <2>2. Removed(all, X, t) = Cardinality(A)
    BY <2>1 DEF Removed
  <2>3. C = A \cup B /\ A \cap B = {} /\ A \in SUBSET Teams /\ B \in SUBSET Teams
    BY DEF Ahead
  <2> HIDE DEF A, B, C
  <2>4. IsFiniteSet(A) /\ IsFiniteSet(B)
    BY <2>3, TeamSets
  <2>5. Cardinality(A) \in Nat /\ Cardinality(B) \in Nat
    BY <2>4, FS_CardinalityType
  <2>6. Cardinality(A \cup B) = Cardinality(A) + Cardinality(B) - Cardinality(A \cap B)
    BY <2>4, FS_Union
  <2>7. Cardinality(A \cap B) = 0
    BY <2>3, FS_EmptySet
  <2>8. Cardinality(C) = Cardinality(A) + Cardinality(B)
    BY <2>3, <2>5, <2>6, <2>7
  <2>9. all[t] = 1 + Cardinality(C) /\ seen[t].rank = all[t] - Cardinality(A)
    BY <1>1, <1>3, <2>2 DEF C
  <2>10. seen[t].rank = 1 + Cardinality(B)
    BY <2>5, <2>8, <2>9
  <2> QED
    BY <2>10 DEF B
<1>5. ASSUME NEW t \in DOMAIN pos, NEW u \in DOMAIN pos, pos[t].points > pos[u].points PROVE pos[t].rank < pos[u].rank
  <2>1. t \in Y /\ u \in Y /\ pos[t] = seen[t] /\ pos[u] = seen[u] /\ seen[t].points > 0 /\ seen[u].points > 0
    BY <1>3 DEF Standings
  <2>2. ASSUME NEW a \in Int PROVE Max({0, a}) = IF a > 0 THEN a ELSE 0
    <3>1. IsFiniteSet({0, a})
      <4>1. IsFiniteSet({0}) /\ {0, a} = {0} \cup {a}
        BY FS_Singleton
      <4> QED
        BY <4>1, FS_AddElement
    <3>2. {0, a} \subseteq Int /\ {0, a} # {}
      OBVIOUS
    <3>3. Max({0, a}) \in {0, a} /\ \A y \in {0, a} : Max({0, a}) >= y
      BY <3>1, <3>2, MaxOf
    <3>4. Max({0, a}) >= 0 /\ Max({0, a}) >= a /\ (Max({0, a}) = 0 \/ Max({0, a}) = a)
      BY <3>3
    <3> QED
      BY <3>4
  <2>3. total[t] \in Int /\ total[u] \in Int /\ total[t] - offset \in Int /\ total[u] - offset \in Int
    BY <2>1
  <2>4. total[t] > offset /\ total[t] > total[u]
    <3>1. seen[t].points = Max({0, total[t] - offset}) /\ seen[u].points = Max({0, total[u] - offset})
      BY <1>3, <2>1
    <3>2. PICK a \in Int : a = total[t] - offset
      BY <2>3
    <3>3. PICK b \in Int : b = total[u] - offset
      BY <2>3
    <3>4. Max({0, a}) > 0 /\ Max({0, b}) > 0 /\ Max({0, a}) > Max({0, b})
      BY <1>5, <2>1, <3>1, <3>2, <3>3
    <3>5. a > 0 /\ b > 0 /\ a > b
      BY <2>2, <3>4
    <3> QED
      BY <2>3, <3>2, <3>3, <3>5
  <2>5. total[t] > 0
    <3>1. CASE offset = 0
      BY <2>3, <2>4, <3>1
    <3>2. CASE \E x \in X : offset = total[x]
      <4>1. PICK x \in X : offset = total[x]
        BY <3>2
      <4>2. ASSUME ~(total[t] > 0) PROVE FALSE
        <5>1. Ahead(total, Teams, x) = Ahead(total, Teams, t)
          BY <2>1, <2>3, <2>4, <4>1, <4>2 DEF Ahead
        <5>2. all[x] = all[t]
          BY <1>1, <2>1, <5>1
        <5> QED
          BY <2>1, <5>2
      <4> QED
        BY <4>2
    <3> QED
      BY <3>1, <3>2
  <2>6. t \in Ahead(total, Y, u)
    BY <2>1, <2>4, <2>5 DEF Ahead
  <2>7. /\ Cardinality(Ahead(total, Y, t)) \in Nat /\ Cardinality(Ahead(total, Y, u)) \in Nat
        /\ t \in Ahead(total, Y, u) <=> Cardinality(Ahead(total, Y, t)) < Cardinality(Ahead(total, Y, u))
    <3>1. Y \in SUBSET Teams
      OBVIOUS
    <3> QED
      BY <2>1, <3>1, RankOrder
  <2> QED
    BY <1>4, <2>1, <2>6, <2>7
<1> QED
  BY <1>2, <1>4, <1>5 DEF Fits

(* Types suffice for the ranks to be right.                                *)
LEMMA RanksByType ==
  ASSUME TypeInv
  PROVE  RanksRight
<1> SUFFICES ASSUME NEW n \in {todo} \ {0}, pc = "rank", points[n] # None,
                    NEW X \in SUBSET Teams, NEW total, total = [t \in Teams |-> Total(points[n][t])],
                    NEW all, all = order_by_points(total),
                    \A x \in X, t \in Teams \ X : all[x] # all[t],
                    NEW seen, seen = Filtered(all, total, X, IF 1 \in X THEN total[1] ELSE 0),
                    NEW pos, pos = Standings(seen)
             PROVE  /\ \A t \in Teams \ X : seen[t].rank = CountRank([u \in Teams \ X |-> total[u]], t)
                    /\ \A t, u \in DOMAIN pos : pos[t].points > pos[u].points => pos[t].rank < pos[u].rank
  BY SMTT(60) DEF RanksRight
<1>1. points[n] \in Points
  <2>1. n \in Ticks /\ points \in [Ticks -> {None} \cup Points]
    BY ScoringAssumption DEF TypeInv, TableTypes, Ticks
  <2> QED
    BY <2>1
<1>2. total \in [Teams -> Int]
  BY <1>1, RankingIs
<1>3. IsFiniteSet(Teams) /\ Teams \subseteq Nat \ {0}
  BY ScoringAssumption
<1>4. all = [t \in Teams |-> CountRank(total, t)]
  BY <1>2, <1>3, RanksAre
<1>5. PICK offset : offset = IF 1 \in X THEN total[1] ELSE 0
  OBVIOUS
<1>6. offset \in Int /\ (offset = 0 \/ \E x \in X : offset = total[x])
  BY <1>2, <1>5
<1>7. seen = Filtered(all, total, X, offset)
  BY <1>5
<1>8. Apart(all, X) /\ Offset(offset, total, X)
  BY <1>6 DEF Apart, Offset
<1>9. Fits(seen, pos, total, X)
  BY <1>2, <1>4, <1>7, <1>8, FilteredRight
<1> QED
  BY <1>9 DEF Fits

(* In every ranking that is about to be stored, a rank counts the teams    *)
(* with more points, and the scoreboards and exports without some teams    *)
(* keep to that (_order_by_points, FilteredScoringCalculation).            *)
THEOREM RanksCorrect == Spec => []RanksRight
<1>1. Init => TypeInv
  BY InitTypes
<1>2. TypeInv /\ [Next]_vars => TypeInv'
  BY NextTypes
<1>3. TypeInv => RanksRight
  BY RanksByType
<1> QED
  BY <1>1, <1>2, <1>3, PTL DEF Spec

-----------------------------------------------------------------------------
(* Calculating a tick again gives the same points.                         *)

(* ScoringIs holds in the next state as well.                              *)
LEMMA ScoringNext == (\A n : calculate_scoring(n) = [t \in Teams |-> Scored(n, t)])'
<1>1. \A n : calculate_scoring(n) = [t \in Teams |-> Scored(n, t)]
  BY ScoringIs
<1> QED
  BY <1>1, PTL

(* Who submitted does not depend on the first bloods.                      *)
LEMMA LikeSubmitters ==
  ASSUME Like(rows', rows)
  PROVE  /\ \A f, a, b : Submitters(f, a, b)' = Submitters(f, a, b)
         /\ \A n : Stolen(n)' = Stolen(n) /\ (\A t : Mine(t, n)' = Mine(t, n))
         /\ \A p, n : AttackingTeams(p, n)' = AttackingTeams(p, n)
<1>1. DOMAIN rows' = DOMAIN rows
      /\ \A i \in DOMAIN rows : rows'[i].flag = rows[i].flag /\ rows'[i].by = rows[i].by /\ rows'[i].tick = rows[i].tick
  BY DEF Like
<1>2. ASSUME NEW f, NEW a, NEW b PROVE Submitters(f, a, b)' = Submitters(f, a, b)
  <2>1. \A t : t \in Submitters(f, a, b)' <=> \E i \in DOMAIN rows : rows[i].flag = f /\ rows[i].by = t /\ rows[i].tick \in a..b
    BY <1>1 DEF Submitters, ToSet
  <2>2. \A t : t \in Submitters(f, a, b)' <=> t \in Submitters(f, a, b)
    BY <2>1, SubmittersAre
  <2> QED
    BY <2>2
<1>3. ASSUME NEW n PROVE Stolen(n)' = Stolen(n)
  <2>1. \A f : f \in Stolen(n)' <=> \E i \in DOMAIN rows : rows[i].tick = n /\ rows[i].flag = f
    BY <1>1 DEF Stolen, FlagsOf, ToSet
  <2>2. \A f : f \in Stolen(n)' <=> f \in Stolen(n)
    BY <2>1, StolenAre
  <2> QED
    BY <2>2
<1>4. ASSUME NEW n, NEW t PROVE Mine(t, n)' = Mine(t, n)
  BY <1>1 DEF Mine
<1>5. ASSUME NEW p, NEW n PROVE AttackingTeams(p, n)' = AttackingTeams(p, n)
  <2> DEFINE S == {r.by : r \in {q \in FlagsOf(n) : q.flag.payload = p}}
  <2>1. \A t : t \in S <=> \E i \in DOMAIN rows : rows[i].tick = n /\ rows[i].flag.payload = p /\ rows[i].by = t
    BY DEF FlagsOf, ToSet
  <2>2. \A t : t \in S' <=> \E i \in DOMAIN rows : rows[i].tick = n /\ rows[i].flag.payload = p /\ rows[i].by = t
    BY <1>1 DEF FlagsOf, ToSet
  <2>3. S' = S
    <3> HIDE DEF S
    <3> QED
      BY <2>1, <2>2
  <2> QED
    BY <2>3 DEF AttackingTeams
<1> QED
  BY <1>2, <1>3, <1>4, <1>5

(* Nor do the points.                                                      *)
LEMMA CalcSame ==
  ASSUME Table(rows), NEW n \in Ticks, Like(rows', rows), algo' = algo,
         \A k \in 1..(n - 1) : points'[k] = points[k] /\ rank'[k] = rank[k], status'[n] = status[n]
  PROVE  calculate_scoring(n)' = calculate_scoring(n)
<1>0. MaxTick \in Nat /\ n \in Nat /\ n >= 1 /\ n <= MaxTick
  BY ScoringAssumption DEF Ticks
<1>1. /\ \A f, a, b : Submitters(f, a, b)' = Submitters(f, a, b)
      /\ Stolen(n)' = Stolen(n) /\ (\A t : Mine(t, n)' = Mine(t, n))
      /\ \A p : AttackingTeams(p, n)' = AttackingTeams(p, n)
  BY LikeSubmitters
<1>2. \A f : Previous(f, n)' = Previous(f, n) /\ Submissions(f, n)' = Submissions(f, n)
  BY <1>1 DEF Previous, Submissions
<1>3. Result(n)' = Result(n)
  BY DEF Result
<1>4. \A f : off_points(f, n)' = off_points(f, n)
  BY <1>1, <1>2 DEF off_points
<1>5. \A t : Had(t, n)' = Had(t, n) /\ Own(t, n)' = Own(t, n)
  BY <1>1, <1>2 DEF Had, Own
<1>6. ASSUME NEW f, f.issued \in 1..n, NEW t
      PROVE  VictimRank(f, n)' = VictimRank(f, n) /\ SlaDelta(f.issued, n, t)' = SlaDelta(f.issued, n, t)
  <2>1. f.issued > 1 => f.issued - 1 \in 1..(n - 1)
    BY <1>0, <1>6
  <2>2. f.issued # n => f.issued \in 1..(n - 1)
    BY <1>0, <1>6
  <2>3. VictimRank(f, n)' = VictimRank(f, n)
    <3>1. CASE f.issued > 1
      <4>1. rank'[f.issued - 1] = rank[f.issued - 1]
        BY <2>1, <3>1
      <4> QED
        BY <4>1 DEF VictimRank
    <3>2. CASE ~(f.issued > 1)
      BY <3>2 DEF VictimRank
    <3> QED
      BY <3>1, <3>2
  <2>4. SlaDelta(f.issued, n, t)' = SlaDelta(f.issued, n, t)
    <3>1. CASE f.issued = n
      BY <1>3, <3>1 DEF SlaDelta
    <3>2. CASE f.issued # n
      <4>1. points'[f.issued] = points[f.issued]
        BY <2>2, <3>2
      <4> QED
        BY <3>2, <4>1 DEF SlaDelta
    <3> QED
      BY <3>1, <3>2
  <2> QED
    BY <2>3, <2>4
<1>7. Before(n)' = Before(n)
  <2>1. n # 1 => n - 1 \in 1..(n - 1)
    BY <1>0
  <2> QED
    BY <2>1 DEF Before
<1>8. ASSUME NEW t \in Teams PROVE Scored(n, t)' = Scored(n, t)
  <2>1. Corrections(t, n)' = Corrections(t, n)
    BY <1>2, <1>5 DEF Corrections
  <2>2. \A f \in Own(t, n) : f.issued \in 1..n
    BY Counts DEF Own
  <2>3. Losses(t, n)' = Losses(t, n)
    BY <1>2, <1>5, <1>6, <2>2 DEF Losses
  <2>4. \A i \in Mine(t, n) : rows'[i].flag = rows[i].flag
    BY DEF Like, Mine
  <2>5. Worths(t, n)' = Worths(t, n)
    BY <1>1, <1>4, <2>4 DEF Worths
  <2>6. \A i \in Mine(t, n) : rows[i].flag.issued \in 1..n
    <3> SUFFICES ASSUME NEW i \in Mine(t, n) PROVE rows[i].flag.issued \in 1..n
      OBVIOUS
    <3>1. rows[i].flag \in Stolen(n)
      BY StolenAre DEF Mine
    <3> QED
      BY <3>1, Counts
  <2>7. Bonuses(t, n)' = Bonuses(t, n)
    BY <1>1, <1>6, <2>4, <2>6 DEF Bonuses
  <2>8. StolenFirst(t, n)' = StolenFirst(t, n)
    BY <1>1, <1>2 DEF StolenFirst, Stolen
  <2> QED
    BY <1>1, <1>3, <1>5, <1>7, <2>1, <2>3, <2>5, <2>7, <2>8 DEF Scored
<1>9. calculate_scoring(n)' = [t \in Teams |-> Scored(n, t)']
  BY ScoringNext
<1>10. calculate_scoring(n) = [t \in Teams |-> Scored(n, t)]
  BY ScoringIs
<1> QED
  BY <1>8, <1>9, <1>10

-----------------------------------------------------------------------------
(* recreate_ranking.py.                                                    *)

(* The ticks that the script has calculated, and has ranked.               *)
Done == IF script.pc = "rank" THEN script.rn ELSE script.rn - 1
Again(n) == n \in exact /\ points[n] # None /\ points[n] = calculate_scoring(n)

(* Of the ticks that the script goes through the results are there; those  *)
(* it has calculated have the points that calculating them again gives.    *)
(* Only for that the master may score one of them at the same time.        *)
RecreateInv ==
  /\ tool = "recreate" => \A k \in 1..(tick - 1) : status[k] # None
  /\ script.pc # "off" =>
       /\ tool = "recreate"
       /\ \A n \in 1..script.end : status[n] # None
       /\ script.clean => (\A n \in 1..Done : Again(n))
                          /\ \A n \in 1..(script.rn - 1) : rank[n] = Ranking(points[n])

(* How far the script is.                                                  *)
LEMMA DoneType ==
  ASSUME TypeInv, script.pc # "off"
  PROVE  /\ script.rn \in 1..(MaxTick + 1) /\ script.end \in 0..MaxTick /\ Done \in 0..MaxTick
         /\ Done <= script.end /\ script.rn - 1 <= Done /\ Done <= script.rn
<1>1. /\ script.pc \in {"off", "delete", "score", "rank", "done"} /\ script.rn \in 0..(MaxTick + 1) /\ script.end \in 0..MaxTick
      /\ script.pc \in {"delete", "score", "rank"} => script.rn \in 1..script.end
      /\ script.pc = "done" => script.rn = script.end + 1
  BY DEF TypeInv, ScriptType
<1>2. MaxTick \in Nat
  BY ScoringAssumption
<1>3. CASE script.pc = "done"
  <2>1. Done = script.rn - 1
    BY <1>3 DEF Done
  <2> QED
    BY <1>1, <1>2, <1>3, <2>1
<1>4. CASE script.pc = "rank"
  <2>1. Done = script.rn
    BY <1>4 DEF Done
  <2> QED
    BY <1>1, <1>2, <1>4, <2>1
<1>5. CASE script.pc \in {"delete", "score"}
  <2>1. Done = script.rn - 1
    BY <1>5 DEF Done
  <2> QED
    BY <1>1, <1>2, <1>5, <2>1
<1> QED
  BY <1>1, <1>3, <1>4, <1>5

(* Ticks stay calculated when a step leaves their rows and points.         *)
LEMMA AgainKept ==
  ASSUME TypeInv, Like(rows', rows), algo' = algo, NEW m \in 0..MaxTick, \A n \in 1..m : Again(n),
         \A n \in 1..m : points'[n] = points[n] /\ status'[n] = status[n] /\ n \in exact',
         \A n \in 1..(m - 1) : rank'[n] = rank[n]
  PROVE  \A n \in 1..m : Again(n)'
<1> SUFFICES ASSUME NEW n \in 1..m PROVE Again(n)'
  OBVIOUS
<1>1. n \in Ticks /\ n \in 1..m /\ \A k \in 1..(n - 1) : k \in 1..m /\ k \in 1..(m - 1)
  BY ScoringAssumption DEF Ticks
<1>2. Table(rows)
  BY DEF TypeInv, TableTypes
<1>3. \A k \in 1..(n - 1) : points'[k] = points[k] /\ rank'[k] = rank[k]
  BY <1>1
<1>4. calculate_scoring(n)' = calculate_scoring(n)
  <2>1. status'[n] = status[n]
    OBVIOUS
  <2> QED
    BY <1>1, <1>2, <1>3, <2>1, CalcSame
<1> QED
  BY <1>1, <1>4 DEF Again

(* A transaction of the scoring leaves the points of those ticks.          *)
LEMMA AgainCalculated ==
  ASSUME TypeInv, NEW p, NEW n \in Ticks, Calculate(p, n), NEW m \in 0..MaxTick, \A k \in 1..m : Again(k)
  PROVE  \A k \in 1..m : points'[k] = points[k] /\ k \in exact'
<1> SUFFICES ASSUME NEW k \in 1..m PROVE points'[k] = points[k] /\ k \in exact'
  OBVIOUS
<1>1. PICK j \in Ticks : j = FirstMissing(n)
  BY FirstMissingIs
<1>2. k \in Ticks /\ points \in [Ticks -> {None} \cup Points]
  BY ScoringAssumption DEF TypeInv, TableTypes, Ticks
<1>3. /\ points' = [points EXCEPT ![j] = calculate_scoring(j)]
      /\ exact' = IF 1..(j - 1) \subseteq exact THEN exact \cup {j} ELSE exact \ {j}
  BY <1>1 DEF Calculate, _save_teampoints
<1>4. points[k] = calculate_scoring(k) /\ k \in exact
  BY DEF Again
<1>5. CASE k = j
  <2>1. \A l \in 1..(j - 1) : l \in 1..m
    BY <1>2, <1>5 DEF Ticks
  <2>2. 1..(j - 1) \subseteq exact
    BY <2>1 DEF Again
  <2> QED
    BY <1>2, <1>3, <1>4, <1>5, <2>2
<1>6. CASE k # j
  BY <1>2, <1>3, <1>4, <1>6
<1> QED
  BY <1>5, <1>6

(* What a step of others leaves of the script's invariant.                 *)
LEMMA RecreateKept ==
  ASSUME TypeInv, RecreateInv, Like(rows', rows), UNCHANGED <<algo, tool, script>>,
         tool = "recreate" => \A k \in 1..(tick' - 1) : status'[k] # None,
         script.pc # "off" => \A n \in 1..script.end : status'[n] = status[n],
         script.pc # "off" /\ script.clean =>
           /\ \A n \in 1..Done : points'[n] = points[n] /\ n \in exact'
           /\ \A n \in 1..(script.rn - 1) : rank'[n] = rank[n]
  PROVE  RecreateInv'
<1>0. Done' = Done
  BY DEF Done
<1> SUFFICES ASSUME script.pc # "off" PROVE RecreateInv'
  BY DEF RecreateInv
<1>1. /\ script.rn \in 1..(MaxTick + 1) /\ script.end \in 0..MaxTick /\ Done \in 0..MaxTick
      /\ Done <= script.end /\ script.rn - 1 <= Done /\ Done <= script.rn /\ MaxTick \in Nat
  BY DoneType, ScoringAssumption
<1>2. /\ \A n \in 1..Done : n \in 1..script.end
      /\ \A n \in 1..(script.rn - 1) : n \in 1..Done
      /\ \A n \in 1..(Done - 1) : n \in 1..(script.rn - 1)
  BY <1>1
<1>3. tool = "recreate" /\ \A n \in 1..script.end : status[n] # None /\ status'[n] = status[n]
  BY DEF RecreateInv
<1>4. ASSUME script.clean PROVE (\A n \in 1..Done : Again(n)') /\ \A n \in 1..(script.rn - 1) : rank'[n] = Ranking(points'[n])
  <2>1. (\A n \in 1..Done : Again(n)) /\ \A n \in 1..(script.rn - 1) : rank[n] = Ranking(points[n])
    BY <1>4 DEF RecreateInv
  <2>2. PICK m \in 0..MaxTick : m = Done
    BY <1>1
  <2>3. \A n \in 1..m : points'[n] = points[n] /\ status'[n] = status[n] /\ n \in exact'
    BY <1>2, <1>3, <1>4, <2>2
  <2>4. \A n \in 1..(m - 1) : rank'[n] = rank[n]
    BY <1>2, <1>4, <2>2
  <2>5. \A n \in 1..m : Again(n)'
    BY <2>1, <2>2, <2>3, <2>4, AgainKept
  <2>6. \A n \in 1..(script.rn - 1) : rank'[n] = rank[n] /\ points'[n] = points[n]
    BY <1>2, <1>4, <2>2, <2>3
  <2> QED
    BY <2>1, <2>2, <2>5, <2>6
<1>5. \A n : Ranking(points[n])' = Ranking(points'[n])
  OBVIOUS
<1> QED
  BY <1>0, <1>3, <1>4, <1>5 DEF RecreateInv

(* Every step keeps the script's invariant.                                *)
LEMMA NextRecreate ==
  ASSUME TypeInv, RecreateInv, [Next]_vars
  PROVE  RecreateInv'
<1>1. /\ Table(rows) /\ status \in [Ticks -> {None} \cup Results]
      /\ points \in [Ticks -> {None} \cup Points] /\ rank \in [Ticks -> {None} \cup Ranks]
      /\ tick \in Ticks /\ todo \in 0..MaxTick
  BY DEF TypeInv, TableTypes
<1>2. MaxTick \in Nat /\ MaxTick # 0
  BY ScoringAssumption
<1>3. todo # 0 => todo \in Ticks
  BY <1>1, <1>2 DEF Ticks
<1>4. rows' = rows => Like(rows', rows)
  BY DEF Like
<1>5. /\ tool = "recreate" => \A k \in 1..(tick - 1) : status[k] # None
      /\ script.pc # "off" => tool = "recreate" /\ \A n \in 1..script.end : status[n] # None
      /\ script.pc # "off" /\ script.clean =>
           (\A n \in 1..Done : Again(n)) /\ \A n \in 1..(script.rn - 1) : rank[n] = Ranking(points[n])
  BY DEF RecreateInv
<1>6. ASSUME script.pc # "off"
      PROVE  /\ script.rn \in 1..(MaxTick + 1) /\ script.end \in 0..MaxTick /\ Done \in 0..MaxTick
             /\ Done <= script.end /\ script.rn - 1 <= Done /\ Done <= script.rn
             /\ (\A n \in 1..Done : n \in Ticks) /\ (\A n \in 1..(script.rn - 1) : n \in Ticks /\ n \in 1..Done)
             /\ \A n \in 1..script.end : n \in Ticks
  <2>1. /\ script.rn \in 1..(MaxTick + 1) /\ script.end \in 0..MaxTick /\ Done \in 0..MaxTick
        /\ Done <= script.end /\ script.rn - 1 <= Done /\ Done <= script.rn
    BY <1>6, DoneType
  <2> QED
    BY <1>2, <2>1 DEF Ticks
<1>7. ASSUME NEW f \in Flags, NEW team \in Teams, NEW t \in Ticks, Submit(f, team, t) PROVE RecreateInv'
  <2>1. script' = [script EXCEPT !.clean = FALSE] /\ UNCHANGED <<tick, status, tool>>
    BY <1>7 DEF Submit
  <2>2. script'.clean = FALSE /\ script'.pc = script.pc /\ script'.end = script.end
    BY <2>1 DEF TypeInv, ScriptType
  <2> QED
    BY <1>5, <2>1, <2>2 DEF RecreateInv
<1>8. ASSUME NEW result \in Outcomes, EndTick(result) PROVE RecreateInv'
  <2>1. /\ status' = [status EXCEPT ![tick] = result] /\ status[tick] = None
        /\ tick' = IF tick < MaxTick THEN tick + 1 ELSE tick
        /\ UNCHANGED <<rows, points, rank, script, algo, tool, exact>>
    BY <1>8 DEF EndTick
  <2>2. result # None
    BY ScoringAssumption, NotNone
  <2>3. ASSUME tool = "recreate", NEW k \in 1..(tick' - 1) PROVE status'[k] # None
    <3>1. k = tick \/ k \in 1..(tick - 1)
      BY <1>1, <2>1 DEF Ticks
    <3>2. k = tick => status'[k] = result
      BY <1>1, <2>1
    <3>3. k \in 1..(tick - 1) => status'[k] = status[k] /\ status[k] # None
      <4> SUFFICES ASSUME k \in 1..(tick - 1) PROVE status'[k] = status[k] /\ status[k] # None
        OBVIOUS
      <4>1. k # tick /\ k \in Ticks
        BY <1>1, <1>2 DEF Ticks
      <4> QED
        BY <1>1, <1>5, <2>1, <2>3, <4>1
    <3> QED
      BY <2>2, <3>1, <3>2, <3>3
  <2>4. ASSUME script.pc # "off", NEW n \in 1..script.end PROVE status'[n] = status[n]
    <3>1. status[n] # None /\ n \in Ticks
      BY <1>5, <1>6, <2>4
    <3> QED
      BY <1>1, <2>1, <3>1
  <2>5. script.pc # "off" /\ script.clean =>
           /\ \A n \in 1..Done : points'[n] = points[n] /\ n \in exact'
           /\ \A n \in 1..(script.rn - 1) : rank'[n] = rank[n]
    BY <1>5, <2>1 DEF Again
  <2>6. Like(rows', rows) /\ UNCHANGED <<algo, tool, script>>
    BY <1>4, <2>1
  <2> QED
    BY <2>3, <2>4, <2>5, <2>6, RecreateKept
<1>9. ASSUME ScoreTick \/ PointsForRanking PROVE RecreateInv'
  <2>1. Calculate("master", todo) /\ todo \in Ticks
    BY <1>3, <1>9 DEF ScoreTick, PointsForRanking
  <2>2. UNCHANGED <<tick, status, rank, script, algo, tool>>
    BY <1>9 DEF ScoreTick, PointsForRanking
  <2>3. Like(rows', rows)
    BY <2>1, CalculateTypes
  <2>4. ASSUME script.pc # "off", script.clean PROVE \A n \in 1..Done : points'[n] = points[n] /\ n \in exact'
    <3>1. PICK m \in 0..MaxTick : m = Done
      BY <1>6, <2>4
    <3>2. \A n \in 1..m : Again(n)
      BY <1>5, <2>4, <3>1
    <3>3. \A n \in 1..m : points'[n] = points[n] /\ n \in exact'
      BY <2>1, <3>2, AgainCalculated
    <3> QED
      BY <3>1, <3>3
  <2>5. \A n : rank'[n] = rank[n] /\ status'[n] = status[n]
    BY <2>2
  <2>6. tool = "recreate" => \A k \in 1..(tick' - 1) : status'[k] # None
    BY <1>5, <2>2
  <2> QED
    BY <2>2, <2>3, <2>4, <2>5, <2>6, RecreateKept
<1>10. ASSUME ScoreTickFails \/ UNCHANGED vars PROVE RecreateInv'
  <2>1. UNCHANGED <<tick, rows, status, points, rank, script, algo, tool, exact>>
    BY <1>10 DEF ScoreTickFails, vars, tables
  <2>2. script.pc # "off" /\ script.clean =>
           /\ \A n \in 1..Done : points'[n] = points[n] /\ n \in exact'
           /\ \A n \in 1..(script.rn - 1) : rank'[n] = rank[n]
    BY <1>5, <2>1 DEF Again
  <2>3. tool = "recreate" => \A k \in 1..(tick' - 1) : status'[k] # None
    BY <1>5, <2>1
  <2>4. \A n : status'[n] = status[n]
    BY <2>1
  <2>5. Like(rows', rows) /\ UNCHANGED <<algo, tool, script>>
    BY <1>4, <2>1
  <2> QED
    BY <2>2, <2>3, <2>4, <2>5, RecreateKept
<1>11. ASSUME RankTick PROVE RecreateInv'
  <2>1. /\ rank' = [rank EXCEPT ![todo] = Ranking(points[todo])] /\ todo # 0
        /\ UNCHANGED <<tick, rows, status, points, script, algo, tool, exact>>
    BY <1>11 DEF RankTick
  <2>2. ASSUME script.pc # "off", script.clean
        PROVE  /\ \A n \in 1..Done : points'[n] = points[n] /\ n \in exact'
               /\ \A n \in 1..(script.rn - 1) : rank'[n] = rank[n]
    <3>1. \A n \in 1..Done : points'[n] = points[n] /\ n \in exact'
      BY <1>5, <2>1, <2>2 DEF Again
    <3>2. ASSUME NEW n \in 1..(script.rn - 1) PROVE rank'[n] = rank[n]
      <4>1. n \in Ticks /\ rank[n] = Ranking(points[n])
        BY <1>5, <1>6, <2>2
      <4> QED
        BY <1>1, <1>3, <2>1, <4>1
    <3> QED
      BY <3>1, <3>2
  <2>3. tool = "recreate" => \A k \in 1..(tick' - 1) : status'[k] # None
    BY <1>5, <2>1
  <2>4. \A n : status'[n] = status[n]
    BY <2>1
  <2>5. Like(rows', rows) /\ UNCHANGED <<algo, tool, script>>
    BY <1>4, <2>1
  <2> QED
    BY <2>2, <2>3, <2>4, <2>5, RecreateKept
<1>12. ASSUME NEW n \in Ticks, RecreateStart(n) PROVE RecreateInv'
  <2>1. /\ tool = "recreate" /\ script' = [pc |-> "delete", rn |-> n, end |-> LastOver, clean |-> n = 1]
        /\ UNCHANGED <<tick, status, tool>>
    BY <1>12 DEF RecreateStart, tables
  <2>2. \A k \in 1..LastOver : status[k] # None
    <3>1. \A k \in 1..tick : k = tick \/ k \in 1..(tick - 1)
      BY <1>1 DEF Ticks
    <3> QED
      BY <1>5, <2>1, <3>1 DEF LastOver
  <2>3. script'.pc = "delete" /\ script'.rn = n /\ script'.end = LastOver /\ (script'.clean <=> n = 1)
    BY <2>1
  <2>4. Done' = n - 1
    BY <2>3 DEF Done
  <2>5. n = 1 => 1..(n - 1) = {}
    OBVIOUS
  <2> QED
    BY <1>5, <2>1, <2>2, <2>3, <2>4, <2>5 DEF RecreateInv
<1>13. ASSUME RecreateDelete PROVE RecreateInv'
  <2>1. /\ script.pc = "delete" /\ script' = [script EXCEPT !.pc = "score"]
        /\ points' = [points EXCEPT ![script.rn] = None] /\ rank' = [rank EXCEPT ![script.rn] = None]
        /\ UNCHANGED <<tick, rows, status, algo, tool, exact>>
    BY <1>13 DEF RecreateDelete
  <2>2. script'.pc = "score" /\ script'.rn = script.rn /\ script'.end = script.end /\ script'.clean = script.clean
    BY <2>1 DEF TypeInv, ScriptType
  <2>3. Done = script.rn - 1 /\ Done' = script.rn - 1
    BY <2>1, <2>2 DEF Done
  <2>4. ASSUME script.clean
        PROVE  (\A n \in 1..Done' : Again(n)') /\ \A n \in 1..(script'.rn - 1) : rank'[n] = Ranking(points'[n])
    <3>1. PICK m \in 0..MaxTick : m = Done /\ m = script.rn - 1
      BY <1>6, <2>1, <2>3
    <3>2. ASSUME NEW n \in 1..m PROVE points'[n] = points[n] /\ rank'[n] = rank[n]
      <4>1. n \in Ticks /\ n # script.rn
        BY <1>6, <2>1, <3>1
      <4> QED
        BY <1>1, <2>1, <4>1
    <3>3. \A n \in 1..m : Again(n) /\ rank[n] = Ranking(points[n])
      BY <1>5, <2>1, <2>4, <3>1
    <3>4. \A n \in 1..m : points'[n] = points[n] /\ status'[n] = status[n] /\ n \in exact'
      BY <2>1, <3>2, <3>3 DEF Again
    <3>5. \A n \in 1..(m - 1) : rank'[n] = rank[n]
      BY <3>2
    <3>6. Like(rows', rows) /\ algo' = algo
      BY <1>4, <2>1
    <3>7. \A n \in 1..m : Again(n)
      BY <3>3
    <3>8. \A n \in 1..m : Again(n)'
      BY <3>4, <3>5, <3>6, <3>7, AgainKept
    <3> QED
      BY <2>2, <2>3, <3>1, <3>2, <3>3, <3>8
  <2> QED
    BY <1>5, <2>1, <2>2, <2>4 DEF RecreateInv
<1>14. ASSUME RecreateScore PROVE RecreateInv'
  <2>1. /\ script.pc = "score" /\ Calculate("script", script.rn)
        /\ script' = [script EXCEPT !.pc = IF FirstMissing(script.rn) = script.rn THEN "rank" ELSE "score"]
        /\ UNCHANGED <<tick, status, rank, algo, tool>>
    BY <1>14 DEF RecreateScore
  <2>2. /\ script'.pc = IF FirstMissing(script.rn) = script.rn THEN "rank" ELSE "score"
        /\ script'.rn = script.rn /\ script'.end = script.end /\ script'.clean = script.clean
    BY <2>1 DEF TypeInv, ScriptType
  <2>3. PICK rn \in Ticks : rn = script.rn
    BY <1>2, <2>1 DEF TypeInv, ScriptType, Ticks
  <2>4. Like(rows', rows)
    BY <2>1, <2>3, CalculateTypes
  <2>5. ASSUME script.clean
        PROVE  (\A n \in 1..Done' : Again(n)') /\ \A n \in 1..(script'.rn - 1) : rank'[n] = Ranking(points'[n])
    <3>1. PICK m \in 0..MaxTick : m = Done /\ m = rn - 1
      BY <1>6, <2>1, <2>3 DEF Done
    <3>2. \A n \in 1..m : Again(n) /\ rank[n] = Ranking(points[n])
      BY <1>5, <2>1, <2>3, <2>5, <3>1
    <3>3. \A n \in 1..m : points'[n] = points[n] /\ n \in exact'
      <4>1. \A n \in 1..m : Again(n)
        BY <3>2
      <4> QED
        BY <2>1, <2>3, <4>1, AgainCalculated
    <3>4. \A n \in 1..m : Again(n)'
      <4>1. \A n \in 1..m : points'[n] = points[n] /\ status'[n] = status[n] /\ n \in exact'
        BY <2>1, <3>3
      <4>2. \A n \in 1..(m - 1) : rank'[n] = rank[n]
        BY <2>1
      <4>3. \A n \in 1..m : Again(n)
        BY <3>2
      <4> QED
        BY <2>1, <2>4, <4>1, <4>2, <4>3, AgainKept
    <3>5. FirstMissing(rn) = rn
      <4>1. PICK j \in 1..rn : j = FirstMissing(rn) /\ \A k \in j..(rn - 1) : points[k] = None
        BY FirstMissingIs
      <4>2. ASSUME j # rn PROVE FALSE
        <5>1. j \in j..(rn - 1) /\ j \in 1..m
          BY <2>3, <3>1, <4>2 DEF Ticks
        <5>2. points[j] # None
          BY <3>2, <5>1 DEF Again
        <5> QED
          BY <4>1, <5>1, <5>2
      <4> QED
        BY <4>1, <4>2
    <3>6. Again(rn)'
      <4>1. /\ points' = [points EXCEPT ![rn] = calculate_scoring(rn)]
            /\ exact' = IF 1..(rn - 1) \subseteq exact THEN exact \cup {rn} ELSE exact \ {rn}
        BY <2>1, <2>3, <3>5 DEF Calculate, _save_teampoints
      <4>2. calculate_scoring(rn) \in Points
        BY <2>1, <2>3, <3>5, CalculateTypes
      <4>3. calculate_scoring(rn) # None
        BY <4>2, NotNone DEF Points
      <4>4. points'[rn] = calculate_scoring(rn)
        BY <1>1, <4>1
      <4>5. 1..(rn - 1) \subseteq exact
        BY <3>1, <3>2 DEF Again
      <4>6. calculate_scoring(rn)' = calculate_scoring(rn)
        <5>1. \A k \in 1..(rn - 1) : points'[k] = points[k] /\ rank'[k] = rank[k]
          BY <2>1, <3>1, <3>3
        <5>2. status'[rn] = status[rn]
          BY <2>1
        <5> QED
          BY <1>1, <2>1, <2>4, <5>1, <5>2, CalcSame
      <4> QED
        BY <4>1, <4>3, <4>4, <4>5, <4>6 DEF Again
    <3>7. Done' = rn
      BY <2>2, <2>3, <3>5 DEF Done
    <3>8. \A n \in 1..rn : n = rn \/ n \in 1..m
      BY <1>2, <3>1 DEF Ticks
    <3>9. \A n \in 1..rn : Again(n)'
      BY <3>4, <3>6, <3>8
    <3>10. \A n \in 1..(rn - 1) : rank'[n] = Ranking(points'[n])
      BY <2>1, <3>1, <3>2, <3>3
    <3> QED
      BY <2>2, <2>3, <3>7, <3>9, <3>10
  <2> QED
    BY <1>5, <2>1, <2>2, <2>5 DEF RecreateInv
<1>15. ASSUME RecreateRank PROVE RecreateInv'
  <2>1. /\ script.pc = "rank" /\ points[script.rn] # None
        /\ rank' = [rank EXCEPT ![script.rn] = Ranking(points[script.rn])]
        /\ script' = [script EXCEPT !.rn = @ + 1, !.pc = IF script.rn = script.end THEN "done" ELSE "delete"]
        /\ UNCHANGED <<tick, rows, status, points, algo, tool, exact>>
    BY <1>15 DEF RecreateRank
  <2>2. PICK rn \in Ticks : rn = script.rn
    BY <1>2, <2>1 DEF TypeInv, ScriptType, Ticks
  <2>3. /\ script'.pc = IF script.rn = script.end THEN "done" ELSE "delete"
        /\ script'.rn = rn + 1 /\ script'.end = script.end /\ script'.clean = script.clean
    BY <2>1, <2>2 DEF TypeInv, ScriptType
  <2>4. rn \in Nat /\ rn \in 0..MaxTick /\ (rn + 1) - 1 = rn
    BY <1>2, <2>2 DEF Ticks
  <2>5. Done = rn /\ Done' = rn
    <3>1. script'.pc # "rank"
      BY <2>3
    <3> QED
      BY <2>1, <2>2, <2>3, <2>4, <3>1 DEF Done
  <2>6. ASSUME script.clean
        PROVE  (\A n \in 1..rn : Again(n)') /\ \A n \in 1..rn : rank'[n] = Ranking(points'[n])
    <3>1. \A n \in 1..rn : Again(n)
      BY <1>5, <2>1, <2>5, <2>6
    <3>2. \A n \in 1..(rn - 1) : rank[n] = Ranking(points[n])
      BY <1>5, <2>1, <2>2, <2>6
    <3>3. \A n \in 1..rn : points'[n] = points[n] /\ status'[n] = status[n] /\ n \in exact'
      BY <2>1, <3>1 DEF Again
    <3>4. \A n \in 1..(rn - 1) : rank'[n] = rank[n]
      <4> SUFFICES ASSUME NEW n \in 1..(rn - 1) PROVE rank'[n] = rank[n]
        OBVIOUS
      <4>1. n \in Ticks /\ n # rn
        BY <1>2, <2>4 DEF Ticks
      <4> QED
        BY <1>1, <2>1, <2>2, <4>1
    <3>5. rank'[rn] = Ranking(points'[rn])
      BY <1>1, <2>1, <2>2
    <3>6. Like(rows', rows) /\ algo' = algo
      BY <1>4, <2>1
    <3>7. \A n \in 1..rn : Again(n)'
      BY <2>4, <3>1, <3>3, <3>4, <3>6, AgainKept
    <3>8. \A n \in 1..rn : n = rn \/ n \in 1..(rn - 1)
      BY <2>4
    <3> QED
      BY <2>1, <3>2, <3>4, <3>5, <3>7, <3>8
  <2> QED
    BY <1>5, <2>1, <2>3, <2>4, <2>5, <2>6 DEF RecreateInv
<1>16. ASSUME recompute_first_blood_flags \/ \E n \in Ticks : reset_database(n) PROVE RecreateInv'
  <2>1. tool # "recreate" /\ UNCHANGED <<script, tool>>
    BY <1>16 DEF recompute_first_blood_flags, reset_database
  <2>2. script.pc = "off"
    BY <1>5, <2>1
  <2> QED
    BY <2>1, <2>2 DEF RecreateInv
<1> QED
  BY <1>7, <1>8, <1>9, <1>10, <1>11, <1>12, <1>13, <1>14, <1>15, <1>16 DEF Next

(* When recreate_ranking.py is through all ticks and no flag came in, the  *)
(* points count all rows and the rankings are those of the points,         *)
(* whatever the end thread of the master scored meanwhile: it is its own   *)
(* transaction that gives the same points again (recreate_ranking.py).     *)
THEOREM RecreatedCorrect == Spec => []RecreatedRight
<1>1. Init => TypeInv /\ RecreateInv
  <2> SUFFICES ASSUME Init PROVE TypeInv /\ RecreateInv
    OBVIOUS
  <2>1. 1..(tick - 1) = {} /\ script.pc = "off"
    BY DEF Init, NoScript
  <2> QED
    BY <2>1, InitTypes DEF RecreateInv
<1>2. TypeInv /\ RecreateInv /\ [Next]_vars => TypeInv' /\ RecreateInv'
  BY NextTypes, NextRecreate
<1>3. TypeInv /\ RecreateInv => RecreatedRight
  <2> SUFFICES ASSUME TypeInv, RecreateInv, script.pc = "done", script.clean, NEW n \in 1..script.end
               PROVE  n \in exact /\ points[n] # None /\ rank[n] = Ranking(points[n])
    BY DEF RecreatedRight
  <2>1. script.rn = script.end + 1 /\ script.end \in 0..MaxTick
    BY DEF TypeInv, ScriptType
  <2>2. Done = script.end /\ script.rn - 1 = script.end
    BY <2>1, ScoringAssumption DEF Done
  <2> QED
    BY <2>2 DEF RecreateInv, Again
<1> QED
  BY <1>1, <1>2, <1>3, PTL DEF Spec

-----------------------------------------------------------------------------
(* The value of the flags.                                                 *)

Values(t, n) == [f \in Attacked(t, n) |-> Worth[Cardinality(Submitters(f, 1, n))]]
Robbed(t, n) == {f \in Flags : f.team = t /\ Submitters(f, 1, n) # {}}

(* What FlagWorth adds up is a sum.                                        *)
LEMMA ValuesSum ==
  ASSUME NEW t, NEW n
  PROVE  MapThenSumSet(LAMBDA f : Worth[Cardinality(Submitters(f, 1, n))], Attacked(t, n))
           = SumOver(Values(t, n), Attacked(t, n))
<1> DEFINE S == Attacked(t, n)
           F == Values(t, n)
           pick(s) == CHOOSE x \in s : TRUE
           val(f) == Worth[Cardinality(Submitters(f, 1, n))]
           P(g) == g = [s \in SUBSET S |-> IF s = {} THEN 0 ELSE F[pick(s)] + g[s \ {pick(s)}]]
           Q(g) == g = [s \in SUBSET S |-> IF s = {} THEN 0 ELSE val(pick(s)) + g[s \ {pick(s)}]]
<1>1. SumOver(F, S) = (CHOOSE g : P(g))[S]
  BY DEF SumOver
<1>2. MapThenSumSet(LAMBDA f : Worth[Cardinality(Submitters(f, 1, n))], S) = (CHOOSE g : Q(g))[S]
  BY DEF MapThenSumSet, MapThenFoldSet
<1>3. \A s \in SUBSET S : s # {} => F[pick(s)] = val(pick(s))
  BY DEF Values
<1> HIDE DEF pick, val, F, S
<1>4. ASSUME NEW g PROVE P(g) <=> Q(g)
  BY <1>3
<1> HIDE DEF P, Q
<1>5. (CHOOSE g : P(g)) = (CHOOSE g : Q(g))
  BY <1>4
<1> QED
  BY <1>1, <1>2, <1>5 DEF F, S

(* The flags that were attacked are finitely many and have a value.        *)
LEMMA AttackedFinite ==
  ASSUME Table(rows), NEW t, NEW n
  PROVE  IsFiniteSet(Attacked(t, n)) /\ IsFiniteSet(Robbed(t, n)) /\ Values(t, n) \in [Attacked(t, n) -> Int]
<1> DEFINE S == {rows[i].flag : i \in DOMAIN rows}
           m == [i \in DOMAIN rows |-> rows[i].flag]
<1>1. PICK N \in Nat : DOMAIN rows = 1..N
  BY RowOf
<1>2. IsFiniteSet(DOMAIN rows)
  BY <1>1, FS_Interval
<1>3. m \in Surjection(DOMAIN rows, S)
  BY DEF Surjection
<1>4. Attacked(t, n) \in SUBSET S
  BY SubmittersAre DEF Attacked
<1>5. Robbed(t, n) \in SUBSET S
  BY SubmittersAre DEF Robbed
<1> HIDE DEF S, m
<1>6. IsFiniteSet(S)
  BY <1>2, <1>3, FS_Surjection
<1>7. ASSUME NEW f \in Attacked(t, n) PROVE Worth[Cardinality(Submitters(f, 1, n))] \in Int
  <2>1. Submitters(f, 1, n) # {}
    BY DEF Attacked
  <2>2. IsFiniteSet(Submitters(f, 1, n)) /\ Cardinality(Submitters(f, 1, n)) \in 0..Cardinality(Teams)
    BY SubmittersTeams
  <2>3. Cardinality(Submitters(f, 1, n)) # 0
    BY <2>1, <2>2, FS_EmptySet
  <2>4. Cardinality(Submitters(f, 1, n)) \in 1..Cardinality(Teams)
    BY <2>2, <2>3, TeamSets
  <2> QED
    BY <2>4, ScoringAssumption
<1>8. Values(t, n) \in [Attacked(t, n) -> Int]
  BY <1>7 DEF Values
<1>9. IsFiniteSet(Attacked(t, n))
  BY <1>4, <1>6, FS_Subset
<1>10. IsFiniteSet(Robbed(t, n))
  BY <1>5, <1>6, FS_Subset
<1> QED
  BY <1>8, <1>9, <1>10

(* Who submitted up to n: the ones before, and the ones in tick n.         *)
LEMMA SubmittersSplit ==
  ASSUME Table(rows), NEW n \in Ticks, NEW f, NEW t
  PROVE  /\ t \in Submitters(f, 1, n) <=> t \in Submitters(f, 1, n - 1) \/ \E i \in Mine(t, n) : rows[i].flag = f
         /\ f \notin Stolen(n) => Submitters(f, 1, n) = Submitters(f, 1, n - 1)
<1>1. n \in Nat /\ n >= 1
  BY ScoringAssumption DEF Ticks
<1>2. \A i \in DOMAIN rows : rows[i].tick \in 1..n <=> rows[i].tick \in 1..(n - 1) \/ rows[i].tick = n
  <2>1. \A i \in DOMAIN rows : rows[i].tick \in Int
    BY RowOf DEF Ticks
  <2> QED
    BY <1>1, <2>1
<1>3. t \in Submitters(f, 1, n) <=> t \in Submitters(f, 1, n - 1) \/ \E i \in Mine(t, n) : rows[i].flag = f
  BY <1>2, SubmittersAre DEF Mine
<1>4. ASSUME f \notin Stolen(n) PROVE Submitters(f, 1, n) = Submitters(f, 1, n - 1)
  <2>1. \A i \in DOMAIN rows : rows[i].flag = f => rows[i].tick # n
    BY <1>4, StolenAre
  <2>2. \A u : u \in Submitters(f, 1, n) <=> u \in Submitters(f, 1, n - 1)
    BY <1>2, <2>1, SubmittersAre
  <2> QED
    BY <2>2
<1> QED
  BY <1>3, <1>4

(* The flags of a team's rows in tick n are new to it.                     *)
Taken(t, n) == {rows[i].flag : i \in Mine(t, n)}
LEMMA AttackedSplit ==
  ASSUME Table(rows), NEW n \in Ticks, NEW t \in Teams
  PROVE  /\ Attacked(t, n) = Attacked(t, n - 1) \cup Taken(t, n) /\ Attacked(t, n - 1) \cap Taken(t, n) = {}
         /\ \A i, j \in Mine(t, n) : rows[i].flag = rows[j].flag => i = j
         /\ Taken(t, n) \subseteq Stolen(n) /\ Had(t, n) \subseteq Attacked(t, n - 1)
         /\ \A f \in Attacked(t, n - 1) : f \in Stolen(n) => f \in Had(t, n)
<1>0. PICK M : M = Taken(t, n) /\ M = {rows[i].flag : i \in Mine(t, n)}
  BY DEF Taken
<1>1. \A i \in Mine(t, n) : i \in DOMAIN rows /\ rows[i].flag \in Flags /\ rows[i].by = t /\ rows[i].tick = n
  BY RowOf DEF Mine
<1>2. Attacked(t, n) = Attacked(t, n - 1) \cup M
  BY <1>0, <1>1, SubmittersSplit DEF Attacked
<1>3. Attacked(t, n - 1) \cap M = {}
  <2> SUFFICES ASSUME NEW f \in Attacked(t, n - 1), f \in M PROVE FALSE
    OBVIOUS
  <2>1. PICK i \in Mine(t, n) : rows[i].flag = f
    BY <1>0
  <2>2. PICK j \in DOMAIN rows : rows[j].flag = f /\ rows[j].by = t /\ rows[j].tick \in 1..(n - 1)
    BY SubmittersAre DEF Attacked
  <2>3. i = j
    BY <1>1, <2>1, <2>2 DEF Table
  <2> QED
    BY <1>1, <2>2, <2>3, ScoringAssumption DEF Ticks
<1>4. \A i, j \in Mine(t, n) : rows[i].flag = rows[j].flag => i = j
  BY <1>1 DEF Table
<1>5. M \subseteq Stolen(n)
  BY <1>0, <1>1, StolenAre
<1>6. ASSUME NEW f \in Stolen(n) PROVE f \in Had(t, n) <=> f \in Attacked(t, n - 1)
  <2>1. Previous(f, n) = Submitters(f, 1, n - 1) /\ f \in Flags
    BY Counts
  <2> QED
    BY <2>1 DEF Had, Attacked
<1>7. Had(t, n) \subseteq Stolen(n)
  BY DEF Had
<1> QED
  BY <1>0, <1>2, <1>3, <1>4, <1>5, <1>6, <1>7

(* The worth of all flags grows by the corrections and the new flags.      *)
LEMMA WorthStep ==
  ASSUME Table(rows), rank \in [Ticks -> {None} \cup Ranks], points \in [Ticks -> {None} \cup Points],
         algo[1] = "saarctf", NEW n \in Ticks, NEW t \in Teams
  PROVE  SumOver(Values(t, n), Attacked(t, n))
           = SumOver(Values(t, n - 1), Attacked(t, n - 1)) + SumOver(Corrections(t, n), Had(t, n))
               + SumOver(Worths(t, n), Mine(t, n))
<1>1. PICK M : M = Taken(t, n) /\ M = {rows[i].flag : i \in Mine(t, n)}
  BY DEF Taken
<1>2. PICK O : O = Attacked(t, n - 1)
  OBVIOUS
<1>3. PICK A : A = Attacked(t, n)
  OBVIOUS
<1>4. PICK H : H = Had(t, n)
  OBVIOUS
<1>5. /\ A = O \cup M /\ O \cap M = {} /\ \A i, j \in Mine(t, n) : rows[i].flag = rows[j].flag => i = j
      /\ M \subseteq Stolen(n) /\ H \subseteq O /\ \A f \in O : f \in Stolen(n) => f \in H
  <2>1. /\ Attacked(t, n) = Attacked(t, n - 1) \cup Taken(t, n) /\ Attacked(t, n - 1) \cap Taken(t, n) = {}
        /\ \A i, j \in Mine(t, n) : rows[i].flag = rows[j].flag => i = j
        /\ Taken(t, n) \subseteq Stolen(n) /\ Had(t, n) \subseteq Attacked(t, n - 1)
        /\ \A f \in Attacked(t, n - 1) : f \in Stolen(n) => f \in Had(t, n)
    BY AttackedSplit
  <2> QED
    BY <1>1, <1>2, <1>3, <1>4, <2>1
<1>6. PICK V : V = Values(t, n) /\ V \in [A -> Int] /\ IsFiniteSet(A)
  BY <1>3, AttackedFinite
<1>7. PICK U : U = Values(t, n - 1) /\ U \in [O -> Int] /\ IsFiniteSet(O)
  BY <1>2, AttackedFinite
<1>8. PICK K : K = Corrections(t, n) /\ K \in [H -> Int]
  BY <1>4, TermTypes
<1>9. PICK W : W = Worths(t, n) /\ W \in [Mine(t, n) -> Int]
  BY TermTypes
<1>10. SumOver(V, A) = SumOver(Part(V, O), O) + SumOver(Part(V, M), M)
  BY <1>5, <1>6, SumUnion
<1>11. SumOver(W, Mine(t, n)) = SumOver(Part(V, M), M)
  <2> DEFINE m == [i \in Mine(t, n) |-> rows[i].flag]
  <2>1. m \in [Mine(t, n) -> M] /\ (\A x \in Mine(t, n), y \in Mine(t, n) : m[x] = m[y] => x = y)
        /\ \A u \in M : \E x \in Mine(t, n) : m[x] = u
    BY <1>1, <1>5
  <2>2. Part(V, M) \in [M -> Int] /\ \A f \in M : Part(V, M)[f] = V[f]
    BY <1>5, <1>6 DEF Part
  <2>3. ASSUME NEW i \in Mine(t, n) PROVE W[i] = Part(V, M)[m[i]]
    <3>1. PICK f : f = rows[i].flag /\ f \in M
      BY <1>1
    <3>2. f \in Stolen(n) /\ f \in A
      BY <1>5, <3>1
    <3>3. W[i] = Worth[Submissions(f, n)]
      BY <1>9, <3>1 DEF Worths, off_points
    <3>4. V[f] = Worth[Cardinality(Submitters(f, 1, n))]
      BY <1>3, <1>6, <3>2 DEF Values
    <3>5. Submissions(f, n) = Cardinality(Submitters(f, 1, n))
      BY <3>2, Counts
    <3> QED
      BY <2>2, <3>1, <3>3, <3>4, <3>5
  <2>4. IsFiniteSet(Mine(t, n))
    BY FiniteParts
  <2> HIDE DEF m
  <2> QED
    BY <1>9, <2>1, <2>2, <2>3, <2>4, SumImage
<1> DEFINE D == [f \in O |-> IF f \in H THEN K[f] ELSE 0]
<1>12. D \in [O -> Int] /\ (\A f \in O \ H : D[f] = 0) /\ \A f \in H : D[f] = K[f]
  BY <1>5, <1>8
<1> HIDE DEF D
<1>13. SumOver(D, O) = SumOver(K, H)
  <2>1. SumOver(D, O) = SumOver(Part(D, H), H)
    BY <1>5, <1>7, <1>12, SumPart
  <2>2. Part(D, H) = K
    BY <1>8, <1>12 DEF Part
  <2> QED
    BY <2>1, <2>2
<1>14. SumOver(Part(V, O), O) = SumOver(U, O) + SumOver(D, O)
  <2>1. Part(V, O) \in [O -> Int]
    BY <1>5, <1>6 DEF Part
  <2>2. ASSUME NEW f \in O PROVE Part(V, O)[f] = U[f] + D[f]
    <3>1. Part(V, O)[f] = Worth[Cardinality(Submitters(f, 1, n))]
      BY <1>3, <1>5, <1>6 DEF Part, Values
    <3>2. U[f] = Worth[Cardinality(Submitters(f, 1, n - 1))]
      BY <1>2, <1>7 DEF Values
    <3>3. U[f] \in Int /\ Part(V, O)[f] \in Int
      BY <1>7, <2>1
    <3>4. CASE f \in H
      <4>1. f \in Stolen(n)
        BY <1>4, <3>4 DEF Had
      <4>2. Previous(f, n) = Submitters(f, 1, n - 1) /\ Submissions(f, n) = Cardinality(Submitters(f, 1, n))
        BY <4>1, Counts
      <4>3. K[f] = Part(V, O)[f] - U[f]
        BY <1>4, <1>8, <3>1, <3>2, <3>4, <4>2 DEF Corrections
      <4> QED
        BY <1>12, <3>3, <3>4, <4>3
    <3>5. CASE f \notin H
      <4>1. f \notin Stolen(n)
        BY <1>5, <3>5
      <4>2. Submitters(f, 1, n) = Submitters(f, 1, n - 1)
        BY <4>1, SubmittersSplit
      <4>3. D[f] = 0
        BY <1>12, <3>5
      <4> QED
        BY <3>1, <3>2, <3>3, <4>2, <4>3
    <3> QED
      BY <3>4, <3>5
  <2> QED
    BY <1>7, <1>12, <2>1, <2>2, SumPlus
<1>15. SumOver(V, A) = SumOver(U, O) + SumOver(K, H) + SumOver(W, Mine(t, n))
  BY <1>10, <1>11, <1>13, <1>14
<1> QED
  BY <1>2, <1>3, <1>4, <1>6, <1>7, <1>8, <1>9, <1>15

(* So does the number of the flags that were stolen from a team.           *)
LEMMA StolenStep ==
  ASSUME Table(rows), NEW n \in Ticks, NEW t \in Teams
  PROVE  Cardinality(Robbed(t, n)) = Cardinality(Robbed(t, n - 1)) + StolenFirst(t, n)
<1>1. PICK A : A = Robbed(t, n - 1) /\ IsFiniteSet(A)
  BY AttackedFinite
<1>2. PICK B : B = {f \in Stolen(n) : f.team = t /\ Previous(f, n) = {}}
  OBVIOUS
<1>3. StolenFirst(t, n) = Cardinality(B)
  BY <1>2 DEF StolenFirst, Stolen
<1>4. IsFiniteSet(B)
  <2>1. B \in SUBSET Stolen(n)
    BY <1>2
  <2> QED
    BY <2>1, FiniteParts, FS_Subset
<1>5. ASSUME NEW f \in Stolen(n) PROVE Previous(f, n) = Submitters(f, 1, n - 1) /\ f \in Flags /\ Submitters(f, 1, n) # {}
  <2>1. /\ Previous(f, n) = Submitters(f, 1, n - 1) /\ f \in Flags
        /\ Submissions(f, n) = Cardinality(Submitters(f, 1, n)) /\ Submissions(f, n) \in 1..Cardinality(Teams)
    BY Counts
  <2>2. Cardinality(Submitters(f, 1, n)) # 0
    BY <2>1, TeamSets
  <2>3. Submitters(f, 1, n) # {}
    BY <2>2, FS_EmptySet
  <2> QED
    BY <2>1, <2>3
<1>6. \A f : Submitters(f, 1, n - 1) \subseteq Submitters(f, 1, n)
  BY SubmittersSplit
<1>7. \A f : f \notin Stolen(n) => Submitters(f, 1, n) = Submitters(f, 1, n - 1)
  BY SubmittersSplit
<1>8. ASSUME NEW f PROVE f \in Robbed(t, n) <=> f \in A \/ f \in B
  <2>1. CASE f \in Stolen(n)
    BY <1>1, <1>2, <1>5, <1>6, <2>1 DEF Robbed
  <2>2. CASE f \notin Stolen(n)
    BY <1>1, <1>2, <1>7, <2>2 DEF Robbed
  <2> QED
    BY <2>1, <2>2
<1>9. Robbed(t, n) = A \cup B
  BY <1>8
<1>10. A \cap B = {}
  BY <1>1, <1>2, <1>5 DEF Robbed
<1>11. Cardinality(A \cup B) = Cardinality(A) + Cardinality(B) - Cardinality(A \cap B)
  BY <1>1, <1>4, FS_Union
<1>12. Cardinality(A \cap B) = 0 /\ Cardinality(A) \in Nat /\ Cardinality(B) \in Nat
  BY <1>1, <1>4, <1>10, FS_EmptySet, FS_CardinalityType
<1> QED
  BY <1>1, <1>3, <1>9, <1>11, <1>12

(* The points of tick n hold all the flags up to it.                       *)
WorthAt(n) ==
  \A t \in Teams : /\ points[n][t].worth = SumOver(Values(t, n), Attacked(t, n))
                   /\ points[n][t].stolen = Cardinality(Robbed(t, n))

(* Which is so for every tick that was scored with all its rows and those  *)
(* of the ticks before: each adds its difference to such points.           *)
WorthInv == algo[1] = "saarctf" => \A n \in exact : points[n] # None => WorthAt(n)

(* Before the first tick there is nothing.                                 *)
LEMMA WorthNone ==
  ASSUME NEW t
  PROVE  SumOver(Values(t, 0), Attacked(t, 0)) = 0 /\ Cardinality(Robbed(t, 0)) = 0
<1>1. \A f : Submitters(f, 1, 0) = {}
  <2>1. ASSUME NEW f, NEW u, u \in Submitters(f, 1, 0) PROVE FALSE
    <3>1. PICK i \in DOMAIN rows : rows[i].tick \in 1..0
      BY <2>1, SubmittersAre
    <3> QED
      BY <3>1
  <2> QED
    BY <2>1
<1>2. Attacked(t, 0) = {} /\ Robbed(t, 0) = {}
  BY <1>1 DEF Attacked, Robbed
<1>3. PICK F : F = Values(t, 0)
  OBVIOUS
<1>4. F = [x \in {} |-> F[x]]
  BY <1>2, <1>3 DEF Values
<1>5. SumOver([x \in {} |-> F[x]], {}) = 0
  BY SumEmpty
<1> QED
  BY <1>2, <1>3, <1>4, <1>5, FS_EmptySet

(* Points that are kept hold the same flags while their rows are the same. *)
LEMMA WorthKept ==
  ASSUME NEW n, WorthAt(n), points'[n] = points[n], \A f : Submitters(f, 1, n)' = Submitters(f, 1, n)
  PROVE  WorthAt(n)'
<1>1. \A t : Attacked(t, n)' = Attacked(t, n) /\ Robbed(t, n)' = Robbed(t, n)
  BY DEF Attacked, Robbed
<1>2. \A t : Values(t, n)' = Values(t, n)
  BY <1>1 DEF Values
<1> QED
  BY <1>1, <1>2 DEF WorthAt

(* A transaction of the scoring.                                           *)
LEMMA WorthCalculated ==
  ASSUME TypeInv, WorthInv, NEW p \in {"master", "script"}, NEW n \in Ticks, Calculate(p, n), algo' = algo
  PROVE  WorthInv'
<1>1. PICK j \in Ticks : j = FirstMissing(n) /\ (j = 1 \/ points[j - 1] # None)
  BY FirstMissingIs
<1>2. /\ Table(rows) /\ rank \in [Ticks -> {None} \cup Ranks] /\ points \in [Ticks -> {None} \cup Points]
      /\ exact \subseteq Ticks
  BY DEF TypeInv, TableTypes
<1>3. /\ points' = [points EXCEPT ![j] = calculate_scoring(j)]
      /\ exact' = IF 1..(j - 1) \subseteq exact THEN exact \cup {j} ELSE exact \ {j}
  BY <1>1 DEF Calculate, _save_teampoints
<1>4. \A f, a, b : Submitters(f, a, b)' = Submitters(f, a, b)
  BY CalculateTypes, LikeSubmitters
<1>5. j \in Nat /\ j >= 1 /\ MaxTick \in Nat /\ j <= MaxTick
  BY ScoringAssumption DEF Ticks
<1>6. SUFFICES ASSUME algo[1] = "saarctf", NEW k \in exact', points'[k] # None PROVE WorthAt(k)'
  BY DEF WorthInv
<1>7. CASE k # j
  <2>1. k \in exact /\ k \in Ticks
    BY <1>2, <1>3, <1>7
  <2>2. points'[k] = points[k]
    BY <1>2, <1>3, <1>7, <2>1
  <2>3. WorthAt(k)
    BY <1>6, <2>1, <2>2 DEF WorthInv
  <2> QED
    BY <1>4, <2>2, <2>3, WorthKept
<1>8. CASE k = j
  <2>1. 1..(j - 1) \subseteq exact
    BY <1>3, <1>8
  <2>2. ASSUME NEW t \in Teams
        PROVE  /\ Before(j)[t].worth = SumOver(Values(t, j - 1), Attacked(t, j - 1))
               /\ Before(j)[t].stolen = Cardinality(Robbed(t, j - 1))
    <3>1. CASE j = 1
      <4>1. Before(j)[t].worth = 0 /\ Before(j)[t].stolen = 0
        BY <3>1 DEF Before, NoPoints
      <4>2. j - 1 = 0
        BY <3>1
      <4> QED
        BY <4>1, <4>2, WorthNone
    <3>2. CASE j # 1
      <4>1. j - 1 \in 1..(j - 1)
        BY <1>5, <3>2
      <4>2. j - 1 \in exact /\ points[j - 1] # None
        BY <1>1, <2>1, <3>2, <4>1
      <4>3. WorthAt(j - 1)
        BY <1>6, <4>2 DEF WorthInv
      <4>4. Before(j) = points[j - 1]
        BY <3>2 DEF Before
      <4> QED
        BY <4>3, <4>4 DEF WorthAt
    <3> QED
      BY <3>1, <3>2
  <2>3. ASSUME NEW t \in Teams
        PROVE  /\ points'[j][t].worth = SumOver(Values(t, j), Attacked(t, j))
               /\ points'[j][t].stolen = Cardinality(Robbed(t, j))
    <3>1. points'[j] = calculate_scoring(j)
      BY <1>2, <1>3
    <3>2. points'[j][t] = Scored(j, t)
      BY <3>1, ScoringIs
    <3>3. points'[j][t].worth = Before(j)[t].worth + SumOver(Corrections(t, j), Had(t, j)) + SumOver(Worths(t, j), Mine(t, j))
      BY <1>6, <3>2 DEF Scored
    <3>4. points'[j][t].stolen = Before(j)[t].stolen + StolenFirst(t, j)
      BY <3>2 DEF Scored
    <3>5. points'[j][t].worth = SumOver(Values(t, j), Attacked(t, j))
      BY <1>2, <1>6, <2>2, <3>3, WorthStep
    <3>6. points'[j][t].stolen = Cardinality(Robbed(t, j))
      BY <1>2, <2>2, <3>4, StolenStep
    <3> QED
      BY <3>5, <3>6
  <2>4. \A t : Attacked(t, j)' = Attacked(t, j) /\ Robbed(t, j)' = Robbed(t, j)
    BY <1>4 DEF Attacked, Robbed
  <2>5. \A t : Values(t, j)' = Values(t, j)
    BY <1>4, <2>4 DEF Values
  <2> QED
    BY <1>8, <2>3, <2>4, <2>5 DEF WorthAt
<1> QED
  BY <1>7, <1>8

(* Every step keeps it.                                                    *)
LEMMA NextWorth ==
  ASSUME TypeInv, WorthInv, [Next]_vars
  PROVE  WorthInv'
<1>1. /\ Table(rows) /\ points \in [Ticks -> {None} \cup Points] /\ tick \in Ticks
      /\ todo \in 0..MaxTick /\ exact \subseteq Ticks
  BY DEF TypeInv, TableTypes
<1>2. MaxTick \in Nat /\ MaxTick # 0
  BY ScoringAssumption
<1>3. todo # 0 => todo \in Ticks
  BY <1>1, <1>2 DEF Ticks
<1>4. ASSUME NEW f \in Flags, NEW team \in Teams, NEW t \in Ticks, Submit(f, team, t) PROVE WorthInv'
  <2>1. exact' = exact \ t..MaxTick /\ UNCHANGED <<points, algo>>
    BY <1>4 DEF Submit
  <2>2. PICK N \in Nat : /\ DOMAIN rows = 1..N /\ DOMAIN rows' = 1..(N + 1)
                         /\ \A i \in 1..N : rows'[i] = rows[i]
                         /\ rows'[N + 1] = [flag |-> f, by |-> team, tick |-> t, fb |-> 0]
    BY <1>1, <1>4, SubmitTable
  <2>3. SUFFICES ASSUME algo[1] = "saarctf", NEW n \in exact', points'[n] # None PROVE WorthAt(n)'
    BY <2>1 DEF WorthInv
  <2>4. n \in exact /\ n \in Nat /\ n < t
    BY <1>1, <1>2, <2>1 DEF Ticks
  <2>5. WorthAt(n)
    BY <2>1, <2>3, <2>4 DEF WorthInv
  <2>6. ASSUME NEW g PROVE Submitters(g, 1, n)' = Submitters(g, 1, n)
    <3>1. ASSUME NEW u PROVE u \in Submitters(g, 1, n)' <=> u \in Submitters(g, 1, n)
      <4>1. u \in Submitters(g, 1, n)' <=> \E i \in 1..(N + 1) : rows'[i].flag = g /\ rows'[i].by = u /\ rows'[i].tick \in 1..n
        BY <2>2 DEF Submitters, ToSet
      <4>2. u \in Submitters(g, 1, n) <=> \E i \in 1..N : rows[i].flag = g /\ rows[i].by = u /\ rows[i].tick \in 1..n
        BY <2>2, SubmittersAre
      <4>3. rows'[N + 1].tick \notin 1..n
        BY <2>2, <2>4 DEF Ticks
      <4>4. \A i \in 1..(N + 1) : i = N + 1 \/ i \in 1..N
        OBVIOUS
      <4>5. \A i \in 1..N : i \in 1..(N + 1)
        OBVIOUS
      <4> QED
        BY <2>2, <4>1, <4>2, <4>3, <4>4, <4>5
    <3> QED
      BY <3>1
  <2> QED
    BY <2>1, <2>5, <2>6, WorthKept
<1>5. ASSUME ScoreTick \/ PointsForRanking PROVE WorthInv'
  <2>1. Calculate("master", todo) /\ todo \in Ticks /\ algo' = algo
    BY <1>3, <1>5 DEF ScoreTick, PointsForRanking
  <2> QED
    BY <2>1, WorthCalculated
<1>6. ASSUME RecreateScore PROVE WorthInv'
  <2>1. Calculate("script", script.rn) /\ algo' = algo /\ script.pc = "score"
    BY <1>6 DEF RecreateScore
  <2>2. script.rn \in Ticks
    BY <1>2, <2>1 DEF TypeInv, ScriptType, Ticks
  <2> QED
    BY <2>1, <2>2, WorthCalculated
<1>7. ASSUME Like(rows', rows), UNCHANGED <<algo, exact>>, \A n \in Ticks : points'[n] \in {None, points[n]}
      PROVE  WorthInv'
  <2> SUFFICES ASSUME algo[1] = "saarctf", NEW n \in exact, points'[n] # None PROVE WorthAt(n)'
    BY <1>7 DEF WorthInv
  <2>1. points'[n] = points[n]
    BY <1>1, <1>7
  <2>2. WorthAt(n)
    BY <2>1 DEF WorthInv
  <2>3. \A f : Submitters(f, 1, n)' = Submitters(f, 1, n)
    BY <1>7, LikeSubmitters
  <2> QED
    BY <2>1, <2>2, <2>3, WorthKept
<1>8. rows' = rows => Like(rows', rows)
  BY DEF Like
<1>9. ASSUME \/ \E result \in Outcomes : EndTick(result)
             \/ ScoreTickFails \/ RankTick \/ (\E n \in Ticks : RecreateStart(n)) \/ RecreateRank \/ UNCHANGED vars
      PROVE  WorthInv'
  <2>1. UNCHANGED <<rows, points, algo, exact>>
    BY <1>9 DEF EndTick, ScoreTickFails, RankTick, RecreateStart, RecreateRank, vars, tables
  <2> QED
    BY <1>7, <1>8, <2>1
<1>10. ASSUME RecreateDelete PROVE WorthInv'
  <2>1. points' = [points EXCEPT ![script.rn] = None] /\ UNCHANGED <<rows, algo, exact>>
    BY <1>10 DEF RecreateDelete
  <2>2. \A n \in Ticks : points'[n] \in {None, points[n]}
    BY <1>1, <2>1
  <2> QED
    BY <1>7, <1>8, <2>1, <2>2
<1>11. ASSUME recompute_first_blood_flags PROVE WorthInv'
  <2>1. Like(rows', rows)
    BY <1>1, <1>11, RecomputeTable
  <2>2. UNCHANGED <<points, algo, exact>>
    BY <1>11 DEF recompute_first_blood_flags
  <2> QED
    BY <1>7, <2>1, <2>2
<1>12. ASSUME NEW n \in Ticks, reset_database(n) PROVE WorthInv'
  <2>1. /\ points' = [k \in Ticks |-> IF k > n THEN None ELSE points[k]]
        /\ exact' = exact \ (n + 1)..MaxTick /\ algo' = algo
    BY <1>12 DEF reset_database
  <2> SUFFICES ASSUME algo[1] = "saarctf", NEW k \in exact', points'[k] # None PROVE WorthAt(k)'
    BY <2>1 DEF WorthInv
  <2>2. k \in exact /\ k \in Ticks /\ k <= n
    BY <1>1, <1>2, <2>1 DEF Ticks
  <2>3. points'[k] = points[k]
    BY <2>1, <2>2 DEF Ticks
  <2>4. WorthAt(k)
    BY <2>2, <2>3 DEF WorthInv
  <2>5. \A f : Submitters(f, 1, k)' = Submitters(f, 1, k)
    BY <1>1, <1>12, <2>2, ResetTable
  <2> QED
    BY <2>3, <2>4, <2>5, WorthKept
<1> QED
  BY <1>4, <1>5, <1>6, <1>9, <1>10, <1>11, <1>12 DEF Next

(* Everyone who submitted a flag has in the end the value it has with all  *)
(* its submissions, and a victim has lost it once: what a tick adds and    *)
(* takes away is the difference of the sums over all flags, in whatever    *)
(* order ticks are scored, computed again or reset (ScoreTickAlgorithmBase, *)
(* saarctf algorithm).                                                     *)
THEOREM FlagWorthCorrect == Spec => []FlagWorth
<1>1. Init => TypeInv /\ WorthInv
  <2> SUFFICES ASSUME Init PROVE TypeInv /\ WorthInv
    OBVIOUS
  <2>1. exact = {}
    BY DEF Init
  <2> QED
    BY <2>1, InitTypes DEF WorthInv
<1>2. TypeInv /\ WorthInv /\ [Next]_vars => TypeInv' /\ WorthInv'
  BY NextTypes, NextWorth
<1>3. TypeInv /\ WorthInv => FlagWorth
  <2> SUFFICES ASSUME TypeInv, WorthInv PROVE FlagWorth
    OBVIOUS
  <2>1. TypeOK
    <3>1. rows \in Seq(Row)
      BY DEF TypeInv, TableTypes, Table
    <3>2. script.pc \in {"off", "delete", "score", "rank", "done"} /\ script.rn \in 0..(MaxTick + 1)
      BY DEF TypeInv, ScriptType
    <3>3. ASSUME NEW n \in Ticks
          PROVE  /\ status[n] = None \/ status[n] \in [Teams -> Statuses]
                 /\ points[n] = None \/ points[n] \in [Teams -> TeamPoints]
                 /\ rank[n] = None \/ rank[n] \in [Teams -> 1..Cardinality(Teams)]
      <4>1. status[n] \in {None} \cup Results /\ points[n] \in {None} \cup Points /\ rank[n] \in {None} \cup Ranks
        BY DEF TypeInv, TableTypes
      <4> QED
        BY <4>1 DEF Results, Points, Ranks
    <3> QED
      BY <3>1, <3>2, <3>3 DEF TypeInv, TypeOK
  <2>2. ASSUME algo[1] = "saarctf", NEW n \in exact, points[n] # None, NEW t \in Teams
        PROVE  /\ points[n][t].worth = MapThenSumSet(LAMBDA f : Worth[Cardinality(Submitters(f, 1, n))], Attacked(t, n))
               /\ points[n][t].stolen = Cardinality({f \in Flags : f.team = t /\ Submitters(f, 1, n) # {}})
    <3>1. points[n][t].worth = SumOver(Values(t, n), Attacked(t, n)) /\ points[n][t].stolen = Cardinality(Robbed(t, n))
      BY <2>2 DEF WorthInv, WorthAt
    <3> QED
      BY <3>1, ValuesSum DEF Robbed
  <2> QED
    BY <2>1, <2>2 DEF FlagWorth
<1> QED
  BY <1>1, <1>2, <1>3, PTL DEF Spec

-----------------------------------------------------------------------------
(* The levels that the rows of a table should have.                        *)

(* The teams that t has robbed of the payload k in the first d rows.       *)
VictimsOf(db, k, t, d) == {db[j].flag.team : j \in {j \in DOMAIN db : j <= d /\ Key(db[j]) = k /\ db[j].by = t}}

(* The highest level there is.                                             *)
Most == IF algo[2] = "multi" THEN Limit ELSE 1

(* Both ways to name the victims before a row and with it.                 *)
LEMMA VictimsAre ==
  ASSUME NEW db, Table(db), NEW i \in DOMAIN db
  PROVE  /\ \A t : Victims(db, i, t) = VictimsOf(db, Key(db[i]), t, i)
         /\ DbVictims(db, i) = VictimsOf(db, Key(db[i]), db[i].by, i - 1)
         /\ VictimsOf(db, Key(db[i]), db[i].by, i) = DbVictims(db, i) \cup {db[i].flag.team}
<1>1. PICK N \in Nat : DOMAIN db = 1..N
  BY RowOf
<1>2. \A j \in DOMAIN db : j \in Int
  BY <1>1
<1>3. \A t : Victims(db, i, t) = VictimsOf(db, Key(db[i]), t, i)
  BY DEF Victims, VictimsOf, SameKey
<1>4. \A j \in DOMAIN db : j < i <=> j <= i - 1
  BY <1>2
<1>5. DbVictims(db, i) = VictimsOf(db, Key(db[i]), db[i].by, i - 1)
  BY <1>4 DEF DbVictims, VictimsOf, SameKey
<1>6. \A j \in DOMAIN db : j <= i <=> j < i \/ j = i
  BY <1>2
<1>7. VictimsOf(db, Key(db[i]), db[i].by, i) = DbVictims(db, i) \cup {db[i].flag.team}
  BY <1>6 DEF DbVictims, VictimsOf, SameKey
<1> QED
  BY <1>3, <1>5, <1>7

(* Victims are teams, and more rows have more of them.                     *)
LEMMA VictimsGrow ==
  ASSUME NEW db, Table(db), NEW k, NEW t, NEW d \in Int
  PROVE  /\ VictimsOf(db, k, t, d) \in SUBSET Teams
         /\ \A e \in Int : e <= d => VictimsOf(db, k, t, e) \subseteq VictimsOf(db, k, t, d)
         /\ VictimsOf(db, k, t, 0) = {}
<1>1. PICK N \in Nat : DOMAIN db = 1..N
  BY RowOf
<1>2. \A j \in DOMAIN db : j \in Int /\ j >= 1 /\ db[j].flag.team \in Teams
  BY <1>1, RowOf
<1>3. VictimsOf(db, k, t, d) \in SUBSET Teams
  BY <1>2 DEF VictimsOf
<1>4. ASSUME NEW e \in Int, e <= d PROVE VictimsOf(db, k, t, e) \subseteq VictimsOf(db, k, t, d)
  <2>1. \A j \in DOMAIN db : j <= e => j <= d
    BY <1>2, <1>4
  <2> QED
    BY <2>1 DEF VictimsOf
<1>5. \A j \in DOMAIN db : ~(j <= 0)
  BY <1>2
<1> QED
  BY <1>3, <1>4, <1>5 DEF VictimsOf

(* What a row has reached and its level.                                   *)
LEMMA LevelIs ==
  ASSUME NEW db, Table(db), NEW i \in DOMAIN db, algo \in Algorithms
  PROVE  /\ Most \in Nat /\ Most >= 1 /\ Reached(db, i) \in 1..Cardinality(Teams)
         /\ Level(db, i) \in {0, Reached(db, i)} /\ Level(db, i) <= Most /\ Level(db, i) \in 0..Cardinality(Teams)
         /\ Level(db, i) # 0 <=> /\ Reached(db, i) <= Most
                                 /\ \A j \in SameKey(db, i) : j < i => Reached(db, j) < Reached(db, i)
<1>1. Most \in Nat /\ Most >= 1
  BY ScoringAssumption DEF Most
<1>2. ASSUME NEW j \in DOMAIN db PROVE Reached(db, j) \in 1..Cardinality(Teams)
  <2>1. PICK V : V = VictimsOf(db, Key(db[j]), db[j].by, j)
    OBVIOUS
  <2>2. j \in Int
    BY RowOf
  <2>3. V \in SUBSET Teams /\ Reached(db, j) = Cardinality(V) /\ db[j].flag.team \in V
    BY <2>1, <2>2, VictimsGrow, VictimsAre DEF Reached
  <2>4. IsFiniteSet(V) /\ Cardinality(V) \in 0..Cardinality(Teams)
    BY <2>3, TeamSets
  <2>5. Cardinality(V) # 0
    BY <2>3, <2>4, FS_EmptySet
  <2> QED
    BY <2>3, <2>4, <2>5
<1>3. PICK r \in 1..Cardinality(Teams) : r = Reached(db, i)
  BY <1>2
<1>4. PICK B : B = {0} \cup {Reached(db, j) : j \in {j \in SameKey(db, i) : j < i}}
  OBVIOUS
<1>5. Level(db, i) = IF r <= Most /\ \A m \in B : m < r THEN r ELSE 0
  BY <1>3, <1>4 DEF Level, Most
<1>6. (\A m \in B : m < r) <=> \A j \in SameKey(db, i) : j < i => Reached(db, j) < r
  <2>1. 0 < r
    OBVIOUS
  <2> QED
    BY <1>4, <2>1
<1>7. Cardinality(Teams) \in Nat
  BY TeamSets
<1> QED
  BY <1>1, <1>3, <1>5, <1>6, <1>7

(* The last of the rows that count for some victims reaches as many.       *)
LEMMA LastVictim ==
  ASSUME NEW db, Table(db), NEW k, NEW t, NEW d \in Int, VictimsOf(db, k, t, d) # {}
  PROVE  \E p \in DOMAIN db : /\ p <= d /\ Key(db[p]) = k /\ db[p].by = t
                              /\ Reached(db, p) = Cardinality(VictimsOf(db, k, t, d))
<1>1. PICK N \in Nat : DOMAIN db = 1..N
  BY RowOf
<1>2. PICK S : S = {j \in DOMAIN db : j <= d /\ Key(db[j]) = k /\ db[j].by = t}
  OBVIOUS
<1>3. S \in SUBSET (1..N) /\ S # {} /\ S \subseteq Int
  BY <1>1, <1>2 DEF VictimsOf
<1>4. IsFiniteSet(S)
  <2>1. IsFiniteSet(1..N)
    BY FS_Interval
  <2> QED
    BY <1>3, <2>1, FS_Subset
<1>5. PICK p : p = Max(S)
  OBVIOUS
<1>6. p \in S /\ \A j \in S : p >= j
  BY <1>3, <1>4, <1>5, MaxOf
<1>7. p \in DOMAIN db /\ p <= d /\ Key(db[p]) = k /\ db[p].by = t /\ p \in Int
  BY <1>2, <1>3, <1>6
<1>8. VictimsOf(db, k, t, d) = VictimsOf(db, k, t, p)
  <2>1. ASSUME NEW j \in DOMAIN db, Key(db[j]) = k, db[j].by = t PROVE j <= d <=> j <= p
    <3>1. j <= d => j \in S
      BY <1>2, <2>1
    <3>2. j \in Int
      BY <1>1
    <3> QED
      BY <1>6, <1>7, <3>1, <3>2
  <2> QED
    BY <2>1 DEF VictimsOf
<1>9. Victims(db, p, t) = VictimsOf(db, k, t, p)
  BY <1>7, VictimsAre
<1> QED
  BY <1>7, <1>8, <1>9 DEF Reached

(* A level that was reached was reached first by a row of this level.      *)
LEMMA Climb ==
  ASSUME NEW db, Table(db), algo \in Algorithms, NEW j \in DOMAIN db, NEW r \in Int, 1 <= r, r <= Most, Reached(db, j) >= r
  PROVE  \E m \in DOMAIN db : m <= j /\ Key(db[m]) = Key(db[j]) /\ Level(db, m) = r
<1>1. PICK N \in Nat : DOMAIN db = 1..N
  BY RowOf
<1>2. PICK k : k = Key(db[j])
  OBVIOUS
<1> DEFINE T == {m \in DOMAIN db : Key(db[m]) = k /\ Reached(db, m) >= r}
<1>3. T \in SUBSET Nat /\ j \in T
  BY <1>1, <1>2
<1>4. PICK m \in T : \A q \in T : m <= q
  BY <1>3, LeastNat
<1>5. m \in DOMAIN db /\ Key(db[m]) = k /\ Reached(db, m) >= r /\ m <= j /\ m \in Int
  BY <1>1, <1>3, <1>4
<1>6. ASSUME NEW q \in DOMAIN db, Key(db[q]) = k, q < m PROVE Reached(db, q) < r
  <2>1. q \notin T
    BY <1>1, <1>4, <1>6
  <2>2. Reached(db, q) \in Int
    BY LevelIs
  <2> QED
    BY <1>6, <2>1, <2>2
<1>7. Reached(db, m) <= r
  <2>1. PICK V, W : V = DbVictims(db, m) /\ W = V \cup {db[m].flag.team}
    OBVIOUS
  <2>2. Reached(db, m) = Cardinality(W)
    BY ZenonT(60), <1>5, <2>1, VictimsAre DEF Reached
  <2>3. V = VictimsOf(db, k, db[m].by, m - 1) /\ V \in SUBSET Teams
    BY <1>5, <2>1, VictimsAre, VictimsGrow
  <2>4. IsFiniteSet(V) /\ Cardinality(V) \in Nat
    BY <2>3, TeamSets
  <2>5. Cardinality(W) = Cardinality(V) \/ Cardinality(W) = Cardinality(V) + 1
    BY <2>1, <2>4, FS_AddElement
  <2>6. CASE V = {}
    BY <2>2, <2>5, <2>6, FS_EmptySet
  <2>7. CASE V # {}
    <3>1. PICK p \in DOMAIN db : p <= m - 1 /\ Key(db[p]) = k /\ Reached(db, p) = Cardinality(V)
      BY <1>5, <2>3, <2>7, LastVictim
    <3>2. p < m
      BY <1>1, <1>5, <3>1
    <3>3. Cardinality(V) < r
      BY <1>6, <3>1, <3>2
    <3> QED
      BY <2>2, <2>4, <2>5, <3>3
  <2> QED
    BY <2>6, <2>7
<1>8. Reached(db, m) = r
  <2>1. Reached(db, m) \in Int
    BY <1>5, LevelIs
  <2> QED
    BY <1>5, <1>7, <2>1
<1>9. \A q \in SameKey(db, m) : q < m => Reached(db, q) < Reached(db, m)
  BY <1>5, <1>6, <1>8 DEF SameKey
<1>10. Level(db, m) = r
  BY <1>5, <1>8, <1>9, LevelIs
<1> QED
  BY <1>2, <1>5, <1>10

(* A row has no level when its team had robbed the victim before, or when  *)
(* someone had reached as much before.                                     *)
LEMMA NoLevel ==
  ASSUME NEW db, Table(db), algo \in Algorithms, NEW i \in DOMAIN db
  PROVE  /\ \A j \in SameKey(db, i) : j < i /\ (Reached(db, j) >= Reached(db, i) \/ Reached(db, j) >= Most) => Level(db, i) = 0
         /\ db[i].flag.team \in DbVictims(db, i) => Level(db, i) = 0
<1>1. ASSUME NEW j \in SameKey(db, i), j < i, Reached(db, j) >= Reached(db, i) \/ Reached(db, j) >= Most
      PROVE  Level(db, i) = 0
  <2>1. Reached(db, i) \in Int /\ Reached(db, j) \in Int /\ Most \in Int
    BY LevelIs DEF SameKey
  <2>2. Level(db, i) # 0 => Reached(db, i) <= Most /\ Reached(db, j) < Reached(db, i)
    BY <1>1, LevelIs
  <2> QED
    BY <1>1, <2>1, <2>2
<1>2. ASSUME db[i].flag.team \in DbVictims(db, i) PROVE Level(db, i) = 0
  <2>1. PICK k, t : k = Key(db[i]) /\ t = db[i].by
    OBVIOUS
  <2>2. VictimsOf(db, k, t, i) = VictimsOf(db, k, t, i - 1)
    <3>1. PICK V : V = DbVictims(db, i)
      OBVIOUS
    <3>2. V = V \cup {db[i].flag.team}
      BY <1>2, <3>1
    <3>3. VictimsOf(db, k, t, i) = V \cup {db[i].flag.team} /\ VictimsOf(db, k, t, i - 1) = V
      BY <2>1, <3>1, VictimsAre
    <3> QED
      BY <3>2, <3>3
  <2>3. Reached(db, i) = Cardinality(VictimsOf(db, k, t, i - 1)) /\ VictimsOf(db, k, t, i - 1) # {}
    BY <1>2, <2>1, <2>2, VictimsAre DEF Reached
  <2>4. i \in Int
    BY RowOf
  <2>5. PICK p \in DOMAIN db : p <= i - 1 /\ Key(db[p]) = k /\ Reached(db, p) = Reached(db, i)
    <3>1. i - 1 \in Int
      BY <2>4
    <3>2. PICK p \in DOMAIN db : p <= i - 1 /\ Key(db[p]) = k /\ Reached(db, p) = Cardinality(VictimsOf(db, k, t, i - 1))
      BY <2>3, <3>1, LastVictim
    <3> QED
      BY <2>3, <3>2
  <2>6. p < i /\ p \in SameKey(db, i)
    <3>1. p \in Int
      BY RowOf
    <3> QED
      BY <2>1, <2>4, <2>5, <3>1 DEF SameKey
  <2>7. Reached(db, p) >= Reached(db, i)
    <3>1. Reached(db, p) \in Int
      BY LevelIs
    <3> QED
      BY <2>5, <3>1
  <2> QED
    BY <1>1, <2>6, <2>7
<1> QED
  BY <1>1, <1>2

-----------------------------------------------------------------------------
(* The search for first bloods gives every row its level.                  *)

(* The cache knows the first d rows, of some keys and teams fewer.         *)
CacheFits(db, c, d) ==
  /\ \A k \in Keys : c.max[k] = 0 \/ \E j \in DOMAIN db : j <= d /\ Key(db[j]) = k /\ Level(db, j) >= c.max[k]
  /\ \A k \in Keys, t \in Teams : \E e \in 0..d : c.victims[<<k, t>>] = VictimsOf(db, k, t, e)

(* A row that is not marked with its level is not marked.                  *)
Honest(db) == \A i \in DOMAIN db : db[i].fb \in {0, Level(db, i)}

(* The level of a row is in the table or was found.                        *)
Marked(db, F, i) == db[i].fb = Level(db, i) \/ <<i, Level(db, i)>> \in F

(* What a search has established: what it found is true and in its cache,  *)
(* and the rows the cache knows have their levels.                         *)
Searched(db, c, F, d) ==
  /\ d \in 0..Len(db) /\ CacheFits(db, c, d) /\ F \in Found(db)
  /\ \A x \in F : x[2] = Level(db, x[1]) /\ c.max[Key(db[x[1]])] >= x[2]
  /\ \A i \in DOMAIN db : i <= d => Marked(db, F, i)

(* A cache and a search that are brought up to row i.                      *)
LEMMA Advance ==
  ASSUME NEW db, Table(db), algo \in Algorithms, NEW c \in Cache, NEW F, NEW d, Searched(db, c, F, d),
         NEW i \in DOMAIN db, \A j \in DOMAIN db : j < i => Marked(db, F, j),
         NEW b \in Cache, NEW H, F \subseteq H, H \subseteq F \cup {<<i, Level(db, i)>>}, Marked(db, H, i),
         \A q \in Keys : b.max[q] >= c.max[q],
         \A q \in Keys : \/ b.max[q] = c.max[q]
                         \/ \E j \in DOMAIN db : (j <= d \/ j <= i) /\ Key(db[j]) = q /\ Level(db, j) >= b.max[q],
         \A q \in Keys, t \in Teams : \/ b.victims[<<q, t>>] = c.victims[<<q, t>>]
                                      \/ b.victims[<<q, t>>] = VictimsOf(db, q, t, i),
         H # F => b.max[Key(db[i])] >= Level(db, i)
  PROVE  \E e : Searched(db, b, H, e) /\ i <= e
<1>1. PICK N \in Nat : DOMAIN db = 1..N /\ N = Len(db)
  BY RowOf
<1>2. d \in 0..N /\ i \in 1..N
  BY <1>1 DEF Searched
<1>3. PICK e \in 0..N : (e = d \/ e = i) /\ d <= e /\ i <= e
  BY <1>2
<1>4. CacheFits(db, b, e)
  <2>1. ASSUME NEW q \in Keys
        PROVE  b.max[q] = 0 \/ \E j \in DOMAIN db : j <= e /\ Key(db[j]) = q /\ Level(db, j) >= b.max[q]
    <3>1. CASE b.max[q] = c.max[q]
      <4>1. c.max[q] = 0 \/ \E j \in DOMAIN db : j <= d /\ Key(db[j]) = q /\ Level(db, j) >= c.max[q]
        BY DEF Searched, CacheFits
      <4>2. \A j \in DOMAIN db : j <= d => j <= e
        BY <1>1, <1>2, <1>3
      <4> QED
        BY <3>1, <4>1, <4>2
    <3>2. CASE b.max[q] # c.max[q]
      <4>1. PICK j \in DOMAIN db : (j <= d \/ j <= i) /\ Key(db[j]) = q /\ Level(db, j) >= b.max[q]
        BY <3>2
      <4>2. j <= e
        BY <1>1, <1>2, <1>3, <4>1
      <4> QED
        BY <4>1, <4>2
    <3> QED
      BY <3>1, <3>2
  <2>2. ASSUME NEW q \in Keys, NEW t \in Teams
        PROVE  \E g \in 0..e : b.victims[<<q, t>>] = VictimsOf(db, q, t, g)
    <3>1. \E g \in 0..d : c.victims[<<q, t>>] = VictimsOf(db, q, t, g)
      BY DEF Searched, CacheFits
    <3>2. i \in 0..e /\ \A g \in 0..d : g \in 0..e
      BY <1>2, <1>3
    <3> QED
      BY <3>1, <3>2
  <2> QED
    BY <2>1, <2>2 DEF CacheFits
<1>5. H \in Found(db)
  <2>1. Level(db, i) \in 0..Cardinality(Teams)
    BY LevelIs
  <2> QED
    BY <2>1 DEF Searched, Found
<1>6. ASSUME NEW x \in H PROVE x[2] = Level(db, x[1]) /\ b.max[Key(db[x[1]])] >= x[2]
  <2>1. CASE x \in F
    <3>1. x[2] = Level(db, x[1]) /\ c.max[Key(db[x[1]])] >= x[2]
      BY <2>1 DEF Searched
    <3>2. x[1] \in DOMAIN db /\ x[2] \in 0..Cardinality(Teams)
      BY <1>5 DEF Found
    <3>3. PICK q \in Keys : q = Key(db[x[1]])
      BY <3>2, KeyOf
    <3>4. c.max[q] \in Nat /\ b.max[q] \in Nat /\ b.max[q] >= c.max[q]
      BY DEF Cache
    <3>5. Cardinality(Teams) \in Nat
      BY TeamSets
    <3> QED
      BY <3>1, <3>2, <3>3, <3>4, <3>5
  <2>2. CASE x \notin F
    <3>1. x = <<i, Level(db, i)>> /\ H # F
      BY <1>6, <2>2
    <3>2. x[1] = i /\ x[2] = Level(db, i)
      BY <3>1
    <3> QED
      BY <3>1, <3>2
  <2> QED
    BY <2>1, <2>2
<1>7. ASSUME NEW j \in DOMAIN db, j <= e PROVE Marked(db, H, j)
  <2>1. j <= d => Marked(db, F, j)
    BY DEF Searched
  <2>2. j = i \/ j < i \/ j <= d
    BY <1>1, <1>2, <1>3, <1>7
  <2>3. Marked(db, F, j) => Marked(db, H, j)
    BY DEF Marked
  <2> QED
    BY <2>1, <2>2, <2>3
<1> QED
  BY <1>1, <1>3, <1>4, <1>5, <1>6, <1>7 DEF Searched

(* The parts of an accumulator after its cache was changed.                *)
WithMax(acc, k, n) == [acc EXCEPT !.cache.max[k] = n]
WithBoth(acc, k, n, x, S) == [acc EXCEPT !.cache.max[k] = n, !.cache.victims[x] = S]
HasParts(acc, m, v, fo, se) == acc.cache.max = m /\ acc.cache.victims = v /\ acc.found = fo /\ acc.seen = se

(* They are what they were but for the level of a payload.                 *)
LEMMA AccEditMax ==
  ASSUME NEW db, NEW acc \in Acc(db), NEW k \in Keys, NEW n \in Nat
  PROVE  HasParts(WithMax(acc, k, n), [acc.cache.max EXCEPT ![k] = n], acc.cache.victims, acc.found, acc.seen)
<1>1. /\ acc.cache \in Cache /\ acc.found \in Found(db) /\ acc.seen \in SUBSET (Teams \X Ticks \X Nat)
      /\ acc = [cache |-> acc.cache, found |-> acc.found, seen |-> acc.seen]
  BY DEF Acc
<1>2. PICK c \in Cache, fo \in Found(db), se \in SUBSET (Teams \X Ticks \X Nat) :
        acc = [cache |-> c, found |-> fo, seen |-> se]
  BY <1>1
<1>3. /\ c.max \in [Keys -> Nat] /\ c.victims \in [Keys \X Teams -> SUBSET Teams]
      /\ c = [max |-> c.max, victims |-> c.victims]
  BY DEF Cache
<1>4. PICK m \in [Keys -> Nat], v \in [Keys \X Teams -> SUBSET Teams] : c = [max |-> m, victims |-> v]
  BY <1>3
<1>5. WithMax(acc, k, n) = [cache |-> [max |-> [m EXCEPT ![k] = n], victims |-> v], found |-> fo, seen |-> se]
  BY <1>2, <1>4 DEF WithMax
<1> QED
  BY <1>2, <1>4, <1>5 DEF HasParts

(* The same when the victims of a team were changed, too.                  *)
LEMMA AccEditBoth ==
  ASSUME NEW db, NEW acc \in Acc(db), NEW k \in Keys, NEW x \in Keys \X Teams, NEW n \in Nat, NEW S \in SUBSET Teams
  PROVE  HasParts(WithBoth(acc, k, n, x, S), [acc.cache.max EXCEPT ![k] = n], [acc.cache.victims EXCEPT ![x] = S],
                  acc.found, acc.seen)
<1>1. PICK one : one = WithMax(acc, k, n)
  OBVIOUS
<1>2. WithBoth(acc, k, n, x, S) = [one EXCEPT !.cache.victims[x] = S]
  BY <1>1 DEF WithMax, WithBoth
<1>3. /\ one.cache.max = [acc.cache.max EXCEPT ![k] = n] /\ one.cache.victims = acc.cache.victims
      /\ one.found = acc.found /\ one.seen = acc.seen
  BY <1>1, AccEditMax DEF HasParts
<1>4. one \in Acc(db)
  BY <1>1, AccParts DEF WithMax
<1>5. PICK c \in Cache, fo \in Found(db), se \in SUBSET (Teams \X Ticks \X Nat) :
        one = [cache |-> c, found |-> fo, seen |-> se]
  BY <1>4 DEF Acc
<1>6. PICK m \in [Keys -> Nat], v \in [Keys \X Teams -> SUBSET Teams] : c = [max |-> m, victims |-> v]
  BY DEF Cache
<1>7. one.cache.max = m /\ one.cache.victims = v /\ one.found = fo /\ one.seen = se
  BY <1>5, <1>6
<1>8. PICK w : w = [v EXCEPT ![x] = S]
  OBVIOUS
<1>9. [one EXCEPT !.cache.victims[x] = S] = [cache |-> [max |-> m, victims |-> w], found |-> fo, seen |-> se]
  BY <1>5, <1>6, <1>8
<1>10. HasParts([cache |-> [max |-> m, victims |-> w], found |-> fo, seen |-> se], m, w, fo, se)
  BY DEF HasParts
<1> QED
  BY <1>2, <1>3, <1>7, <1>8, <1>9, <1>10

(* The level that a step takes for the highest so far is the highest of    *)
(* the rows before.                                                        *)
Highest(db, c, i) == Max({c.max[Key(db[i])], DbLevel(db, i)})
LEMMA LevelBefore ==
  ASSUME NEW db, Table(db), algo \in Algorithms, Honest(db), NEW c \in Cache, NEW F, NEW d, Searched(db, c, F, d),
         NEW i \in DOMAIN db, \A j \in DOMAIN db : j < i => Marked(db, F, j), NEW k \in Keys, k = Key(db[i])
  PROVE  /\ Highest(db, c, i) \in Nat /\ Highest(db, c, i) >= c.max[k]
         /\ \A j \in SameKey(db, i) : j < i => Highest(db, c, i) >= Level(db, j)
         /\ \/ Highest(db, c, i) = c.max[k]
            \/ \E j \in DOMAIN db : j < i /\ Key(db[j]) = k /\ Level(db, j) >= Highest(db, c, i)
<1>0. PICK L : L = Highest(db, c, i) /\ L = Max({c.max[k], DbLevel(db, i)})
  BY DEF Highest
<1>1. PICK S : S = {0} \cup {db[j].fb : j \in {j \in SameKey(db, i) : j < i}}
  OBVIOUS
<1>2. S \subseteq 0..Cardinality(Teams) /\ S # {} /\ 0 \in S
  <2>1. \A j \in SameKey(db, i) : db[j].fb \in 0..Cardinality(Teams)
    BY RowOf DEF SameKey
  <2> QED
    BY <1>1, <2>1, TeamSets
<1>3. IsFiniteSet(S) /\ S \subseteq Int
  <2>1. IsFiniteSet(0..Cardinality(Teams))
    BY TeamSets, FS_Interval
  <2>2. IsFiniteSet(S)
    BY <1>2, <2>1, FS_Subset
  <2> QED
    BY <1>2, <2>2
<1>4. PICK b : b = DbLevel(db, i) /\ b \in S /\ \A y \in S : b >= y
  BY <1>1, <1>2, <1>3, MaxOf DEF DbLevel
<1>5. b \in Nat
  BY <1>2, <1>4
<1>6. PICK a \in Nat : a = c.max[k]
  BY DEF Cache
<1>7. L \in {a, b} /\ L >= a /\ L >= b
  <2>1. IsFiniteSet({a, b})
    <3>1. IsFiniteSet({a}) /\ {a, b} = {a} \cup {b}
      BY FS_Singleton
    <3> QED
      BY <3>1, FS_AddElement
  <2>2. {a, b} \subseteq Int /\ {a, b} # {}
    BY <1>5
  <2> QED
    BY <1>0, <1>4, <1>6, <2>1, <2>2, MaxOf
<1>8. L \in Nat
  BY <1>5, <1>7
<1>9. ASSUME NEW j \in SameKey(db, i), j < i PROVE L >= Level(db, j)
  <2>1. j \in DOMAIN db /\ Key(db[j]) = k
    BY DEF SameKey
  <2>2. Level(db, j) \in Nat
    BY <2>1, LevelIs, TeamSets
  <2>3. CASE db[j].fb = Level(db, j)
    <3>1. Level(db, j) \in S
      BY <1>1, <1>9, <2>3
    <3>2. b >= Level(db, j)
      BY <1>4, <3>1
    <3> QED
      BY <1>5, <1>7, <1>8, <2>2, <3>2
  <2>4. CASE <<j, Level(db, j)>> \in F
    <3>1. PICK x \in F : x = <<j, Level(db, j)>>
      BY <2>4
    <3>2. c.max[Key(db[x[1]])] >= x[2]
      BY DEF Searched
    <3>3. a >= Level(db, j)
      BY <1>6, <2>1, <3>1, <3>2
    <3> QED
      BY <1>7, <1>8, <2>2, <3>3
  <2> QED
    BY <1>9, <2>1, <2>3, <2>4 DEF Marked
<1>10. ASSUME L # a PROVE \E j \in DOMAIN db : j < i /\ Key(db[j]) = k /\ Level(db, j) >= L
  <2>1. L = b /\ b # 0
    BY <1>5, <1>7, <1>8, <1>10
  <2>2. PICK j \in SameKey(db, i) : j < i /\ db[j].fb = b
    BY <1>1, <1>4, <2>1
  <2>3. j \in DOMAIN db /\ Key(db[j]) = k
    BY DEF SameKey
  <2>4. Level(db, j) = b
    BY <2>1, <2>2, <2>3 DEF Honest
  <2> QED
    BY <1>5, <2>1, <2>2, <2>3, <2>4
<1> QED
  BY <1>0, <1>6, <1>7, <1>8, <1>9, <1>10

(* A row that comes after all the cache knows has no level if the cache    *)
(* knows that it was reached before.                                       *)
LEMMA LevelOver ==
  ASSUME NEW db, Table(db), algo \in Algorithms, Honest(db), NEW F, NEW i \in DOMAIN db,
         NEW j \in DOMAIN db, j < i, Key(db[j]) = Key(db[i]), NEW n \in Nat, n # 0, Level(db, j) >= n,
         n >= Most \/ n >= Reached(db, i)
  PROVE  Marked(db, F, i)
<1>1. Level(db, j) \in {0, Reached(db, j)} /\ Reached(db, j) \in Nat /\ Reached(db, i) \in Nat /\ Most \in Nat
  <2>1. Cardinality(Teams) \in Nat
    BY TeamSets
  <2> QED
    BY <2>1, LevelIs
<1>2. Reached(db, j) >= n
  BY <1>1
<1>3. j \in SameKey(db, i)
  BY DEF SameKey
<1>4. Reached(db, j) >= Reached(db, i) \/ Reached(db, j) >= Most
  BY <1>1, <1>2
<1>5. Level(db, i) = 0
  BY <1>3, <1>4, NoLevel
<1>6. db[i].fb = 0
  BY <1>5 DEF Honest
<1> QED
  BY <1>5, <1>6 DEF Marked

(* A row of a level that is above those before has this level.             *)
LEMMA LevelNew ==
  ASSUME NEW db, Table(db), algo \in Algorithms, NEW i \in DOMAIN db, NEW L \in Nat,
         \A j \in SameKey(db, i) : j < i => L >= Level(db, j), L < Most, Reached(db, i) > L
  PROVE  Level(db, i) = Reached(db, i)
<1>1. PICK N \in Nat : DOMAIN db = 1..N
  BY RowOf
<1>2. ASSUME NEW j \in DOMAIN db PROVE Reached(db, j) \in Nat /\ Reached(db, j) >= 1
  <2>1. Cardinality(Teams) \in Nat
    BY TeamSets
  <2> QED
    BY <2>1, LevelIs
<1>3. Most \in Nat /\ Most >= 1
  BY LevelIs
<1>4. ASSUME NEW j \in DOMAIN db, Key(db[j]) = Key(db[i]), j < i, NEW r \in Nat, r >= 1, r <= Most, Reached(db, j) >= r
      PROVE  L >= r
  <2>1. PICK m \in DOMAIN db : m <= j /\ Key(db[m]) = Key(db[j]) /\ Level(db, m) = r
    BY <1>4, Climb
  <2>2. m < i /\ m \in SameKey(db, i)
    BY <1>1, <1>4, <2>1 DEF SameKey
  <2> QED
    BY <2>1, <2>2
<1>5. Reached(db, i) <= Most
  <2>1. PICK V, W : V = DbVictims(db, i) /\ W = V \cup {db[i].flag.team}
    OBVIOUS
  <2>2. Reached(db, i) = Cardinality(W)
    BY ZenonT(60), <2>1, VictimsAre DEF Reached
  <2>3. V = VictimsOf(db, Key(db[i]), db[i].by, i - 1) /\ V \in SUBSET Teams
    <3>1. i - 1 \in Int
      BY <1>1
    <3> QED
      BY <2>1, <3>1, VictimsAre, VictimsGrow
  <2>4. IsFiniteSet(V) /\ Cardinality(V) \in Nat
    BY <2>3, TeamSets
  <2>5. Cardinality(W) = Cardinality(V) \/ Cardinality(W) = Cardinality(V) + 1
    BY <2>1, <2>4, FS_AddElement
  <2>6. CASE V = {}
    BY <1>3, <2>2, <2>5, <2>6, FS_EmptySet
  <2>7. CASE V # {}
    <3>1. i - 1 \in Int
      BY <1>1
    <3>2. PICK p \in DOMAIN db : p <= i - 1 /\ Key(db[p]) = Key(db[i]) /\ Reached(db, p) = Cardinality(V)
      BY <2>3, <2>7, <3>1, LastVictim
    <3>3. p < i
      BY <1>1, <3>2
    <3>4. ~(Reached(db, p) >= Most)
      BY <1>3, <1>4, <3>2, <3>3
    <3> QED
      BY <1>2, <1>3, <2>2, <2>4, <2>5, <3>2, <3>4
  <2> QED
    BY <2>6, <2>7
<1>6. ASSUME NEW j \in SameKey(db, i), j < i PROVE Reached(db, j) < Reached(db, i)
  <2>1. j \in DOMAIN db /\ Key(db[j]) = Key(db[i])
    BY DEF SameKey
  <2>2. ~(Reached(db, j) >= Reached(db, i))
    BY <1>2, <1>4, <1>5, <1>6, <2>1
  <2> QED
    BY <1>2, <2>1, <2>2
<1> QED
  BY <1>2, <1>5, <1>6, LevelIs

(* Before the step for row i, and after it.                                *)
Ready(db, acc, G, i) ==
  /\ \E d : Searched(db, acc.cache, G \cup acc.found, d)
  /\ \A j \in DOMAIN db : j < i => Marked(db, G \cup acc.found, j)
  /\ \A y \in acc.seen : \E j \in DOMAIN db : j < i /\ FlagKey(db[j]) = y
Came(db, acc, G, i, new) ==
  /\ \E e : Searched(db, new.cache, G \cup new.found, e) /\ i <= e
  /\ acc.found \subseteq new.found /\ \A y \in new.seen : y \in acc.seen \/ y = FlagKey(db[i])

(* A step of the algorithm with levels brings the search up to its row.    *)
LEMMA MultiRight ==
  ASSUME NEW db, Table(db), algo \in Algorithms, algo[2] = "multi", Honest(db), NEW acc \in Acc(db), NEW G \in Found(db),
         NEW i \in DOMAIN db, Ready(db, acc, G, i)
  PROVE  Came(db, acc, G, i, MultiStep(db, acc, i))
<1>0. PICK new, d : new = MultiStep(db, acc, i) /\ Searched(db, acc.cache, G \cup acc.found, d)
  BY DEF Ready
<1>1. PICK k \in Keys : k = Key(db[i])
  BY KeyOf
<1>2. PICK u \in Teams : u = db[i].by
  BY RowOf
<1>3. PICK victim \in Teams : victim = db[i].flag.team
  BY RowOf
<1>4. PICK F : F = G \cup acc.found
  OBVIOUS
<1>5. Searched(db, acc.cache, F, d) /\ \A j \in DOMAIN db : j < i => Marked(db, F, j)
  BY <1>0, <1>4 DEF Ready
<1>6. PICK N \in Nat : DOMAIN db = 1..N /\ N = Len(db)
  BY RowOf
<1>7. i \in 1..N /\ d \in 0..N /\ CacheFits(db, acc.cache, d)
  BY <1>5, <1>6 DEF Searched
<1>8. PICK c, max, victims : c = acc.cache /\ max = c.max /\ victims = c.victims
  OBVIOUS
<1>9. c \in Cache /\ Searched(db, c, F, d) /\ max \in [Keys -> Nat] /\ victims \in [Keys \X Teams -> SUBSET Teams]
  BY <1>5, <1>8, AccParts
<1>10. new \in Acc(db) /\ new.cache \in Cache
  BY <1>0, <1>1, MultiStepType, AccParts
<1>11. PICK x \in Keys \X Teams : x = <<k, u>>
  OBVIOUS
<1>12. Most = Limit /\ Limit \in Nat /\ Limit >= 1
  BY ScoringAssumption DEF Most
<1>13. PICK L : L = Max({max[k], DbLevel(db, i)})
  OBVIOUS
<1>14. /\ L \in Nat /\ L >= max[k]
       /\ \A j \in SameKey(db, i) : j < i => L >= Level(db, j)
       /\ L = max[k] \/ \E j \in DOMAIN db : j < i /\ Key(db[j]) = k /\ Level(db, j) >= L
  <2>1. L = Highest(db, c, i)
    BY <1>1, <1>8, <1>13 DEF Highest
  <2>2. /\ L \in Nat /\ L >= c.max[k]
        /\ \A j \in SameKey(db, i) : j < i => L >= Level(db, j)
        /\ L = c.max[k] \/ \E j \in DOMAIN db : j < i /\ Key(db[j]) = k /\ Level(db, j) >= L
    BY <1>1, <1>5, <1>9, <2>1, LevelBefore
  <2> QED
    BY <1>8, <2>2
<1>15. PICK known : known = victims[x] \cup DbVictims(db, i)
  OBVIOUS
<1>16. PICK e \in 0..d : victims[x] = VictimsOf(db, k, u, e)
  BY <1>7, <1>8, <1>11 DEF CacheFits
<1>17. PICK all : all = known \cup {victim}
  OBVIOUS
<1>18. PICK reached : reached = Cardinality(all)
  OBVIOUS
<1>19. /\ max[k] >= Limit \/ victim \in victims[x] => new = acc
       /\ ~(max[k] >= Limit \/ victim \in victims[x]) /\ L >= Limit => new = [acc EXCEPT !.cache.max[k] = L]
       /\ ~(max[k] >= Limit \/ victim \in victims[x]) /\ ~(L >= Limit) /\ (victim \in known \/ reached <= L)
            => new = [acc EXCEPT !.cache.max[k] = L, !.cache.victims[x] = all]
       /\ ~(max[k] >= Limit \/ victim \in victims[x]) /\ ~(L >= Limit) /\ ~(victim \in known \/ reached <= L)
            => new = [acc EXCEPT !.cache.max[k] = reached, !.cache.victims[x] = all, !.found = @ \cup {<<i, reached>>}]
  <2>1. ~(L >= Limit) <=> L < Limit
    BY <1>12, <1>14
  <2> QED
    BY <1>1, <1>2, <1>3, <1>8, <1>11, <1>13, <1>15, <1>17, <1>18, <2>1, <1>0 DEF MultiStep
(* What the cache or the table shows of the rows before.                   *)
<1>20. ASSUME NEW n \in Nat, n # 0, n = max[k] \/ n = L, n >= Most \/ n >= Reached(db, i) PROVE Marked(db, F, i)
  <2>1. CASE i <= d
    BY <1>5, <2>1 DEF Searched
  <2>2. CASE ~(i <= d)
    <3>1. max[k] # 0 => \E j \in DOMAIN db : j <= d /\ Key(db[j]) = k /\ Level(db, j) >= max[k]
      BY <1>7, <1>8 DEF CacheFits
    <3>2. PICK j \in DOMAIN db : j < i /\ Key(db[j]) = k /\ Level(db, j) >= n
      <4>1. \A j \in DOMAIN db : j <= d => j < i
        BY <1>6, <1>7, <2>2
      <4> QED
        BY <1>14, <1>20, <3>1, <4>1
    <3> QED
      BY <1>1, <1>20, <3>2, LevelOver
  <2> QED
    BY <2>1, <2>2
<1>21. ASSUME NEW b \in Cache, b = new.cache, NEW H, F \subseteq H, H \subseteq F \cup {<<i, Level(db, i)>>}, Marked(db, H, i),
              NEW n \in Nat, b.max = [max EXCEPT ![k] = n], n >= max[k],
              n = max[k] \/ n = L \/ n = Level(db, i),
              b.victims = victims \/ b.victims = [victims EXCEPT ![x] = VictimsOf(db, k, u, i)],
              H # F => n >= Level(db, i)
       PROVE  \E g : Searched(db, b, H, g) /\ i <= g
  <2>1. \A q \in Keys : b.max[q] = IF q = k THEN n ELSE max[q]
    BY <1>9, <1>21
  <2>2. \A q \in Keys : b.max[q] >= max[q]
    BY <1>9, <1>21, <2>1
  <2>3. ASSUME NEW q \in Keys, b.max[q] # max[q]
        PROVE  \E j \in DOMAIN db : (j <= d \/ j <= i) /\ Key(db[j]) = q /\ Level(db, j) >= b.max[q]
    <3>1. q = k /\ b.max[q] = n /\ (n = L \/ n = Level(db, i)) /\ n # max[k]
      BY <1>21, <2>1, <2>3
    <3>2. CASE n = Level(db, i)
      <4>1. i <= i /\ Key(db[i]) = q /\ Level(db, i) >= n
        BY <1>1, <1>7, <3>1, <3>2
      <4> QED
        BY <3>1, <4>1
    <3>3. CASE n = L
      <4>1. PICK j \in DOMAIN db : j < i /\ Key(db[j]) = k /\ Level(db, j) >= L
        BY <1>14, <3>1, <3>3
      <4>2. j <= i
        BY <1>6, <1>7, <4>1
      <4> QED
        BY <3>1, <3>3, <4>1, <4>2
    <3> QED
      BY <3>1, <3>2, <3>3
  <2>4. ASSUME NEW q \in Keys, NEW t \in Teams
        PROVE  b.victims[<<q, t>>] = victims[<<q, t>>] \/ b.victims[<<q, t>>] = VictimsOf(db, q, t, i)
    <3>1. PICK y \in Keys \X Teams : y = <<q, t>>
      OBVIOUS
    <3>2. y = x => q = k /\ t = u
      BY <1>11, <3>1
    <3>3. y # x => b.victims[y] = victims[y]
      BY <1>9, <1>21
    <3>4. b.victims = [victims EXCEPT ![x] = VictimsOf(db, k, u, i)] => b.victims[x] = VictimsOf(db, k, u, i)
      BY <1>9
    <3> QED
      BY <1>21, <3>1, <3>2, <3>3, <3>4
  <2>5. b.max[Key(db[i])] = n
    BY <1>1, <2>1
  <2>6. /\ \A q \in Keys : b.max[q] >= c.max[q]
        /\ \A q \in Keys : \/ b.max[q] = c.max[q]
                           \/ \E j \in DOMAIN db : (j <= d \/ j <= i) /\ Key(db[j]) = q /\ Level(db, j) >= b.max[q]
        /\ \A q \in Keys, t \in Teams : \/ b.victims[<<q, t>>] = c.victims[<<q, t>>]
                                        \/ b.victims[<<q, t>>] = VictimsOf(db, q, t, i)
    BY <1>8, <2>2, <2>3, <2>4
  <2>7. H # F => b.max[Key(db[i])] >= Level(db, i)
    BY <1>21, <2>5
  <2>8. Searched(db, c, F, d) /\ (\A j \in DOMAIN db : j < i => Marked(db, F, j)) /\ F \subseteq H
        /\ H \subseteq F \cup {<<i, Level(db, i)>>} /\ Marked(db, H, i)
    BY <1>5, <1>9, <1>21
  <2> QED
    BY <1>9, <2>6, <2>7, <2>8, Advance
<1>22. [max EXCEPT ![k] = max[k]] = max
  BY <1>9
<1>23. CASE max[k] >= Limit \/ victim \in victims[x]
  <2>1. new = acc
    BY <1>19, <1>23
  <2>2. Marked(db, F, i)
    <3>1. CASE max[k] >= Limit
      <4>1. max[k] \in Nat /\ max[k] # 0
        BY <1>9, <1>12, <3>1
      <4> QED
        BY <1>12, <1>20, <3>1, <4>1
    <3>2. CASE victim \in victims[x] /\ i <= d
      BY <1>5, <3>2 DEF Searched
    <3>3. CASE victim \in victims[x] /\ ~(i <= d)
      <4>1. e <= i - 1 /\ e \in Int /\ i - 1 \in Int
        BY <1>7, <3>3
      <4>2. victim \in VictimsOf(db, k, u, i - 1)
        BY <1>16, <3>3, <4>1, VictimsGrow
      <4>3. Level(db, i) = 0
        BY <1>1, <1>2, <1>3, <4>2, VictimsAre, NoLevel
      <4> QED
        BY <4>3 DEF Honest, Marked
    <3> QED
      BY <1>23, <3>1, <3>2, <3>3
  <2>3. max[k] \in Nat /\ new.cache.max = max /\ new.cache.victims = victims /\ new.found = acc.found /\ new.seen = acc.seen
    BY <1>8, <1>9, <2>1
  <2>4. \E g : Searched(db, new.cache, F, g) /\ i <= g
    BY <1>10, <1>21, <1>22, <2>2, <2>3
  <2> QED
    BY <1>0, <1>4, <2>3, <2>4 DEF Came
<1>24. CASE ~(max[k] >= Limit \/ victim \in victims[x]) /\ L >= Limit
  <2>1. new = [acc EXCEPT !.cache.max[k] = L]
    BY <1>19, <1>24
  <2>2. Marked(db, F, i)
    <3>1. L # 0
      BY <1>12, <1>24
    <3> QED
      BY <1>12, <1>14, <1>20, <1>24, <3>1
  <2>3. new.cache.max = [max EXCEPT ![k] = L] /\ new.cache.victims = victims /\ new.found = acc.found /\ new.seen = acc.seen
    BY <1>8, <1>14, <2>1, AccEditMax DEF WithMax, HasParts
  <2>4. \E g : Searched(db, new.cache, F, g) /\ i <= g
    BY <1>10, <1>14, <1>21, <2>2, <2>3
  <2> QED
    BY <1>0, <1>4, <2>3, <2>4 DEF Came
<1>25. CASE ~(max[k] >= Limit \/ victim \in victims[x]) /\ ~(L >= Limit)
  <2>1. e < i
    <3>1. ASSUME i <= e PROVE FALSE
      <4>1. VictimsOf(db, k, u, i) \subseteq VictimsOf(db, k, u, e)
        BY <1>7, <1>16, <3>1, VictimsGrow
      <4>2. victim \in VictimsOf(db, k, u, i)
        BY <1>1, <1>2, <1>3, VictimsAre
      <4> QED
        BY <1>16, <1>25, <4>1, <4>2
    <3> QED
      BY <1>7, <1>16, <3>1
  <2>2. known = VictimsOf(db, k, u, i - 1) /\ known = DbVictims(db, i)
    <3>1. e <= i - 1 /\ e \in Int /\ i - 1 \in Int
      BY <1>7, <1>16, <2>1
    <3>2. VictimsOf(db, k, u, e) \subseteq VictimsOf(db, k, u, i - 1)
      BY <3>1, VictimsGrow
    <3>3. DbVictims(db, i) = VictimsOf(db, k, u, i - 1)
      BY <1>1, <1>2, VictimsAre
    <3> QED
      BY <1>15, <1>16, <3>2, <3>3
  <2>3. all = VictimsOf(db, k, u, i) /\ all \in SUBSET Teams
    <3>1. i \in Int
      BY <1>7
    <3> QED
      BY <1>1, <1>2, <1>3, <1>17, <2>2, <3>1, VictimsAre, VictimsGrow
  <2>4. reached = Reached(db, i)
    BY <1>1, <1>2, <1>18, <2>3, VictimsAre DEF Reached
  <2>5. reached \in Nat /\ reached >= 1
    BY <2>4, LevelIs, TeamSets
  <2>6. CASE victim \in known \/ reached <= L
    <3>1. new = [acc EXCEPT !.cache.max[k] = L, !.cache.victims[x] = all]
      BY <1>19, <1>25, <2>6
    <3>2. Marked(db, F, i)
      <4>1. CASE victim \in known
        <5>1. Level(db, i) = 0
          BY <1>3, <2>2, <4>1, NoLevel
        <5> QED
          BY <5>1 DEF Honest, Marked
      <4>2. CASE reached <= L
        <5>1. L # 0 /\ L >= Reached(db, i)
          BY <1>14, <2>4, <2>5, <4>2
        <5> QED
          BY <1>14, <1>20, <5>1
      <4> QED
        BY <2>6, <4>1, <4>2
    <3>3. /\ new.cache.max = [max EXCEPT ![k] = L] /\ new.cache.victims = [victims EXCEPT ![x] = all]
          /\ new.found = acc.found /\ new.seen = acc.seen
      <4>1. new = WithBoth(acc, k, L, x, all)
        BY <3>1 DEF WithBoth
      <4>2. HasParts(WithBoth(acc, k, L, x, all), [acc.cache.max EXCEPT ![k] = L], [acc.cache.victims EXCEPT ![x] = all],
                     acc.found, acc.seen)
        BY <1>14, <2>3, AccEditBoth
      <4> QED
        BY <1>8, <4>1, <4>2 DEF HasParts
    <3>4. \E g : Searched(db, new.cache, F, g) /\ i <= g
      BY <1>10, <1>14, <1>21, <2>3, <3>2, <3>3
    <3> QED
      BY <1>0, <1>4, <3>3, <3>4 DEF Came
  <2>7. CASE ~(victim \in known \/ reached <= L)
    <3>1. new = [acc EXCEPT !.cache.max[k] = reached, !.cache.victims[x] = all, !.found = @ \cup {<<i, reached>>}]
      BY <1>19, <1>25, <2>7
    <3>2. PICK more : more = [acc EXCEPT !.cache.max[k] = reached, !.cache.victims[x] = all]
      OBVIOUS
    <3>3. /\ more.cache.max = [max EXCEPT ![k] = reached] /\ more.cache.victims = [victims EXCEPT ![x] = all]
          /\ more.found = acc.found /\ more.seen = acc.seen
      <4>1. more = WithBoth(acc, k, reached, x, all)
        BY <3>2 DEF WithBoth
      <4>2. HasParts(WithBoth(acc, k, reached, x, all), [acc.cache.max EXCEPT ![k] = reached],
                     [acc.cache.victims EXCEPT ![x] = all], acc.found, acc.seen)
        BY <2>3, <2>5, AccEditBoth
      <4> QED
        BY <1>8, <4>1, <4>2 DEF HasParts
    <3>4. more \in Acc(db)
      BY <1>11, <2>3, <2>5, <3>2, AccParts
    <3>5. new = [more EXCEPT !.found = acc.found \cup {<<i, reached>>}]
      BY <3>1, <3>2 DEF Acc
    <3>6. new.cache = more.cache /\ new.seen = more.seen /\ new.found = acc.found \cup {<<i, reached>>}
      BY <3>4, <3>5 DEF Acc
    <3>7. Level(db, i) = reached
      <4>1. L < Most /\ Reached(db, i) > L
        BY <1>12, <1>14, <1>25, <2>4, <2>5, <2>7
      <4> QED
        BY <1>14, <2>4, <4>1, LevelNew
    <3>8. PICK H : H = F \cup {<<i, Level(db, i)>>}
      OBVIOUS
    <3>9. Marked(db, H, i) /\ H = G \cup new.found
      BY <1>4, <3>6, <3>7, <3>8 DEF Marked
    <3>10. reached >= max[k]
      <4>1. max[k] \in Nat
        BY <1>9
      <4> QED
        BY <1>14, <2>5, <2>7, <4>1
    <3>11. new.cache.max = [max EXCEPT ![k] = reached] /\ new.cache.victims = [victims EXCEPT ![x] = VictimsOf(db, k, u, i)]
      BY <2>3, <3>3, <3>6
    <3>12. reached >= Level(db, i) /\ F \subseteq H /\ H \subseteq F \cup {<<i, Level(db, i)>>}
      BY <2>5, <3>7, <3>8
    <3>13. \E g : Searched(db, new.cache, H, g) /\ i <= g
      BY <1>10, <1>21, <2>5, <3>7, <3>9, <3>10, <3>11, <3>12
    <3> QED
      BY <1>0, <3>3, <3>6, <3>9, <3>13 DEF Came
  <2> QED
    BY <2>6, <2>7
<1> QED
  BY <1>23, <1>24, <1>25

(* A step of the default algorithm does so, too.                           *)
LEMMA DefaultRight ==
  ASSUME NEW db, Table(db), algo \in Algorithms, algo[2] # "multi", Honest(db), NEW acc \in Acc(db), NEW G \in Found(db),
         NEW i \in DOMAIN db, Ready(db, acc, G, i)
  PROVE  Came(db, acc, G, i, DefaultStep(db, acc, i))
<1>0. PICK new, d : new = DefaultStep(db, acc, i) /\ Searched(db, acc.cache, G \cup acc.found, d)
  BY DEF Ready
<1>1. PICK k \in Keys : k = Key(db[i])
  BY KeyOf
<1>2. PICK fk : fk = FlagKey(db[i])
  OBVIOUS
<1>3. PICK N \in Nat : DOMAIN db = 1..N /\ N = Len(db)
  BY RowOf
<1>4. PICK F : F = G \cup acc.found
  OBVIOUS
<1>5. Searched(db, acc.cache, F, d) /\ \A j \in DOMAIN db : j < i => Marked(db, F, j)
  BY <1>0, <1>4 DEF Ready
<1>6. PICK c, max, victims : c = acc.cache /\ max = c.max /\ victims = c.victims
  OBVIOUS
<1>7. c \in Cache /\ Searched(db, c, F, d) /\ max \in [Keys -> Nat] /\ victims \in [Keys \X Teams -> SUBSET Teams]
  BY <1>5, <1>6, AccParts
<1>8. new \in Acc(db) /\ new.cache \in Cache
  BY <1>0, <1>1, DefaultStepType, AccParts
<1>9. i \in 1..N /\ d \in 0..N /\ CacheFits(db, c, d)
  BY <1>3, <1>7 DEF Searched
<1>10. Most = 1
  BY DEF Most
<1>11. \A j \in DOMAIN db : Reached(db, j) \in Nat /\ Reached(db, j) >= 1 /\ Level(db, j) \in Nat
  <2>1. Cardinality(Teams) \in Nat
    BY TeamSets
  <2> QED
    BY <2>1, LevelIs
<1>12. ASSUME NEW b \in Cache, b = new.cache, NEW H, F \subseteq H, H \subseteq F \cup {<<i, Level(db, i)>>}, Marked(db, H, i),
              (b.max = max /\ H = F) \/ (b.max = [max EXCEPT ![k] = 1] /\ max[k] = 0 /\ Level(db, i) = 1), b.victims = victims
       PROVE  \E g : Searched(db, b, H, g) /\ i <= g
  <2>1. ASSUME NEW q \in Keys
        PROVE  /\ b.max[q] >= c.max[q]
               /\ \/ b.max[q] = c.max[q]
                  \/ \E j \in DOMAIN db : (j <= d \/ j <= i) /\ Key(db[j]) = q /\ Level(db, j) >= b.max[q]
    <3>0. max[q] \in Nat /\ i <= i
      BY <1>7, <1>9
    <3>1. CASE b.max[q] = max[q]
      BY <1>6, <3>0, <3>1
    <3>2. CASE b.max[q] # max[q]
      <4>1. q = k /\ b.max[q] = 1 /\ max[q] = 0 /\ Level(db, i) = 1
        BY <1>7, <1>12, <3>2
      <4>2. i <= i /\ Key(db[i]) = q /\ Level(db, i) >= b.max[q]
        BY <1>1, <3>0, <4>1
      <4> QED
        BY <1>6, <4>1, <4>2
    <3> QED
      BY <3>1, <3>2
  <2>2. H # F => b.max[Key(db[i])] >= Level(db, i)
    <3>1. H # F => b.max[k] = 1 /\ Level(db, i) = 1
      BY <1>7, <1>12
    <3> QED
      BY <1>1, <3>1
  <2>3. \A q \in Keys, t \in Teams : b.victims[<<q, t>>] = c.victims[<<q, t>>]
    BY <1>6, <1>12
  <2>4. Searched(db, c, F, d) /\ (\A j \in DOMAIN db : j < i => Marked(db, F, j)) /\ F \subseteq H
        /\ H \subseteq F \cup {<<i, Level(db, i)>>} /\ Marked(db, H, i)
    BY <1>5, <1>7, <1>12
  <2> QED
    BY <1>7, <2>1, <2>2, <2>3, <2>4, Advance
<1>13. CASE fk \notin acc.seen /\ DefaultIsFirst(db, acc.cache, i)
  <2>1. new = [acc EXCEPT !.found = @ \cup {<<i, 1>>}, !.seen = @ \cup {fk}, !.cache.max[k] = 1]
    BY <1>0, <1>1, <1>2, <1>13 DEF DefaultStep
  <2>2. /\ new.cache.max = [max EXCEPT ![k] = 1] /\ new.cache.victims = victims
        /\ new.found = acc.found \cup {<<i, 1>>} /\ new.seen = acc.seen \cup {fk}
    <3>1. PICK A, S : A = acc.found \cup {<<i, 1>>} /\ S = acc.seen \cup {fk}
      OBVIOUS
    <3>2. PICK one : one = [acc EXCEPT !.found = A, !.seen = S]
      OBVIOUS
    <3>3. one.cache = acc.cache /\ one.found = A /\ one.seen = S /\ one \in [cache: Cache, found: {A}, seen: {S}]
      BY <1>6, <1>7, <3>2 DEF Acc
    <3>4. new = [one EXCEPT !.cache.max[k] = 1]
      BY <2>1, <3>1, <3>2 DEF Acc
    <3>5. new.cache = [c EXCEPT !.max[k] = 1] /\ new.found = A /\ new.seen = S
      BY <1>6, <3>3, <3>4
    <3>6. [c EXCEPT !.max[k] = 1].max = [max EXCEPT ![k] = 1] /\ [c EXCEPT !.max[k] = 1].victims = victims
      BY <1>6, <1>7 DEF Cache
    <3> QED
      BY <3>1, <3>5, <3>6
  <2>3. max[k] = 0 /\ \A j \in SameKey(db, i) : j <= i => db[j].fb = 0
    BY <1>1, <1>6, <1>13 DEF DefaultIsFirst
  <2>4. \A j \in SameKey(db, i) : ~(j < i)
    <3> SUFFICES ASSUME NEW j \in SameKey(db, i), j < i PROVE FALSE
      OBVIOUS
    <3>1. j \in DOMAIN db /\ Key(db[j]) = k
      BY <1>1 DEF SameKey
    <3>2. PICK m \in DOMAIN db : m <= j /\ Key(db[m]) = Key(db[j]) /\ Level(db, m) = 1
      BY <1>10, <1>11, <3>1, Climb
    <3>3. m < i /\ m <= i /\ m \in SameKey(db, i) /\ Key(db[m]) = k
      BY <1>1, <1>3, <1>9, <3>1, <3>2 DEF SameKey
    <3>4. db[m].fb = 0
      BY <2>3, <3>3
    <3>5. <<m, 1>> \in F
      BY <1>5, <3>2, <3>3, <3>4 DEF Marked
    <3>6. PICK x \in F : x = <<m, 1>>
      BY <3>5
    <3>7. c.max[Key(db[x[1]])] >= x[2]
      BY <1>7 DEF Searched
    <3>8. max[k] >= 1
      BY <1>6, <3>3, <3>6, <3>7
    <3> QED
      BY <2>3, <3>8
  <2>5. Reached(db, i) = 1
    <3>1. DbVictims(db, i) = {}
      BY <2>4 DEF DbVictims
    <3>2. Victims(db, i, db[i].by) = {db[i].flag.team}
      BY <3>1, VictimsAre
    <3> QED
      BY <3>2, FS_Singleton DEF Reached
  <2>6. Level(db, i) = 1
    BY <1>10, <2>4, <2>5, LevelIs
  <2>7. PICK H : H = F \cup {<<i, Level(db, i)>>}
    OBVIOUS
  <2>8. Marked(db, H, i) /\ H = G \cup new.found /\ F \subseteq H
    BY <1>4, <2>2, <2>6, <2>7 DEF Marked
  <2>9. \E g : Searched(db, new.cache, H, g) /\ i <= g
    BY <1>8, <1>12, <2>2, <2>3, <2>6, <2>7, <2>8
  <2> QED
    BY <1>0, <1>2, <2>2, <2>8, <2>9 DEF Came
<1>14. CASE ~(fk \notin acc.seen /\ DefaultIsFirst(db, acc.cache, i))
  <2>1. new = [acc EXCEPT !.seen = @ \cup {fk}]
    BY <1>0, <1>1, <1>2, <1>14 DEF DefaultStep
  <2>2. new.cache.max = max /\ new.cache.victims = victims /\ new.found = acc.found /\ new.seen = acc.seen \cup {fk}
    BY <1>6, <2>1 DEF Acc
  <2>3. Marked(db, F, i)
    <3>1. ASSUME NEW j \in DOMAIN db, j < i, Key(db[j]) = k PROVE Marked(db, F, i)
      <4>1. j \in SameKey(db, i) /\ Reached(db, j) >= Most
        BY <1>1, <1>10, <1>11, <3>1 DEF SameKey
      <4>2. Level(db, i) = 0
        BY <3>1, <4>1, NoLevel
      <4> QED
        BY <4>2 DEF Honest, Marked
    <3>2. CASE fk \in acc.seen
      <4>1. PICK j \in DOMAIN db : j < i /\ FlagKey(db[j]) = fk
        BY <3>2 DEF Ready
      <4>2. Key(db[j]) = k
        BY <1>1, <1>2, <4>1 DEF FlagKey, Key
      <4> QED
        BY <3>1, <4>1, <4>2
    <3>3. CASE max[k] # 0
      <4>1. PICK j \in DOMAIN db : j <= d /\ Key(db[j]) = k
        BY <1>6, <1>9, <3>3 DEF CacheFits
      <4>2. i <= d => Marked(db, F, i)
        BY <1>5 DEF Searched
      <4>3. ~(i <= d) => j < i
        BY <1>3, <1>9, <4>1
      <4> QED
        BY <3>1, <4>1, <4>2, <4>3
    <3>4. CASE \E j \in SameKey(db, i) : j <= i /\ db[j].fb # 0
      <4>1. PICK j \in SameKey(db, i) : j <= i /\ db[j].fb # 0
        BY <3>4
      <4>2. j \in DOMAIN db /\ Key(db[j]) = k
        BY <1>1 DEF SameKey
      <4>3. j = i \/ j < i
        BY <1>3, <1>9, <4>1, <4>2
      <4>4. j = i => Marked(db, F, i)
        BY <4>1, <4>2 DEF Honest, Marked
      <4> QED
        BY <3>1, <4>2, <4>3, <4>4
    <3> QED
      BY <1>1, <1>6, <1>14, <3>2, <3>3, <3>4 DEF DefaultIsFirst
  <2>4. \E g : Searched(db, new.cache, F, g) /\ i <= g
    BY <1>8, <1>12, <2>2, <2>3
  <2> QED
    BY <1>0, <1>2, <1>4, <2>2, <2>4 DEF Came
<1> QED
  BY <1>13, <1>14

(* A step of the search.                                                   *)
SearchStep(db, acc, i) == IF algo[2] = "multi" THEN MultiStep(db, acc, i) ELSE DefaultStep(db, acc, i)
NoneFound(c) == [cache |-> c, found |-> {}, seen |-> {}]

(* The accumulators r of a search over n rows.                             *)
Runs(db, c, n, is, r) ==
  /\ r \in [0..n -> Acc(db)] /\ r[0] = NoneFound(c)
  /\ \A x \in 1..n : r[x] = SearchStep(db, r[x - 1], is[x])

(* The search over some rows takes them one after the other.               *)
LEMMA SearchRuns ==
  ASSUME NEW db, Table(db), NEW c \in Cache, NEW n \in Nat, NEW is \in [1..n -> DOMAIN db]
  PROVE  \E r : Runs(db, c, n, is, r) /\ get_firstbloods(db, c, is) = r[n]
<1> DEFINE Step(acc, i) == SearchStep(db, acc, i)
           start == NoneFound(c)
           F == [x \in 1..n |-> [acc \in Acc(db) |-> Step(acc, is[x])]]
           Q(g) == g = [s \in SUBSET (1..n) |-> IF s = {} THEN start ELSE Step(g[s \ {Max(s)}], is[Max(s)])]
<1>1. start \in Acc(db)
  BY DEF Acc, Found, NoneFound
<1>2. \A acc \in Acc(db), i \in DOMAIN db : Step(acc, i) \in Acc(db)
  BY DefaultStepType, MultiStepType DEF SearchStep
<1>3. get_firstbloods(db, c, is) = (CHOOSE g : Q(g))[1..n]
  <2>1. DOMAIN is = 1..n
    OBVIOUS
  <2> QED
    BY <2>1 DEF get_firstbloods, FoldLeft, MapThenFoldSet, SearchStep, NoneFound
<1> HIDE DEF Step, start
<1>4. F \in [1..n -> [Acc(db) -> Acc(db)]]
  BY <1>2
<1>5. \A x \in 1..n, acc \in Acc(db) : F[x][acc] = Step(acc, is[x])
  OBVIOUS
<1> HIDE DEF F
<1>6. PICK g \in [SUBSET (1..n) -> Acc(db)] : FoldsLeft(g, n, start, F)
  BY <1>1, <1>4, FoldLeftExists
<1>7. \A s \in SUBSET (1..n) : s # {} => Max(s) \in s
  BY MaxIn
<1>8. ASSUME NEW s \in SUBSET (1..n) PROVE g[s] = IF s = {} THEN start ELSE Step(g[s \ {Max(s)}], is[Max(s)])
  <2>1. Max(s) = Top(s)
    BY DEF Max, Top
  <2>2. g[s] = IF s = {} THEN start ELSE F[Max(s)][g[s \ {Max(s)}]]
    BY <1>6, <2>1 DEF FoldsLeft
  <2>3. s # {} => Max(s) \in 1..n /\ g[s \ {Max(s)}] \in Acc(db)
    BY <1>7
  <2> QED
    BY <1>5, <2>2, <2>3
<1>9. Q(g)
  BY <1>8
<1>10. PICK k : k = CHOOSE h : Q(h)
  OBVIOUS
<1>11. Q(k)
  <2> HIDE DEF Q
  <2> QED
    BY <1>9, <1>10
<1>12. \A s \in SUBSET (1..n) : k[s] = IF s = {} THEN start ELSE Step(k[s \ {Max(s)}], is[Max(s)])
  BY <1>11
<1> HIDE DEF Q
<1> DEFINE r == [x \in 0..n |-> k[1..x]]
<1>13. r[0] = start
  <2>1. {} \in SUBSET (1..n)
    OBVIOUS
  <2>2. k[{}] = start
    BY <1>12, <2>1
  <2>3. 1..0 = {}
    OBVIOUS
  <2>4. r[0] = k[1..0]
    OBVIOUS
  <2> QED
    BY <2>2, <2>3, <2>4
<1>14. ASSUME NEW x \in 1..n PROVE r[x] = Step(r[x - 1], is[x])
  <2>1. PICK s : s = 1..x
    OBVIOUS
  <2>2. s \in SUBSET (1..n) /\ x \in s /\ \A y \in s : y <= x /\ y \in Int
    <3> HIDE DEF r
    <3> QED
      BY <2>1
  <2>3. Max(s) = x
    <3>1. IsFiniteSet(s) /\ s \subseteq Int
      BY <2>1, FS_Interval
    <3>2. Max(s) \in s /\ Max(s) >= x
      BY <2>2, <3>1, MaxOf
    <3>3. PICK m : m = Max(s)
      OBVIOUS
    <3>4. m \in Int /\ m >= x /\ m <= x
      BY <2>2, <3>2, <3>3
    <3> QED
      BY <3>3, <3>4
  <2>4. s \ {x} = 1..(x - 1)
    BY <2>1
  <2>5. k[s] = Step(k[s \ {Max(s)}], is[Max(s)])
    BY <1>12, <2>2
  <2>6. r[x] = k[s] /\ r[x - 1] = k[1..(x - 1)]
    BY <2>1
  <2> QED
    BY <2>3, <2>4, <2>5, <2>6
<1>15. r \in [0..n -> Acc(db)]
  <2> DEFINE T == {x \in Nat : x <= n => r[x] \in Acc(db)}
  <2> HIDE DEF r
  <2>1. 0 \in T
    BY <1>1, <1>13
  <2>2. ASSUME NEW x \in Nat, x \in T PROVE x + 1 \in T
    <3>1. ASSUME x + 1 <= n PROVE r[x + 1] \in Acc(db)
      <4>1. x + 1 \in 1..n /\ (x + 1) - 1 = x /\ x <= n
        BY <3>1
      <4>2. r[x + 1] = Step(r[x], is[x + 1])
        BY <1>14, <4>1
      <4>3. r[x] \in Acc(db) /\ is[x + 1] \in DOMAIN db
        BY <2>2, <4>1
      <4> QED
        BY <1>2, <4>2, <4>3
    <3> QED
      BY <3>1
  <2>3. \A x \in 0..n : x \in T
    <3> HIDE DEF T
    <3> QED
      BY <2>1, <2>2, NatsBy
  <2>4. \A x \in 0..n : r[x] \in Acc(db)
    BY <2>3
  <2> QED
    BY <2>4 DEF r
<1>16. get_firstbloods(db, c, is) = r[n]
  BY <1>3, <1>10
<1>17. Runs(db, c, n, is, r)
  BY <1>13, <1>14, <1>15 DEF Runs, Step, start
<1> QED
  BY <1>16, <1>17

(* A step of either algorithm.                                             *)
LEMMA StepRight ==
  ASSUME NEW db, Table(db), algo \in Algorithms, Honest(db), NEW acc \in Acc(db), NEW G \in Found(db),
         NEW i \in DOMAIN db, Ready(db, acc, G, i)
  PROVE  Came(db, acc, G, i, SearchStep(db, acc, i))
<1>1. CASE algo[2] = "multi"
  <2>1. SearchStep(db, acc, i) = MultiStep(db, acc, i)
    BY <1>1 DEF SearchStep
  <2>2. Came(db, acc, G, i, MultiStep(db, acc, i))
    BY <1>1, MultiRight
  <2> QED
    BY <2>1, <2>2
<1>2. CASE algo[2] # "multi"
  <2>1. SearchStep(db, acc, i) = DefaultStep(db, acc, i)
    BY <1>2 DEF SearchStep
  <2>2. Came(db, acc, G, i, DefaultStep(db, acc, i))
    BY <1>2, DefaultRight
  <2> QED
    BY <2>1, <2>2
<1> QED
  BY <1>1, <1>2

(* Rows that came in in the order of their ticks.                          *)
Sorted(db) == \A i, j \in DOMAIN db : i <= j => db[i].tick <= db[j].tick

(* The search over the rows of a tick.                                     *)
Search(db, c, n) == get_firstbloods(db, c, RowsIn(db, {n}))

(* When the rows of the ticks before have their levels, the search for a   *)
(* tick gives those of the tick theirs.                                    *)
LEMMA SearchRight ==
  ASSUME NEW db, Table(db), algo \in Algorithms, Honest(db), Sorted(db), NEW c \in Cache, NEW G \in Found(db),
         NEW d, Searched(db, c, G, d), NEW n \in Ticks, \A j \in DOMAIN db : db[j].tick < n => Marked(db, G, j)
  PROVE  \E e : /\ Searched(db, Search(db, c, n).cache, G \cup Search(db, c, n).found, e)
                /\ \A j \in DOMAIN db : db[j].tick <= n => Marked(db, G \cup Search(db, c, n).found, j)
<1>1. PICK N \in Nat : DOMAIN db = 1..N
  BY RowOf
<1>2. PICK is : is = RowsIn(db, {n})
  OBVIOUS
<1>3. Indices(is, db, {n})
  BY <1>1, <1>2, RowsInAre
<1>4. PICK m \in Nat : m = Len(is)
  BY <1>3 DEF Indices
<1>5. /\ is \in [1..m -> DOMAIN db] /\ \A x \in 1..m : db[is[x]].tick = n
      /\ \A x, y \in 1..m : x < y => is[x] < is[y]
      /\ \A i \in DOMAIN db : db[i].tick = n => \E x \in 1..m : is[x] = i
  BY <1>3, <1>4 DEF Indices
<1>6. PICK r : Runs(db, c, m, is, r) /\ Search(db, c, n) = r[m]
  <2>1. PICK r : Runs(db, c, m, is, r) /\ get_firstbloods(db, c, is) = r[m]
    <3>1. is \in [1..m -> DOMAIN db]
      BY <1>5
    <3> QED
      BY <3>1, SearchRuns
  <2> QED
    BY <1>2, <2>1 DEF Search
<1>7. r \in [0..m -> Acc(db)] /\ r[0] = NoneFound(c) /\ \A x \in 1..m : r[x] = SearchStep(db, r[x - 1], is[x])
  BY <1>6 DEF Runs
<1>8. n \in Nat /\ \A i \in DOMAIN db : db[i].tick \in Nat /\ i \in Int
  BY <1>1, RowOf, ScoringAssumption DEF Ticks
<1> DEFINE F(x) == G \cup r[x].found
           At(x) == /\ \E e : Searched(db, r[x].cache, F(x), e)
                    /\ \A y \in 1..x : Marked(db, F(x), is[y])
                    /\ \A j \in DOMAIN db : db[j].tick < n => Marked(db, F(x), j)
                    /\ \A z \in r[x].seen : \E y \in 1..x : FlagKey(db[is[y]]) = z
           T == {x \in Nat : x <= m => At(x)}
<1>9. 0 \in T
  <2>1. r[0].cache = c /\ r[0].found = {} /\ r[0].seen = {}
    BY <1>7 DEF NoneFound
  <2>2. F(0) = G
    BY <2>1
  <2>3. \A y \in 1..0 : FALSE
    OBVIOUS
  <2>4. At(0)
    BY <2>1, <2>2, <2>3
  <2> QED
    BY <2>4
<1>10. ASSUME NEW x \in Nat, x + 1 <= m, At(x) PROVE At(x + 1)
  <2>1. x \in 0..m /\ x + 1 \in 1..m /\ x + 1 \in 0..m /\ (x + 1) - 1 = x /\ \A y \in 1..x : y \in 1..m /\ y < x + 1
    BY <1>10
  <2>2. PICK acc \in Acc(db) : acc = r[x]
    BY <1>7, <2>1
  <2>3. PICK new \in Acc(db) : new = r[x + 1]
    BY <1>7, <2>1
  <2>4. PICK i \in DOMAIN db : i = is[x + 1]
    BY <1>5, <2>1
  <2>5. new = SearchStep(db, acc, i)
    BY <1>7, <2>1, <2>2, <2>3, <2>4
  <2>6. PICK e : Searched(db, acc.cache, G \cup acc.found, e)
    BY <1>10, <2>2
  <2>7. ASSUME NEW j \in DOMAIN db, j < i PROVE Marked(db, G \cup acc.found, j)
    <3>1. db[i].tick = n /\ db[j].tick <= n
      <4>1. j <= i
        BY <1>8, <2>7
      <4> QED
        BY <1>5, <2>1, <2>4, <4>1 DEF Sorted
    <3>2. CASE db[j].tick < n
      BY <1>10, <2>2, <3>2
    <3>3. CASE db[j].tick = n
      <4>1. PICK y \in 1..m : is[y] = j
        BY <1>5, <3>3
      <4>2. ~(x + 1 < y) /\ y # x + 1
        <5>1. x + 1 < y => i < j
          BY <1>5, <2>1, <2>4, <4>1
        <5> QED
          BY <1>8, <2>4, <2>7, <4>1, <5>1
      <4>3. y \in 1..x
        BY <4>2
      <4> QED
        BY <1>10, <2>2, <4>1, <4>3
    <3> QED
      BY <1>8, <3>1, <3>2, <3>3
  <2>8. ASSUME NEW z \in acc.seen PROVE \E j \in DOMAIN db : j < i /\ FlagKey(db[j]) = z
    <3>1. PICK y \in 1..x : FlagKey(db[is[y]]) = z
      BY <1>10, <2>2, <2>8
    <3>2. is[y] \in DOMAIN db /\ is[y] < i
      BY <1>5, <2>1, <2>4, <3>1
    <3> QED
      BY <3>1, <3>2
  <2>9. /\ \E g : Searched(db, new.cache, G \cup new.found, g) /\ i <= g
        /\ acc.found \subseteq new.found /\ \A z \in new.seen : z \in acc.seen \/ z = FlagKey(db[i])
    <3>1. Ready(db, acc, G, i)
      BY <2>6, <2>7, <2>8 DEF Ready
    <3>2. Came(db, acc, G, i, SearchStep(db, acc, i))
      BY <3>1, StepRight
    <3> QED
      BY <2>5, <3>2 DEF Came
  <2>10. Marked(db, G \cup new.found, i)
    BY <2>9 DEF Searched
  <2>11. \A j : Marked(db, G \cup acc.found, j) => Marked(db, G \cup new.found, j)
    BY <2>9 DEF Marked
  <2>12. \A y \in 1..(x + 1) : y \in 1..x \/ y = x + 1
    OBVIOUS
  <2>13. \A y \in 1..(x + 1) : Marked(db, G \cup new.found, is[y])
    BY <1>10, <2>2, <2>4, <2>10, <2>11, <2>12
  <2>14. \A j \in DOMAIN db : db[j].tick < n => Marked(db, G \cup new.found, j)
    BY <1>10, <2>2, <2>11
  <2>15. ASSUME NEW z \in new.seen PROVE \E y \in 1..(x + 1) : FlagKey(db[is[y]]) = z
    <3>1. CASE z \in acc.seen
      <4>1. PICK y \in 1..x : FlagKey(db[is[y]]) = z
        BY <1>10, <2>2, <3>1
      <4>2. y \in 1..(x + 1)
        OBVIOUS
      <4> QED
        BY <4>1, <4>2
    <3>2. CASE z = FlagKey(db[i])
      <4>1. x + 1 \in 1..(x + 1)
        OBVIOUS
      <4> QED
        BY <2>4, <3>2, <4>1
    <3> QED
      BY <2>9, <2>15, <3>1, <3>2
  <2> QED
    BY <2>3, <2>9, <2>13, <2>14, <2>15
<1>11. ASSUME NEW x \in Nat, x \in T PROVE x + 1 \in T
  <2>1. x + 1 <= m => x <= m
    OBVIOUS
  <2>2. x + 1 <= m => At(x + 1)
    <3> HIDE DEF At
    <3> QED
      BY <1>10, <1>11, <2>1
  <2> HIDE DEF At
  <2> QED
    BY <2>2
<1>12. m \in T
  <2> HIDE DEF T
  <2> QED
    BY <1>9, <1>11, NatsBy
<1>13. At(m)
  <2> HIDE DEF At
  <2> QED
    BY <1>12
<1>14. PICK e : Searched(db, r[m].cache, F(m), e)
  BY <1>13
<1>15. ASSUME NEW j \in DOMAIN db, db[j].tick <= n PROVE Marked(db, F(m), j)
  <2>1. db[j].tick < n \/ db[j].tick = n
    BY <1>8, <1>15
  <2> QED
    BY <1>5, <1>13, <2>1
<1> QED
  BY <1>6, <1>14, <1>15

(* A process that starts knows nothing, which is right.                    *)
LEMMA NothingSearched ==
  ASSUME NEW db, Table(db)
  PROVE  NoCache \in Cache /\ CacheFits(db, NoCache, 0) /\ Searched(db, NoCache, {}, 0)
<1>1. PICK N \in Nat : DOMAIN db = 1..N /\ N = Len(db)
  BY RowOf
<1>2. NoCache \in Cache /\ \A k \in Keys : NoCache.max[k] = 0 /\ \A t \in Teams : NoCache.victims[<<k, t>>] = {}
  BY DEF NoCache, Cache
<1>3. CacheFits(db, NoCache, 0)
  <2>1. \A k \in Keys, t \in Teams : NoCache.victims[<<k, t>>] = VictimsOf(db, k, t, 0)
    <3>1. 0 \in Int
      OBVIOUS
    <3>2. ASSUME NEW k, NEW t PROVE VictimsOf(db, k, t, 0) = {}
      BY <3>1, VictimsGrow
    <3> QED
      BY <1>2, <3>2
  <2>2. 0 \in 0..0
    OBVIOUS
  <2> QED
    BY <1>2, <2>1, <2>2 DEF CacheFits
<1>4. 0 \in 0..Len(db) /\ \A i \in DOMAIN db : ~(i <= 0)
  BY <1>1
<1>5. {} \in Found(db)
  BY DEF Found
<1> QED
  BY <1>2, <1>3, <1>4, <1>5 DEF Searched

(* When every payload has its last first blood, every row has its level.   *)
LEMMA AllDoneRight ==
  ASSUME NEW db, Table(db), algo \in Algorithms, algo[2] = "multi", Honest(db), NEW c \in Cache, NEW F, NEW d,
         Searched(db, c, F, d), AllDone(c), NEW i \in DOMAIN db
  PROVE  Marked(db, F, i)
<1>1. PICK N \in Nat : DOMAIN db = 1..N /\ N = Len(db)
  BY RowOf
<1>2. PICK k \in Keys : k = Key(db[i])
  BY KeyOf
<1>3. NumPayloads \in Nat /\ Limit \in Nat /\ Limit # 0 /\ Most = Limit
  BY ScoringAssumption DEF Most
<1>4. PICK m : m = Max({1, NumPayloads})
  OBVIOUS
<1>5. m \in {1, NumPayloads} /\ m >= 1 /\ m >= NumPayloads
  <2>1. IsFiniteSet({1, NumPayloads})
    <3>1. IsFiniteSet({1}) /\ {1, NumPayloads} = {1} \cup {NumPayloads}
      BY FS_Singleton
    <3> QED
      BY <3>1, FS_AddElement
  <2>2. {1, NumPayloads} \subseteq Int /\ {1, NumPayloads} # {}
    BY <1>3
  <2> QED
    BY <1>4, <2>1, <2>2, MaxOf
<1>6. k \in 0..(m - 1)
  <2>1. db[i].flag \in Flags /\ db[i].flag.payload \in Nat
    BY RowOf
  <2>2. NumPayloads > 0 => db[i].flag.payload < NumPayloads
    BY <2>1, ScoringAssumption
  <2> QED
    BY <1>2, <1>3, <1>5, <2>1, <2>2 DEF Key
<1>7. c.max[k] >= Limit
  BY <1>4, <1>6 DEF AllDone
<1>8. c.max[k] \in Nat /\ c.max[k] # 0
  BY <1>3, <1>7 DEF Cache
<1>9. PICK j \in DOMAIN db : j <= d /\ Key(db[j]) = k /\ Level(db, j) >= c.max[k]
  BY <1>8 DEF Searched, CacheFits
<1>10. CASE i <= d
  BY <1>10 DEF Searched
<1>11. CASE ~(i <= d)
  <2>1. j < i
    BY <1>1, <1>9, <1>11 DEF Searched
  <2>2. c.max[k] >= Most
    BY <1>3, <1>7
  <2> QED
    BY <1>2, <1>8, <1>9, <2>1, <2>2, LevelOver
<1> QED
  BY <1>10, <1>11

(* The search over all ticks.                                              *)
Whole(db) == [cache: Cache, found: Found(db), done: BOOLEAN]
WholeStep(db, acc, n) ==
  IF acc.done THEN acc
  ELSE [cache |-> Search(db, acc.cache, n).cache, found |-> acc.found \cup Search(db, acc.cache, n).found,
        done |-> Search(db, acc.cache, n).found # {} /\ AllDone(Search(db, acc.cache, n).cache)]
WholeRuns(db, r) ==
  /\ r \in [0..MaxTick -> Whole(db)] /\ r[0] = [cache |-> NoCache, found |-> {}, done |-> FALSE]
  /\ \A n \in Ticks : r[n] = WholeStep(db, r[n - 1], n)

(* It takes the ticks one after the other.                                 *)
LEMMA RecomputationRuns ==
  ASSUME NEW db, Table(db)
  PROVE  \E r : WholeRuns(db, r) /\ MultiRecomputation(db) = r[MaxTick].found
<1> DEFINE V == Whole(db)
           Step(acc, m) == WholeStep(db, acc, m)
           start == [cache |-> NoCache, found |-> {}, done |-> FALSE]
           is == [m \in Ticks |-> m]
           n == MaxTick
           F == [x \in 1..n |-> [acc \in V |-> Step(acc, is[x])]]
           Q(g) == g = [s \in SUBSET (1..n) |-> IF s = {} THEN start ELSE Step(g[s \ {Max(s)}], is[Max(s)])]
<1>1. start \in V
  BY DEF Found, Whole, NoCache, Cache
<1>2. ASSUME NEW acc \in V, NEW m PROVE Step(acc, m) \in V
  <2>1. acc.cache \in Cache /\ acc.found \in Found(db) /\ acc.done \in BOOLEAN
    BY DEF Whole
  <2>2. PICK new : new = Search(db, acc.cache, m)
    OBVIOUS
  <2>3. new.cache \in Cache /\ new.found \in Found(db)
    BY <2>1, <2>2, SearchType DEF Search
  <2>4. acc.found \cup new.found \in Found(db)
    BY <2>1, <2>3 DEF Found
  <2>5. (new.found # {} /\ AllDone(new.cache)) \in BOOLEAN
    OBVIOUS
  <2>6. [cache |-> new.cache, found |-> acc.found \cup new.found, done |-> new.found # {} /\ AllDone(new.cache)] \in V
    BY <2>3, <2>4, <2>5 DEF Whole
  <2>7. ~acc.done => Step(acc, m) = [cache |-> new.cache, found |-> acc.found \cup new.found,
                                      done |-> new.found # {} /\ AllDone(new.cache)]
    BY <2>2 DEF WholeStep
  <2>8. acc.done => Step(acc, m) = acc
    BY DEF WholeStep
  <2> HIDE DEF Step, V
  <2> QED
    BY <1>2, <2>1, <2>6, <2>7, <2>8
<1>3. n \in Nat
  BY ScoringAssumption
<1>4. MultiRecomputation(db) = (CHOOSE g : Q(g))[1..n].found
  <2>1. DOMAIN is = 1..n
    BY DEF Ticks
  <2> QED
    BY <2>1 DEF MultiRecomputation, FoldLeft, MapThenFoldSet, WholeStep, Search
<1>5. \A x \in 1..n : is[x] = x
  BY DEF Ticks
<1> HIDE DEF Step, start, is, V
<1>6. F \in [1..n -> [V -> V]]
  BY <1>2
<1>7. \A x \in 1..n, acc \in V : F[x][acc] = Step(acc, is[x])
  OBVIOUS
<1> HIDE DEF F, n
<1>8. PICK g \in [SUBSET (1..n) -> V] : FoldsLeft(g, n, start, F)
  BY <1>1, <1>3, <1>6, FoldLeftExists
<1>9. IsFiniteSet(1..n) /\ \A s \in SUBSET (1..n) : s # {} => Max(s) \in s
  BY <1>3, MaxIn
<1>10. ASSUME NEW s \in SUBSET (1..n) PROVE g[s] = IF s = {} THEN start ELSE Step(g[s \ {Max(s)}], is[Max(s)])
  <2>1. Max(s) = Top(s)
    BY DEF Max, Top
  <2>2. g[s] = IF s = {} THEN start ELSE F[Max(s)][g[s \ {Max(s)}]]
    BY <1>8, <2>1 DEF FoldsLeft
  <2>3. s # {} => Max(s) \in 1..n /\ g[s \ {Max(s)}] \in V
    BY <1>9
  <2> QED
    BY <1>7, <2>2, <2>3
<1>11. Q(g)
  BY <1>10
<1>12. PICK k : k = CHOOSE h : Q(h)
  OBVIOUS
<1>13. Q(k)
  <2> HIDE DEF Q
  <2> QED
    BY <1>11, <1>12
<1>14. \A s \in SUBSET (1..n) : k[s] = IF s = {} THEN start ELSE Step(k[s \ {Max(s)}], is[Max(s)])
  BY <1>13
<1> HIDE DEF Q
<1> DEFINE r == [x \in 0..n |-> k[1..x]]
<1>15. r[0] = start
  <2>1. {} \in SUBSET (1..n)
    OBVIOUS
  <2>2. k[{}] = start
    BY <1>14, <2>1
  <2>3. 1..0 = {} /\ 0 \in 0..n
    BY <1>3
  <2>4. r[0] = k[1..0]
    BY <2>3
  <2> QED
    BY <2>2, <2>3, <2>4
<1>16. ASSUME NEW x \in 1..n PROVE r[x] = Step(r[x - 1], x)
  <2>1. PICK s : s = 1..x
    OBVIOUS
  <2>2. s \in SUBSET (1..n) /\ x \in s /\ \A y \in s : y <= x /\ y \in Int
    <3> HIDE DEF r
    <3> QED
      BY <1>3, <2>1
  <2>3. Max(s) = x
    <3>1. IsFiniteSet(s) /\ s \subseteq Int
      BY <2>1, FS_Interval
    <3>2. Max(s) \in s /\ Max(s) >= x
      BY <2>2, <3>1, MaxOf
    <3>3. PICK m : m = Max(s)
      OBVIOUS
    <3>4. m \in Int /\ m >= x /\ m <= x
      BY <2>2, <3>2, <3>3
    <3> QED
      BY <3>3, <3>4
  <2>4. s \ {x} = 1..(x - 1)
    BY <2>1
  <2>5. k[s] = Step(k[s \ {Max(s)}], is[Max(s)])
    BY <1>14, <2>2
  <2>6. r[x] = k[s] /\ r[x - 1] = k[1..(x - 1)]
    BY <1>3, <2>1
  <2> QED
    BY <1>5, <2>3, <2>4, <2>5, <2>6
<1>17. r \in [0..n -> V]
  <2> DEFINE T == {x \in Nat : x <= n => r[x] \in V}
  <2> HIDE DEF r
  <2>1. 0 \in T
    BY <1>1, <1>15
  <2>2. ASSUME NEW x \in Nat, x \in T PROVE x + 1 \in T
    <3>1. ASSUME x + 1 <= n PROVE r[x + 1] \in V
      <4>1. x + 1 \in 1..n /\ (x + 1) - 1 = x /\ x <= n
        BY <1>3, <3>1
      <4>2. r[x + 1] = Step(r[x], x + 1)
        BY <1>16, <4>1
      <4>3. r[x] \in V
        BY <2>2, <4>1
      <4> QED
        BY <1>2, <4>2, <4>3
    <3> QED
      BY <3>1
  <2>3. \A x \in 0..n : x \in T
    <3> HIDE DEF T
    <3>1. \A x \in 0..n : x \in Nat
      BY <1>3
    <3> QED
      BY <2>1, <2>2, <3>1, NatsBy
  <2>4. \A x \in 0..n : r[x] \in V
    BY <2>3
  <2> QED
    BY <2>4 DEF r
<1>18. MultiRecomputation(db) = r[n].found
  <2>1. r[n] = k[1..n]
    BY <1>3
  <2> HIDE DEF r
  <2> QED
    BY <1>4, <1>12, <2>1
<1>19. WholeRuns(db, r)
  BY <1>15, <1>16, <1>17 DEF WholeRuns, Step, start, V, n, Ticks
<1> QED
  BY <1>18, <1>19 DEF n

(* In a table without marks, the search over all ticks gives every row its *)
(* level.                                                                  *)
LEMMA RecomputationRight ==
  ASSUME NEW db, Table(db), algo \in Algorithms, algo[2] = "multi", Sorted(db), \A i \in DOMAIN db : db[i].fb = 0
  PROVE  /\ \A x \in MultiRecomputation(db) : x[2] = Level(db, x[1])
         /\ \A i \in DOMAIN db : Marked(db, MultiRecomputation(db), i)
<1>1. PICK r : WholeRuns(db, r) /\ MultiRecomputation(db) = r[MaxTick].found
  BY RecomputationRuns
<1>2. /\ r \in [0..MaxTick -> Whole(db)] /\ r[0] = [cache |-> NoCache, found |-> {}, done |-> FALSE]
      /\ \A n \in Ticks : r[n] = WholeStep(db, r[n - 1], n)
  BY <1>1 DEF WholeRuns
<1>3. Honest(db)
  BY DEF Honest
<1>4. MaxTick \in Nat /\ \A i \in DOMAIN db : db[i].tick \in Ticks /\ db[i].tick \in 1..MaxTick
  BY RowOf, ScoringAssumption DEF Ticks
<1> DEFINE At(x) == /\ \E d : Searched(db, r[x].cache, r[x].found, d)
                    /\ \A j \in DOMAIN db : db[j].tick <= x \/ r[x].done => Marked(db, r[x].found, j)
           T == {x \in Nat : x <= MaxTick => At(x)}
<1>5. 0 \in T
  <2>1. r[0].cache = NoCache /\ r[0].found = {} /\ r[0].done = FALSE
    BY <1>2
  <2>2. Searched(db, NoCache, {}, 0)
    BY NothingSearched
  <2>3. \A j \in DOMAIN db : ~(db[j].tick <= 0)
    BY <1>4
  <2> QED
    BY <2>1, <2>2, <2>3
<1>6. ASSUME NEW x \in Nat, x + 1 <= MaxTick, At(x) PROVE At(x + 1)
  <2>1. PICK n \in Ticks : n = x + 1 /\ n - 1 = x /\ n \in 0..MaxTick /\ x \in 0..MaxTick
    BY <1>4, <1>6 DEF Ticks
  <2>2. PICK acc \in Whole(db) : acc = r[x]
    BY <1>2, <2>1
  <2>3. PICK new \in Whole(db) : new = r[n]
    BY <1>2, <2>1
  <2>4. new = WholeStep(db, acc, n)
    BY <1>2, <2>1, <2>2, <2>3
  <2>5. acc.cache \in Cache /\ acc.found \in Found(db) /\ acc.done \in BOOLEAN
    BY DEF Whole
  <2>6. /\ \E d : Searched(db, acc.cache, acc.found, d)
        /\ \A j \in DOMAIN db : db[j].tick <= x \/ acc.done => Marked(db, acc.found, j)
    BY <1>6, <2>2
  <2>7. CASE acc.done
    <3>1. new = acc
      BY <2>4, <2>7 DEF WholeStep
    <3> QED
      BY <2>1, <2>3, <2>6, <2>7, <3>1
  <2>8. CASE ~acc.done
    <3>1. PICK fb : fb = Search(db, acc.cache, n)
      OBVIOUS
    <3>2. new.cache = fb.cache /\ new.found = acc.found \cup fb.found /\ (new.done => AllDone(fb.cache))
      BY <2>4, <2>8, <3>1 DEF WholeStep
    <3>3. PICK d : Searched(db, acc.cache, acc.found, d)
      BY <2>6
    <3>4. \A j \in DOMAIN db : db[j].tick < n => Marked(db, acc.found, j)
      BY <1>4, <2>1, <2>6
    <3>5. PICK e : /\ Searched(db, Search(db, acc.cache, n).cache, acc.found \cup Search(db, acc.cache, n).found, e)
                   /\ \A j \in DOMAIN db : db[j].tick <= n => Marked(db, acc.found \cup Search(db, acc.cache, n).found, j)
      BY <1>3, <2>5, <3>3, <3>4, SearchRight
    <3>6. Searched(db, new.cache, new.found, e) /\ \A j \in DOMAIN db : db[j].tick <= n => Marked(db, new.found, j)
      BY <3>1, <3>2, <3>5
    <3>7. ASSUME new.done, NEW j \in DOMAIN db PROVE Marked(db, new.found, j)
      <4>1. AllDone(new.cache) /\ new.cache \in Cache
        BY <3>2, <3>7 DEF Whole
      <4> QED
        BY <1>3, <3>6, <4>1, AllDoneRight
    <3> QED
      BY <2>1, <2>3, <3>6, <3>7
  <2> QED
    BY <2>5, <2>7, <2>8
<1>7. ASSUME NEW x \in Nat, x \in T PROVE x + 1 \in T
  <2>1. x + 1 <= MaxTick => x <= MaxTick
    BY <1>4
  <2> HIDE DEF At
  <2>2. x + 1 <= MaxTick => At(x + 1)
    BY <1>6, <1>7, <2>1
  <2> QED
    BY <2>2
<1>8. MaxTick \in T
  <2> HIDE DEF T
  <2> QED
    BY <1>4, <1>5, <1>7, NatsBy
<1>9. At(MaxTick)
  <2> HIDE DEF At
  <2> QED
    BY <1>4, <1>8
<1>10. PICK F : F = MultiRecomputation(db)
  OBVIOUS
<1>11. \A x \in F : x[2] = Level(db, x[1])
  BY <1>1, <1>9, <1>10 DEF Searched
<1>12. \A i \in DOMAIN db : Marked(db, F, i)
  BY <1>1, <1>4, <1>9, <1>10
<1> QED
  BY <1>10, <1>11, <1>12

(* Recording what was found marks the rows that were found and no others.  *)
LEMMA RecordRight ==
  ASSUME NEW db, Table(db), NEW found \in Found(db), \A x \in found : x[2] = Level(db, x[1]), NEW i \in DOMAIN db
  PROVE  /\ Record(db, found)[i].fb \in {db[i].fb, Level(db, i)}
         /\ Marked(db, found, i) => Record(db, found)[i].fb = Level(db, i)
<1>1. PICK new : new = Record(db, found)
  OBVIOUS
<1>2. new[i] = IF \E x \in found : x[1] = i THEN [db[i] EXCEPT !.fb = (CHOOSE x \in found : x[1] = i)[2]] ELSE db[i]
  BY <1>1 DEF Record
<1>3. db[i] \in Row
  BY RowOf
<1>4. CASE \E x \in found : x[1] = i
  <2>1. PICK y : y = CHOOSE x \in found : x[1] = i
    OBVIOUS
  <2>2. y \in found /\ y[1] = i
    BY <1>4, <2>1
  <2>3. y[2] = Level(db, i)
    BY <2>2
  <2>4. new[i] = [db[i] EXCEPT !.fb = y[2]]
    BY <1>2, <1>4, <2>1
  <2>5. new[i].fb = y[2]
    BY <1>3, <2>4 DEF Row
  <2> QED
    BY <1>1, <2>3, <2>5
<1>5. CASE ~\E x \in found : x[1] = i
  <2>1. new[i] = db[i]
    BY <1>2, <1>5
  <2>2. <<i, Level(db, i)>> \notin found
    BY <1>5
  <2> QED
    BY <1>1, <2>1, <2>2 DEF Marked
<1> QED
  BY <1>4, <1>5

(* Tables that agree in their first m rows, but for the marks.             *)
Agree(a, b, m) ==
  /\ m \in Nat /\ 1..m \subseteq DOMAIN a /\ 1..m \subseteq DOMAIN b
  /\ \A i \in 1..m : a[i].flag = b[i].flag /\ a[i].by = b[i].by

(* Their rows have the same victims and levels.                            *)
LEMMA AgreeLevel ==
  ASSUME NEW a, Table(a), NEW b, Table(b), algo \in Algorithms, NEW m, Agree(a, b, m)
  PROVE  /\ \A k, t : \A d \in 0..m : VictimsOf(a, k, t, d) = VictimsOf(b, k, t, d)
         /\ \A i \in 1..m : Key(a[i]) = Key(b[i]) /\ Level(a, i) = Level(b, i)
<1>1. PICK A \in Nat, B \in Nat : DOMAIN a = 1..A /\ DOMAIN b = 1..B
  <2>1. \E A \in Nat : DOMAIN a = 1..A
    BY RowOf
  <2>2. \E B \in Nat : DOMAIN b = 1..B
    BY RowOf
  <2> QED
    BY <2>1, <2>2
<1>2. m \in Nat /\ \A i \in 1..m : i \in DOMAIN a /\ i \in DOMAIN b /\ Key(a[i]) = Key(b[i]) /\ a[i].by = b[i].by
                                    /\ a[i].flag = b[i].flag
  BY DEF Agree, Key
<1>3. \A i : i \in DOMAIN a \/ i \in DOMAIN b => i \in Int /\ i >= 1
  BY <1>1
<1>4. ASSUME NEW k, NEW t, NEW d \in 0..m PROVE VictimsOf(a, k, t, d) = VictimsOf(b, k, t, d)
  <2>1. \A j : (j \in DOMAIN a \/ j \in DOMAIN b) /\ j <= d => j \in 1..m
    BY <1>2, <1>3
  <2>2. PICK S : S = {j \in DOMAIN a : j <= d /\ Key(a[j]) = k /\ a[j].by = t}
    OBVIOUS
  <2>3. S = {j \in DOMAIN b : j <= d /\ Key(b[j]) = k /\ b[j].by = t} /\ \A j \in S : a[j].flag.team = b[j].flag.team
    BY <1>2, <2>1, <2>2
  <2>4. VictimsOf(a, k, t, d) = {a[j].flag.team : j \in S} /\ VictimsOf(b, k, t, d) = {b[j].flag.team : j \in S}
    BY <2>2, <2>3 DEF VictimsOf
  <2> QED
    BY <2>3, <2>4
<1>5. ASSUME NEW i \in 1..m PROVE Reached(a, i) = Reached(b, i)
  <2>1. i \in 0..m /\ i \in DOMAIN a /\ i \in DOMAIN b
    BY <1>2
  <2>2. VictimsOf(a, Key(a[i]), a[i].by, i) = VictimsOf(b, Key(b[i]), b[i].by, i)
    BY <1>2, <1>4, <2>1
  <2> QED
    BY <2>1, <2>2, VictimsAre DEF Reached
<1>6. ASSUME NEW i \in 1..m PROVE Level(a, i) = Level(b, i)
  <2>1. i \in DOMAIN a /\ i \in DOMAIN b /\ Reached(a, i) = Reached(b, i)
    BY <1>2, <1>5
  <2>2. \A j : j \in SameKey(a, i) /\ j < i <=> j \in SameKey(b, i) /\ j < i
    <3>1. \A j : (j \in DOMAIN a \/ j \in DOMAIN b) /\ j < i => j \in 1..m
      BY <1>2, <1>3
    <3> QED
      BY <1>2, <3>1 DEF SameKey
  <2>3. \A j \in SameKey(a, i) : j < i => Reached(a, j) = Reached(b, j)
    <3>1. \A j \in SameKey(a, i) : j < i => j \in 1..m
      BY <1>2, <1>3 DEF SameKey
    <3> QED
      BY <1>5, <3>1
  <2>4. Level(a, i) # 0 <=> Level(b, i) # 0
    BY <2>1, <2>2, <2>3, LevelIs
  <2>5. Level(a, i) \in {0, Reached(a, i)} /\ Level(b, i) \in {0, Reached(a, i)}
    BY <2>1, LevelIs
  <2> QED
    BY <2>4, <2>5
<1> QED
  BY <1>2, <1>4, <1>6

(* A cache that fits one of them fits the other.                           *)
LEMMA AgreeFits ==
  ASSUME NEW a, Table(a), NEW b, Table(b), algo \in Algorithms, NEW m, Agree(a, b, m), NEW c, NEW d \in 0..m, CacheFits(a, c, d)
  PROVE  CacheFits(b, c, d)
<1>1. /\ \A k, t : \A e \in 0..m : VictimsOf(a, k, t, e) = VictimsOf(b, k, t, e)
      /\ \A i \in 1..m : Key(a[i]) = Key(b[i]) /\ Level(a, i) = Level(b, i)
  BY AgreeLevel
<1>2. m \in Nat /\ \A i \in 1..m : i \in DOMAIN b
  BY DEF Agree
<1>3. \A j \in DOMAIN a : j <= d => j \in 1..m
  <2>1. PICK N \in Nat : DOMAIN a = 1..N
    BY RowOf
  <2> QED
    BY <1>2, <2>1
<1>4. ASSUME NEW k \in Keys, c.max[k] # 0
      PROVE  \E j \in DOMAIN b : j <= d /\ Key(b[j]) = k /\ Level(b, j) >= c.max[k]
  <2>1. PICK j \in DOMAIN a : j <= d /\ Key(a[j]) = k /\ Level(a, j) >= c.max[k]
    BY <1>4 DEF CacheFits
  <2>2. j \in 1..m
    BY <1>3, <2>1
  <2> QED
    BY <1>1, <1>2, <2>1, <2>2
<1>5. ASSUME NEW k \in Keys, NEW t \in Teams PROVE \E e \in 0..d : c.victims[<<k, t>>] = VictimsOf(b, k, t, e)
  <2>1. PICK e \in 0..d : c.victims[<<k, t>>] = VictimsOf(a, k, t, e)
    BY DEF CacheFits
  <2>2. e \in 0..m
    BY <1>2
  <2> QED
    BY <1>1, <2>1, <2>2
<1> QED
  BY <1>4, <1>5 DEF CacheFits

-----------------------------------------------------------------------------
(* The first bloods.                                                       *)

(* The rows of tick n have their levels.                                   *)
RightIn(db, n) == \A i \in DOMAIN db : db[i].tick = n => db[i].fb = Level(db, i)

(* A cache knows only rows that are marked with their levels.              *)
CacheRight(db, c) ==
  \E d \in 0..Len(db) : CacheFits(db, c, d) /\ \A i \in DOMAIN db : i <= d => db[i].fb = Level(db, i)

(* The rows of a tick with points, or of one that was scored when all its  *)
(* rows were there, have their levels; and the ticks after one of which    *)
(* this is not true have no points yet, but for the last one, which may be *)
(* over while flags of the tick before come in.                            *)
Marks(db, ca, po, ex) ==
  /\ Sorted(db) /\ Honest(db)
  /\ \A p \in {"master", "script"} : CacheRight(db, ca[p])
  /\ \A n \in Ticks : po[n] # None \/ n \in ex => RightIn(db, n)
  /\ \A n, k \in Ticks : ~RightIn(db, n) /\ k > n => po[k] = None \/ (k = MaxTick /\ k = n + 1)

(* Levels do not depend on anything else that a step changes.              *)
LEMMA LevelNext ==
  ASSUME algo' = algo, NEW i
  PROVE  Level(rows, i)' = Level(rows', i)
BY DEF Level, Reached, Victims, SameKey

(* So Marks can be shown for the values after a step.                      *)
LEMMA MarksNext ==
  ASSUME algo' = algo, Marks(rows', cache', points', exact')
  PROVE  Marks(rows, cache, points, exact)'
<1>1. Honest(rows)' /\ Sorted(rows)'
  BY LevelNext DEF Honest, Sorted, Marks
<1>2. \A n : RightIn(rows, n)' <=> RightIn(rows', n)
  BY LevelNext DEF RightIn
<1>3. ASSUME NEW p \in {"master", "script"} PROVE CacheRight(rows, cache[p])'
  BY SMTT(60), LevelNext DEF Marks, CacheRight, CacheFits
<1> QED
  BY <1>1, <1>2, <1>3 DEF Marks

(* A search of process p that adds what it finds to the table.             *)
LEMMA MarksCalculate ==
  ASSUME TypeInv, Marks(rows, cache, points, exact), NEW p \in {"master", "script"}, NEW n \in Ticks, Calculate(p, n)
  PROVE  Marks(rows', cache', points', exact')
<1>1. PICK j \in Ticks : j = FirstMissing(n) /\ (j = 1 \/ points[j - 1] # None)
  BY FirstMissingIs
<1>2. /\ Table(rows) /\ points \in [Ticks -> {None} \cup Points] /\ algo \in Algorithms
      /\ cache \in [{"master", "script"} -> Cache] /\ exact \subseteq Ticks
  BY DEF TypeInv, TableTypes
<1>3. PICK N \in Nat : DOMAIN rows = 1..N /\ N = Len(rows)
  BY <1>2, RowOf
<1>4. MaxTick \in Nat /\ j \in 1..MaxTick /\ \A i \in DOMAIN rows : rows[i].tick \in 1..MaxTick /\ rows[i].tick \in Ticks
  BY <1>2, RowOf, ScoringAssumption DEF Ticks
<1>5. PICK c \in Cache : c = cache[p]
  BY <1>2
<1>6. PICK fb : fb = Search(rows, c, j)
  OBVIOUS
<1>7. rows' = Record(rows, fb.found) /\ cache' = [cache EXCEPT ![p] = fb.cache]
  BY <1>1, <1>5, <1>6 DEF Calculate, Search
<1>8. fb.cache \in Cache /\ fb.found \in Found(rows)
  BY <1>2, <1>6, SearchType DEF Search
<1>9. PICK new : new = rows'
  OBVIOUS
<1>10. Like(new, rows) /\ Table(new)
  BY <1>2, <1>7, <1>8, <1>9, Recorded
<1>11. Sorted(rows) /\ Honest(rows)
  BY DEF Marks
<1>12. ASSUME NEW m \in Ticks, m < j PROVE RightIn(rows, m)
  <2>1. j - 1 \in Ticks /\ points[j - 1] # None /\ m \in 1..MaxTick /\ m <= j - 1
    BY <1>1, <1>4, <1>12 DEF Ticks
  <2>2. CASE m = j - 1
    BY <2>1, <2>2 DEF Marks
  <2>3. CASE m < j - 1
    <3>1. j - 1 # MaxTick /\ j - 1 > m
      BY <1>4, <2>1, <2>3
    <3> QED
      BY <2>1, <3>1 DEF Marks
  <2> QED
    BY <1>4, <2>1, <2>2, <2>3
<1>13. ASSUME NEW i \in DOMAIN rows, rows[i].tick < j PROVE Marked(rows, {}, i)
  BY <1>4, <1>12, <1>13 DEF RightIn, Marked
<1>14. PICK d : Searched(rows, c, {}, d)
  <2>1. PICK d \in 0..Len(rows) : CacheFits(rows, c, d) /\ \A i \in DOMAIN rows : i <= d => rows[i].fb = Level(rows, i)
    BY <1>5 DEF Marks, CacheRight
  <2>2. {} \in Found(rows)
    BY DEF Found
  <2> QED
    BY <2>1, <2>2 DEF Searched, Marked
<1>15. PICK e : /\ Searched(rows, fb.cache, fb.found, e)
                /\ \A i \in DOMAIN rows : rows[i].tick <= j => Marked(rows, fb.found, i)
  <2>1. {} \in Found(rows) /\ \A S : {} \cup S = S
    BY DEF Found
  <2>2. \E e : /\ Searched(rows, Search(rows, c, j).cache, {} \cup Search(rows, c, j).found, e)
               /\ \A i \in DOMAIN rows : rows[i].tick <= j => Marked(rows, {} \cup Search(rows, c, j).found, i)
    BY <1>2, <1>11, <1>13, <1>14, <2>1, SearchRight
  <2> QED
    BY <1>6, <2>1, <2>2
<1>16. \A x \in fb.found : x[2] = Level(rows, x[1])
  BY <1>15 DEF Searched
<1>17. ASSUME NEW i \in DOMAIN rows
       PROVE  /\ new[i].fb \in {rows[i].fb, Level(rows, i)} /\ (Marked(rows, fb.found, i) => new[i].fb = Level(rows, i))
  BY <1>2, <1>7, <1>8, <1>9, <1>16, RecordRight
<1>18. Agree(rows, new, N) /\ Agree(new, rows, N) /\ DOMAIN new = 1..N /\ Len(new) = N
  <2>1. DOMAIN new = 1..N
    BY <1>3, <1>10 DEF Like
  <2>2. Len(new) = N
    <3>1. \E M \in Nat : DOMAIN new = 1..M /\ M = Len(new)
      BY <1>10, RowOf
    <3> QED
      BY <2>1, <3>1
  <2> QED
    BY <1>3, <1>10, <2>1, <2>2 DEF Agree, Like
<1>19. \A i \in 1..N : Level(new, i) = Level(rows, i)
  BY <1>2, <1>10, <1>18, AgreeLevel
<1>20. ASSUME NEW i \in 1..N
       PROVE  /\ rows[i].fb = Level(rows, i) => new[i].fb = Level(new, i)
              /\ rows[i].tick <= j \/ i <= e => new[i].fb = Level(new, i)
              /\ new[i].fb \in {0, Level(new, i)} /\ new[i].tick = rows[i].tick
  <2>1. i \in DOMAIN rows /\ new[i].tick = rows[i].tick /\ rows[i].fb \in {0, Level(rows, i)}
    BY <1>3, <1>10, <1>11 DEF Like, Honest
  <2>2. i <= e => Marked(rows, fb.found, i)
    BY <1>15, <2>1 DEF Searched
  <2> QED
    BY <1>15, <1>17, <1>19, <2>1, <2>2
<1>21. Sorted(new) /\ Honest(new)
  BY <1>3, <1>11, <1>18, <1>20 DEF Sorted, Honest
<1>22. \A m : RightIn(rows, m) => RightIn(new, m)
  BY <1>3, <1>18, <1>20 DEF RightIn
<1>23. \A m \in Ticks : m <= j => RightIn(new, m)
  BY <1>18, <1>20 DEF RightIn
<1>24. ASSUME NEW q \in {"master", "script"} PROVE CacheRight(new, cache'[q])
  <2>1. CASE q = p
    <3>1. cache'[q] = fb.cache
      BY <1>2, <1>7, <2>1
    <3>2. e \in 0..N /\ CacheFits(rows, fb.cache, e)
      BY <1>3, <1>15 DEF Searched
    <3>3. CacheFits(new, fb.cache, e)
      BY <1>2, <1>10, <1>18, <3>2, AgreeFits
    <3> QED
      BY <1>18, <1>20, <3>1, <3>2, <3>3 DEF CacheRight
  <2>2. CASE q # p
    <3>1. cache'[q] = cache[q]
      BY <1>2, <1>7, <2>2
    <3>2. PICK g \in 0..Len(rows) : CacheFits(rows, cache[q], g) /\ \A i \in DOMAIN rows : i <= g => rows[i].fb = Level(rows, i)
      BY DEF Marks, CacheRight
    <3>3. CacheFits(new, cache[q], g)
      BY <1>2, <1>3, <1>10, <1>18, <3>2, AgreeFits
    <3> QED
      BY <1>3, <1>18, <1>20, <3>1, <3>2, <3>3 DEF CacheRight
  <2> QED
    BY <2>1, <2>2
<1>25. points' \in [Ticks -> {None} \cup Points] /\ (\A m \in Ticks : m # j => points'[m] = points[m]) /\ exact' \subseteq exact \cup {j}
  <2>1. points' = [points EXCEPT ![j] = calculate_scoring(j)]
    BY <1>1 DEF Calculate, _save_teampoints
  <2>2. points' \in [Ticks -> {None} \cup Points]
    BY CalculateTypes
  <2>3. exact' \subseteq exact \cup {j}
    BY <1>1 DEF Calculate
  <2> QED
    BY <1>2, <2>1, <2>2, <2>3
<1>26. ASSUME NEW m \in Ticks, points'[m] # None \/ m \in exact' PROVE RightIn(new, m)
  <2>1. CASE m = j
    <3>1. j <= j
      BY <1>4
    <3> QED
      BY <1>23, <2>1, <3>1
  <2>2. CASE m # j
    <3>1. points[m] # None \/ m \in exact
      BY <1>25, <1>26, <2>2
    <3>2. RightIn(rows, m)
      BY <3>1 DEF Marks
    <3> QED
      BY <1>22, <3>2
  <2> QED
    BY <2>1, <2>2
<1>27. ASSUME NEW m \in Ticks, NEW k \in Ticks, ~RightIn(new, m), k > m
       PROVE  points'[k] = None \/ (k = MaxTick /\ k = m + 1)
  <2>1. ~RightIn(rows, m) /\ ~(m <= j)
    BY <1>22, <1>23, <1>27
  <2>2. k # j
    BY <1>4, <1>27, <2>1 DEF Ticks
  <2>3. points'[k] = points[k]
    BY <1>25, <2>2
  <2> QED
    BY <1>27, <2>1, <2>3 DEF Marks
<1>28. Marks(new, cache', points', exact')
  BY <1>21, <1>24, <1>26, <1>27 DEF Marks
<1> QED
  BY <1>9, <1>28

(* What is known of the ticks: points and results are of ticks that are    *)
(* over, and only recreate_ranking.py has a cache of its own.              *)
Over(n) == n < tick \/ tick = MaxTick
ClockInv ==
  /\ past \in [recomputed: BOOLEAN, inorder: BOOLEAN]
  /\ \A n \in Ticks : points[n] # None \/ status[n] # None => Over(n)
  /\ todo # 0 => Over(todo)
  /\ script.pc # "off" => Over(script.end) /\ tool = "recreate"
  /\ tool # "recreate" => cache["script"] = NoCache

(* A table whose rows are those of another, or the first of them.          *)
LEMMA PrefixRight ==
  ASSUME NEW a, Table(a), NEW b, Table(b), algo \in Algorithms, NEW m \in Nat, 1..m \subseteq DOMAIN a, 1..m \subseteq DOMAIN b,
         \A i \in 1..m : a[i] = b[i]
  PROVE  /\ \A i \in 1..m : Level(a, i) = Level(b, i)
         /\ \A c : \A d \in 0..m : CacheFits(a, c, d) => CacheFits(b, c, d)
<1>1. Agree(a, b, m)
  BY DEF Agree
<1>2. \A i \in 1..m : Level(a, i) = Level(b, i)
  BY <1>1, AgreeLevel
<1>3. ASSUME NEW c, NEW d \in 0..m, CacheFits(a, c, d) PROVE CacheFits(b, c, d)
  BY <1>1, <1>3, AgreeFits
<1> QED
  BY <1>2, <1>3

(* A flag that comes in in order.                                          *)
LEMMA MarksSubmit ==
  ASSUME TypeInv, ClockInv, Marks(rows, cache, points, exact), NEW f \in Flags, NEW team \in Teams, NEW t \in Ticks,
         Submit(f, team, t), past'.inorder
  PROVE  Marks(rows', cache', points', exact')
<1>1. Table(rows) /\ algo \in Algorithms /\ tick \in Ticks
  BY DEF TypeInv, TableTypes
<1>2. PICK new : new = rows'
  OBVIOUS
<1>3. PICK N \in Nat : /\ Table(new) /\ DOMAIN rows = 1..N /\ DOMAIN new = 1..(N + 1)
                       /\ \A i \in 1..N : new[i] = rows[i]
                       /\ new[N + 1] = [flag |-> f, by |-> team, tick |-> t, fb |-> 0]
  BY <1>1, <1>2, SubmitTable
<1>4. new[N + 1].tick = t /\ new[N + 1].fb = 0
  BY <1>3
<1>5. points[t] = None /\ \A i \in 1..N : rows[i].tick <= t
  <2>1. past' = [past EXCEPT !.inorder = @ /\ points[t] = None /\ \A r \in ToSet(rows) : r.tick <= t]
    BY DEF Submit
  <2>2. past'.inorder = (past.inorder /\ points[t] = None /\ \A r \in ToSet(rows) : r.tick <= t)
    BY <2>1 DEF ClockInv
  <2>3. points[t] = None /\ \A r \in ToSet(rows) : r.tick <= t
    BY <2>2
  <2> QED
    BY <1>3, <2>3 DEF ToSet
<1>6. points' = points /\ cache' = cache /\ exact' = exact \ t..MaxTick /\ (t = tick \/ t = tick - 1)
  BY DEF Submit
<1>7. MaxTick \in Nat /\ t \in 1..MaxTick /\ tick \in 1..MaxTick /\ \A i \in 1..N : rows[i].tick \in 1..MaxTick
  BY <1>1, <1>3, RowOf, ScoringAssumption DEF Ticks
<1>8. /\ \A i \in 1..N : Level(rows, i) = Level(new, i)
      /\ \A c : \A d \in 0..N : CacheFits(rows, c, d) => CacheFits(new, c, d)
  <2>1. 1..N \subseteq DOMAIN rows /\ 1..N \subseteq DOMAIN new
    BY <1>3
  <2> QED
    BY <1>1, <1>3, <2>1, PrefixRight
<1>9. Len(rows) = N /\ Len(new) = N + 1
  <2>1. \E A \in Nat : DOMAIN rows = 1..A /\ A = Len(rows)
    BY <1>1, RowOf
  <2>2. \E A \in Nat : DOMAIN new = 1..A /\ A = Len(new)
    BY <1>3, RowOf
  <2> QED
    BY <1>3, <2>1, <2>2
<1>10. \A i \in 1..(N + 1) : i \in 1..N \/ i = N + 1
  OBVIOUS
<1>11. Sorted(new)
  <2> SUFFICES ASSUME NEW i \in 1..(N + 1), NEW j \in 1..(N + 1), i <= j PROVE new[i].tick <= new[j].tick
    BY <1>3 DEF Sorted
  <2>1. CASE j \in 1..N
    <3>1. i \in 1..N
      BY <2>1
    <3> QED
      BY <1>3, <2>1, <3>1 DEF Marks, Sorted
  <2>2. CASE j = N + 1
    BY <1>3, <1>4, <1>5, <1>7, <1>10, <2>2
  <2> QED
    BY <1>10, <2>1, <2>2
<1>12. Honest(new)
  BY <1>3, <1>4, <1>8, <1>10 DEF Marks, Honest
<1>13. ASSUME NEW p \in {"master", "script"} PROVE CacheRight(new, cache[p])
  <2>1. PICK d \in 0..N : CacheFits(rows, cache[p], d) /\ \A i \in 1..N : i <= d => rows[i].fb = Level(rows, i)
    BY <1>3, <1>9 DEF Marks, CacheRight
  <2>2. d \in 0..Len(new) /\ \A i \in DOMAIN new : i <= d => i \in 1..N
    BY <1>3, <1>9
  <2> QED
    BY <1>3, <1>8, <2>1, <2>2 DEF CacheRight
<1>14. ASSUME NEW m \in Ticks, m # t, RightIn(rows, m) PROVE RightIn(new, m)
  BY <1>3, <1>4, <1>8, <1>10, <1>14 DEF RightIn
<1>15. ASSUME NEW m \in Ticks, points'[m] # None \/ m \in exact' PROVE RightIn(new, m)
  <2>1. m # t /\ (points[m] # None \/ m \in exact)
    BY <1>5, <1>6, <1>7, <1>15
  <2>2. RightIn(rows, m)
    BY <2>1 DEF Marks
  <2> QED
    BY <1>14, <2>1, <2>2
<1>16. ASSUME NEW m \in Ticks, NEW k \in Ticks, ~RightIn(new, m), k > m
       PROVE  points'[k] = None \/ (k = MaxTick /\ k = m + 1)
  <2>1. CASE m # t
    <3>1. ~RightIn(rows, m)
      BY <1>14, <1>16, <2>1
    <3> QED
      BY <1>6, <1>16, <3>1 DEF Marks
  <2>2. CASE m = t
    <3>1. points[k] # None => k < tick \/ tick = MaxTick
      BY DEF ClockInv, Over
    <3>2. k \in 1..MaxTick
      BY DEF Ticks
    <3> QED
      BY <1>6, <1>7, <1>16, <2>2, <3>1, <3>2
  <2> QED
    BY <2>1, <2>2
<1>17. Marks(new, cache', points', exact')
  BY <1>6, <1>11, <1>12, <1>13, <1>15, <1>16 DEF Marks
<1> QED
  BY <1>2, <1>17

(* A reset: what is left is the beginning of the table.                    *)
LEMMA MarksReset ==
  ASSUME TypeInv, ClockInv, Marks(rows, cache, points, exact), NEW n \in Ticks, reset_database(n)
  PROVE  Marks(rows', cache', points', exact')
<1>1. Table(rows) /\ algo \in Algorithms /\ cache \in [{"master", "script"} -> Cache]
  BY DEF TypeInv, TableTypes
<1>2. PICK N \in Nat : DOMAIN rows = 1..N /\ N = Len(rows)
  BY <1>1, RowOf
<1>3. MaxTick \in Nat /\ n \in 1..MaxTick /\ \A i \in 1..N : rows[i].tick \in 1..MaxTick
  BY <1>1, <1>2, RowOf, ScoringAssumption DEF Ticks
<1>4. PICK is : is = RowsIn(rows, 1..n)
  OBVIOUS
<1>5. Indices(is, rows, 1..n)
  BY <1>2, <1>4, RowsInAre
<1>6. PICK m \in Nat : m = Len(is)
  BY <1>5 DEF Indices
<1>7. /\ is \in [1..m -> 1..N] /\ \A i \in 1..m : rows[is[i]].tick \in 1..n
      /\ \A i, j \in 1..m : i < j => is[i] < is[j]
      /\ \A x \in 1..N : rows[x].tick \in 1..n => \E i \in 1..m : is[i] = x
  BY <1>2, <1>5, <1>6 DEF Indices
<1>8. \A i \in 1..m : is[i] = i
  <2> DEFINE T == {i \in 1..m : is[i] # i}
  <2> SUFFICES ASSUME NEW y \in T PROVE FALSE
    OBVIOUS
  <2>1. T \in SUBSET Nat
    OBVIOUS
  <2>2. PICK i \in T : \A k \in T : i <= k
    BY <2>1, LeastNat
  <2>3. i \in 1..m /\ is[i] # i /\ \A k \in 1..m : k < i => is[k] = k
    BY <2>2
  <2> HIDE DEF T
  <2>4. is[i] \in 1..N /\ is[i] > i
    <3>1. is[i] \in 1..N
      BY <1>7, <2>3
    <3>2. CASE i = 1
      BY <2>3, <3>1, <3>2
    <3>3. CASE i # 1
      <4>1. i - 1 \in 1..m /\ i - 1 < i
        BY <2>3, <3>3
      <4>2. is[i - 1] = i - 1 /\ is[i - 1] < is[i]
        BY <1>7, <2>3, <4>1
      <4> QED
        BY <2>3, <3>1, <4>1, <4>2
    <3> QED
      BY <3>1, <3>2, <3>3
  <2>5. i \in 1..N /\ i <= is[i]
    BY <2>3, <2>4
  <2>6. rows[i].tick \in 1..n
    <3>1. rows[i].tick <= rows[is[i]].tick
      BY <1>2, <2>4, <2>5 DEF Marks, Sorted
    <3>2. rows[is[i]].tick \in 1..n /\ rows[i].tick \in 1..MaxTick
      BY <1>3, <1>7, <2>3, <2>5
    <3> QED
      BY <1>3, <3>1, <3>2
  <2>7. PICK x \in 1..m : is[x] = i
    BY <1>7, <2>5, <2>6
  <2>8. ~(x < i)
    BY <2>3, <2>7
  <2>9. x # i
    BY <2>3, <2>7
  <2>10. i < x
    BY <2>3, <2>8, <2>9
  <2>11. is[i] < i
    BY <1>7, <2>3, <2>7, <2>10
  <2> QED
    BY <2>3, <2>4, <2>11
<1>9. PICK new : new = rows'
  OBVIOUS
<1>10. new = [i \in 1..m |-> rows[is[i]]]
  <2>1. rows' = [i \in DOMAIN is |-> rows[is[i]]] /\ DOMAIN is = 1..m
    BY <1>4, <1>7 DEF reset_database
  <2> QED
    BY <1>9, <2>1
<1>11. DOMAIN new = 1..m /\ \A i \in 1..m : new[i] = rows[i] /\ i \in 1..N
  BY <1>7, <1>8, <1>10
<1>12. Table(new)
  BY <1>1, <1>9, ResetTable
<1>13. \A i \in 1..m : Level(rows, i) = Level(new, i)
  BY <1>1, <1>2, <1>11, <1>12, PrefixRight
<1>14. Sorted(new) /\ Honest(new)
  BY <1>2, <1>11, <1>13 DEF Marks, Sorted, Honest
<1>15. \A k : RightIn(rows, k) => RightIn(new, k)
  BY <1>2, <1>11, <1>13 DEF RightIn
<1>16. CacheRight(new, NoCache)
  <2>1. CacheFits(new, NoCache, 0) /\ Searched(new, NoCache, {}, 0)
    BY <1>12, NothingSearched
  <2>2. 0 \in 0..Len(new) /\ \A i \in DOMAIN new : ~(i <= 0)
    BY <1>11, <2>1 DEF Searched
  <2> QED
    BY <2>1, <2>2 DEF CacheRight
<1>17. cache'["master"] = NoCache /\ cache'["script"] = NoCache
  <2>1. cache' = [cache EXCEPT !["master"] = NoCache] /\ tool = "reset"
    BY DEF reset_database
  <2>2. cache["script"] = NoCache
    BY <2>1 DEF ClockInv
  <2> QED
    BY <1>1, <2>1, <2>2
<1>18. \A p \in {"master", "script"} : CacheRight(new, cache'[p])
  BY <1>16, <1>17
<1>19. \A k \in Ticks : points'[k] = None \/ points'[k] = points[k]
  BY DEF reset_database
<1>20. exact' \subseteq exact
  BY DEF reset_database
<1>21. ASSUME NEW k \in Ticks, points'[k] # None \/ k \in exact' PROVE RightIn(new, k)
  <2>1. points[k] # None \/ k \in exact
    BY <1>19, <1>20, <1>21
  <2>2. RightIn(rows, k)
    BY <2>1 DEF Marks
  <2> QED
    BY <1>15, <2>2
<1>22. ASSUME NEW i \in Ticks, NEW k \in Ticks, ~RightIn(new, i), k > i
       PROVE  points'[k] = None \/ (k = MaxTick /\ k = i + 1)
  <2>1. ~RightIn(rows, i)
    BY <1>15, <1>22
  <2>2. points[k] = None \/ (k = MaxTick /\ k = i + 1)
    BY <1>22, <2>1 DEF Marks
  <2> QED
    BY <1>19, <2>2
<1>23. Marks(new, cache', points', exact')
  BY <1>14, <1>18, <1>21, <1>22 DEF Marks
<1> QED
  BY <1>9, <1>23

(* recreate_firstblood.py gives every row its level.                       *)
LEMMA MarksRecompute ==
  ASSUME TypeInv, Marks(rows, cache, points, exact), algo[2] = "multi", recompute_first_blood_flags
  PROVE  Marks(rows', cache', points', exact')
<1>1. Table(rows) /\ algo \in Algorithms
  BY DEF TypeInv, TableTypes
<1>2. PICK N \in Nat : DOMAIN rows = 1..N /\ N = Len(rows)
  BY <1>1, RowOf
<1>3. PICK db : db = Unmarked
  OBVIOUS
<1>4. db \in [DOMAIN rows -> Row] /\ Like(db, rows) /\ \A i \in DOMAIN rows : db[i].fb = 0
  <2>1. \A i \in DOMAIN rows : rows[i] \in Row
    BY <1>1, RowOf
  <2>2. \A r \in Row : LET q == [r EXCEPT !.fb = 0] IN q \in Row /\ q.flag = r.flag /\ q.by = r.by /\ q.tick = r.tick
    BY TeamSets DEF Row
  <2>3. DOMAIN db = DOMAIN rows /\ \A i \in DOMAIN rows : db[i] = [rows[i] EXCEPT !.fb = 0]
    BY <1>3 DEF Unmarked
  <2>4. db \in [DOMAIN rows -> Row]
    BY <1>3, <2>1, <2>2 DEF Unmarked
  <2>5. Like(db, rows)
    BY <2>1, <2>2, <2>3, <2>4 DEF Like
  <2>6. ASSUME NEW i \in DOMAIN rows PROVE db[i].fb = 0
    <3>1. PICK r \in Row : r = rows[i]
      BY <2>1
    <3>2. [r EXCEPT !.fb = 0].fb = 0
      BY DEF Row
    <3>3. db[i] = [r EXCEPT !.fb = 0]
      BY <2>3, <3>1
    <3> QED
      BY <3>2, <3>3
  <2> QED
    BY <2>4, <2>5, <2>6
<1>5. Table(db)
  BY <1>1, <1>4, LikeTable
<1>6. DOMAIN db = 1..N /\ \A i \in 1..N : db[i].fb = 0 /\ db[i].tick = rows[i].tick
  BY <1>2, <1>4 DEF Like
<1>7. Sorted(db)
  BY <1>2, <1>6 DEF Sorted, Marks
<1>8. PICK F : F = MultiRecomputation(db)
  OBVIOUS
<1>9. F \in Found(db)
  BY <1>5, <1>8, RecomputationType
<1>10. (\A x \in F : x[2] = Level(db, x[1])) /\ \A i \in DOMAIN db : Marked(db, F, i)
  BY <1>1, <1>5, <1>6, <1>7, <1>8, RecomputationRight
<1>11. PICK new : new = rows' /\ new = Record(db, F)
  BY <1>3, <1>8 DEF recompute_first_blood_flags
<1>12. Like(new, db) /\ Table(new)
  BY <1>5, <1>9, <1>11, Recorded
<1>13. DOMAIN new = 1..N /\ \A i \in 1..N : new[i].tick = rows[i].tick /\ new[i].flag = rows[i].flag /\ new[i].by = rows[i].by
  BY <1>2, <1>4, <1>12 DEF Like
<1>14. Agree(db, new, N) /\ Agree(rows, new, N)
  BY <1>2, <1>6, <1>12, <1>13 DEF Agree, Like
<1>15. ASSUME NEW i \in 1..N PROVE new[i].fb = Level(new, i)
  <2>1. new[i].fb = Level(db, i)
    BY <1>5, <1>6, <1>9, <1>10, <1>11, RecordRight
  <2>2. Level(db, i) = Level(new, i)
    BY <1>1, <1>5, <1>12, <1>14, AgreeLevel
  <2> QED
    BY <2>1, <2>2
<1>16. Sorted(new) /\ Honest(new)
  BY <1>2, <1>13, <1>15 DEF Sorted, Honest, Marks
<1>17. \A n : RightIn(new, n)
  BY <1>13, <1>15 DEF RightIn
<1>18. Len(new) = N
  <2>1. \E A \in Nat : DOMAIN new = 1..A /\ A = Len(new)
    BY <1>12, RowOf
  <2> QED
    BY <1>13, <2>1
<1>19. ASSUME NEW p \in {"master", "script"} PROVE CacheRight(new, cache[p])
  <2>1. PICK d \in 0..N : CacheFits(rows, cache[p], d)
    BY <1>2 DEF Marks, CacheRight
  <2>2. CacheFits(new, cache[p], d)
    BY <1>1, <1>12, <1>14, <2>1, AgreeFits
  <2> QED
    BY <1>13, <1>15, <1>18, <2>2 DEF CacheRight
<1>20. cache' = cache
  BY DEF recompute_first_blood_flags
<1>21. Marks(new, cache', points', exact')
  BY <1>16, <1>17, <1>19, <1>20 DEF Marks
<1> QED
  BY <1>11, <1>21

(* A cache that is dropped and points that are deleted.                    *)
LEMMA MarksLess ==
  ASSUME NEW db, Table(db), NEW ca, NEW po, NEW ex, Marks(db, ca, po, ex), NEW cb, NEW pb,
         \A p \in {"master", "script"} : cb[p] = ca[p] \/ cb[p] = NoCache, \A n \in Ticks : pb[n] = po[n] \/ pb[n] = None
  PROVE  Marks(db, cb, pb, ex)
<1>1. CacheRight(db, NoCache)
  <2>1. CacheFits(db, NoCache, 0) /\ Searched(db, NoCache, {}, 0)
    BY NothingSearched
  <2>2. PICK N \in Nat : DOMAIN db = 1..N /\ N = Len(db)
    BY RowOf
  <2>3. 0 \in 0..Len(db) /\ \A i \in DOMAIN db : ~(i <= 0)
    BY <2>2
  <2> QED
    BY <2>1, <2>3 DEF CacheRight
<1>2. \A p \in {"master", "script"} : CacheRight(db, cb[p])
  BY <1>1 DEF Marks
<1>3. \A n \in Ticks : pb[n] # None \/ n \in ex => RightIn(db, n)
  BY DEF Marks
<1>4. \A n, k \in Ticks : ~RightIn(db, n) /\ k > n => pb[k] = None \/ (k = MaxTick /\ k = n + 1)
  BY DEF Marks
<1> QED
  BY <1>2, <1>3, <1>4 DEF Marks

(* The property is about tables that came in in order, of the default      *)
(* algorithm when they were not computed again.                            *)
Plain == past.inorder /\ (algo[2] = "multi" \/ ~past.recomputed)
MarksInv == Plain => Marks(rows, cache, points, exact)

(* The transactions of the scoring score ticks that are over.              *)
LEMMA ClockCalculate ==
  ASSUME TypeInv, ClockInv, NEW p \in {"master", "script"}, NEW n \in Ticks, Over(n), Calculate(p, n)
  PROVE  /\ \A k \in Ticks : points'[k] # None => Over(k)
         /\ p = "master" => cache'["script"] = cache["script"]
<1>1. PICK j \in Ticks : j = FirstMissing(n) /\ j \in 1..n
  BY FirstMissingIs
<1>2. /\ points \in [Ticks -> {None} \cup Points] /\ cache \in [{"master", "script"} -> Cache] /\ tick \in Ticks
  BY DEF TypeInv, TableTypes
<1>3. points' = [points EXCEPT ![j] = calculate_scoring(j)]
  BY <1>1 DEF Calculate, _save_teampoints
<1>4. Over(j)
  <2>1. MaxTick \in Nat
    BY ScoringAssumption
  <2> QED
    BY <1>1, <1>2, <2>1 DEF Over, Ticks
<1>5. ASSUME NEW k \in Ticks, points'[k] # None PROVE Over(k)
  <2>1. k = j \/ points[k] # None
    BY <1>2, <1>3, <1>5
  <2> QED
    BY <1>4, <2>1 DEF ClockInv
<1>6. p = "master" => cache'["script"] = cache["script"]
  BY <1>2 DEF Calculate
<1> QED
  BY <1>5, <1>6

(* The next step leaves the clock right.                                   *)
LEMMA NextClock ==
  ASSUME TypeInv, ClockInv, [Next]_vars
  PROVE  ClockInv'
<1>1. /\ ScriptType /\ tick \in Ticks /\ todo \in 0..MaxTick /\ cache \in [{"master", "script"} -> Cache]
      /\ points \in [Ticks -> {None} \cup Points] /\ status \in [Ticks -> {None} \cup Results]
  BY DEF TypeInv, TableTypes
<1>2. MaxTick \in Nat /\ MaxTick # 0
  BY ScoringAssumption
<1>3. todo # 0 => todo \in Ticks
  BY <1>1, <1>2 DEF Ticks
<1>4. tick' = tick => \A n : Over(n)' <=> Over(n)
  BY DEF Over
<1>5. past \in [recomputed: BOOLEAN, inorder: BOOLEAN]
  BY DEF ClockInv
<1>6. ASSUME NEW f \in Flags, NEW team \in Teams, NEW t \in Ticks, Submit(f, team, t) PROVE ClockInv'
  <2>1. /\ script' = [script EXCEPT !.clean = FALSE] /\ UNCHANGED <<tick, status, points, todo, cache, tool>>
        /\ past' = [past EXCEPT !.inorder = @ /\ points[t] = None /\ \A r \in ToSet(rows) : r.tick <= t]
    BY <1>6 DEF Submit
  <2>2. past' \in [recomputed: BOOLEAN, inorder: BOOLEAN]
    BY <1>5, <2>1
  <2>3. script'.pc = script.pc /\ script'.end = script.end
    BY <1>1, <2>1 DEF ScriptType
  <2> QED
    BY <1>4, <2>1, <2>2, <2>3 DEF ClockInv
<1>7. ASSUME NEW result \in Outcomes, EndTick(result) PROVE ClockInv'
  <2>1. /\ status' = [status EXCEPT ![tick] = result] /\ todo' = tick
        /\ tick' = IF tick < MaxTick THEN tick + 1 ELSE tick
        /\ UNCHANGED <<points, cache, script, tool, past>>
    BY <1>7 DEF EndTick
  <2>2. \A n \in Int : Over(n) => Over(n)'
    BY <1>1, <1>2, <2>1 DEF Over, Ticks
  <2>3. \A n \in Ticks : points'[n] # None \/ status'[n] # None => Over(n)'
    <3> SUFFICES ASSUME NEW n \in Ticks, points'[n] # None \/ status'[n] # None PROVE Over(n)'
      OBVIOUS
    <3>1. n = tick \/ points[n] # None \/ status[n] # None
      BY <1>1, <2>1
    <3>2. n \in Int
      BY <1>2 DEF Ticks
    <3>3. CASE n = tick
      BY <1>1, <1>2, <2>1, <3>3 DEF Over, Ticks
    <3> QED
      BY <2>2, <3>1, <3>2, <3>3 DEF ClockInv
  <2>4. todo' # 0 => Over(todo)'
    BY <1>1, <1>2, <2>1 DEF Over, Ticks
  <2>5. script.end \in Int
    BY <1>1, <1>2 DEF ScriptType
  <2>6. script'.pc # "off" => Over(script.end)' /\ tool' = "recreate"
    <3>1. script.pc # "off" => Over(script.end) /\ tool = "recreate"
      BY DEF ClockInv
    <3>2. Over(script.end) => Over(script.end)'
      BY <1>1, <1>2, <2>1, <2>5 DEF Over, Ticks
    <3> QED
      BY <2>1, <3>1, <3>2
  <2> QED
    BY <2>1, <2>3, <2>4, <2>6 DEF ClockInv
<1>8. ASSUME ScoreTick \/ PointsForRanking PROVE ClockInv'
  <2>1. Calculate("master", todo) /\ todo \in Ticks /\ Over(todo)
    BY <1>3, <1>8 DEF ScoreTick, PointsForRanking, ClockInv
  <2>2. UNCHANGED <<tick, status, todo, script, tool, past>>
    BY <1>8 DEF ScoreTick, PointsForRanking
  <2>3. /\ \A k \in Ticks : points'[k] # None => Over(k)
        /\ cache'["script"] = cache["script"]
    BY <2>1, ClockCalculate
  <2> QED
    BY <1>4, <2>2, <2>3 DEF ClockInv
<1>9. ASSUME ScoreTickFails PROVE ClockInv'
  <2>1. /\ todo' \in {0, todo} /\ cache' = [cache EXCEPT !["master"] = NoCache]
        /\ UNCHANGED <<tick, status, points, script, tool, past>>
    BY <1>9 DEF ScoreTickFails, CalculateFails, tables
  <2>2. cache'["script"] = cache["script"]
    BY <1>1, <2>1
  <2> QED
    BY <1>4, <2>1, <2>2 DEF ClockInv
<1>10. ASSUME RankTick PROVE ClockInv'
  <2>1. todo' = 0 /\ UNCHANGED <<tick, status, points, script, cache, tool, past>>
    BY <1>10 DEF RankTick
  <2> QED
    BY <1>4, <2>1 DEF ClockInv
<1>11. ASSUME NEW n \in Ticks, RecreateStart(n) PROVE ClockInv'
  <2>1. /\ script' = [pc |-> "delete", rn |-> n, end |-> LastOver, clean |-> n = 1] /\ tool = "recreate"
        /\ UNCHANGED <<tick, status, points, todo, tool, past>>
    BY <1>11 DEF RecreateStart, tables
  <2>2. Over(LastOver)
    <3>1. CASE status[tick] = None
      BY <1>1, <1>2, <3>1 DEF LastOver, Over, Ticks
    <3>2. CASE status[tick] # None
      BY <1>1, <3>2 DEF LastOver, ClockInv
    <3> QED
      BY <3>1, <3>2
  <2>3. script'.end = LastOver
    BY <2>1
  <2>4. Over(script.end)'
    BY <2>1, <2>2, <2>3 DEF Over
  <2> QED
    BY <1>4, <2>1, <2>4 DEF ClockInv
<1>12. ASSUME RecreateDelete PROVE ClockInv'
  <2>1. /\ script.pc = "delete" /\ script' = [script EXCEPT !.pc = "score"]
        /\ points' = [points EXCEPT ![script.rn] = None]
        /\ UNCHANGED <<tick, status, todo, cache, tool, past>>
    BY <1>12 DEF RecreateDelete
  <2>2. script'.end = script.end
    BY <1>1, <2>1 DEF ScriptType
  <2>3. \A k \in Ticks : points'[k] # None => points[k] # None
    BY <1>1, <2>1
  <2> QED
    BY <1>4, <2>1, <2>2, <2>3 DEF ClockInv
<1>13. ASSUME RecreateScore PROVE ClockInv'
  <2>1. script.pc = "score" /\ Calculate("script", script.rn)
    BY <1>13 DEF RecreateScore
  <2>2. /\ script' = [script EXCEPT !.pc = IF FirstMissing(script.rn) = script.rn THEN "rank" ELSE "score"]
        /\ UNCHANGED <<tick, status, todo, tool, past>>
    BY <1>13 DEF RecreateScore
  <2>3. Over(script.end) /\ tool = "recreate"
    BY <2>1 DEF ClockInv
  <2>4. script.rn \in Ticks /\ Over(script.rn)
    BY <1>1, <1>2, <2>1, <2>3 DEF Over, Ticks, ScriptType
  <2>5. \A k \in Ticks : points'[k] # None => Over(k)
    BY <2>1, <2>4, ClockCalculate
  <2>6. script'.end = script.end
    BY <1>1, <2>2 DEF ScriptType
  <2> QED
    BY <1>4, <2>2, <2>3, <2>5, <2>6 DEF ClockInv
<1>14. ASSUME RecreateRank PROVE ClockInv'
  <2>1. /\ script.pc = "rank" /\ UNCHANGED <<tick, status, points, todo, cache, tool, past>>
        /\ script' = [script EXCEPT !.rn = @ + 1, !.pc = IF script.rn = script.end THEN "done" ELSE "delete"]
    BY <1>14 DEF RecreateRank
  <2>2. script'.end = script.end
    BY <1>1, <2>1 DEF ScriptType
  <2> QED
    BY <1>4, <2>1, <2>2 DEF ClockInv
<1>15. ASSUME recompute_first_blood_flags PROVE ClockInv'
  <2>1. past' = [past EXCEPT !.recomputed = TRUE] /\ UNCHANGED <<tick, status, points, todo, script, cache, tool>>
    BY <1>15 DEF recompute_first_blood_flags
  <2>2. past' \in [recomputed: BOOLEAN, inorder: BOOLEAN]
    BY <1>5, <2>1
  <2> QED
    BY <1>4, <2>1, <2>2 DEF ClockInv
<1>16. ASSUME NEW n \in Ticks, reset_database(n) PROVE ClockInv'
  <2>1. /\ status' = [k \in Ticks |-> IF k > n THEN None ELSE status[k]]
        /\ points' = [k \in Ticks |-> IF k > n THEN None ELSE points[k]]
        /\ cache' = [cache EXCEPT !["master"] = NoCache] /\ tick' = n + 1
        /\ todo = 0 /\ script.pc = "off" /\ UNCHANGED <<todo, script, tool, past>>
    BY <1>16 DEF reset_database
  <2>2. cache'["script"] = cache["script"]
    BY <1>1, <2>1
  <2>3. \A k \in Ticks : points'[k] # None \/ status'[k] # None => Over(k)'
    <3> SUFFICES ASSUME NEW k \in Ticks, points'[k] # None \/ status'[k] # None PROVE Over(k)'
      OBVIOUS
    <3>1. k <= n
      BY <1>2, <2>1 DEF Ticks
    <3> QED
      BY <1>2, <2>1, <3>1 DEF Over, Ticks
  <2> QED
    BY <2>1, <2>2, <2>3 DEF ClockInv
<1>17. CASE UNCHANGED vars
  <2>1. UNCHANGED <<tick, status, points, todo, script, cache, tool, past>>
    BY <1>17 DEF vars, tables
  <2> QED
    BY <1>4, <2>1 DEF ClockInv
<1> QED
  BY <1>6, <1>7, <1>8, <1>9, <1>10, <1>11, <1>12, <1>13, <1>14, <1>15, <1>16, <1>17 DEF Next

(* The next step leaves the marks right.                                   *)
LEMMA NextMarks ==
  ASSUME TypeInv, ClockInv, MarksInv, [Next]_vars
  PROVE  MarksInv'
<1> SUFFICES ASSUME Plain' PROVE Marks(rows, cache, points, exact)'
  BY DEF MarksInv
<1>1. /\ Table(rows) /\ ScriptType /\ todo \in 0..MaxTick /\ cache \in [{"master", "script"} -> Cache]
      /\ points \in [Ticks -> {None} \cup Points]
  BY DEF TypeInv, TableTypes
<1>2. MaxTick \in Nat /\ MaxTick # 0
  BY ScoringAssumption
<1>3. todo # 0 => todo \in Ticks
  BY <1>1, <1>2 DEF Ticks
<1>4. past \in [recomputed: BOOLEAN, inorder: BOOLEAN]
  BY DEF ClockInv
<1>5. past' = past /\ algo' = algo => Marks(rows, cache, points, exact)
  BY DEF Plain, MarksInv
<1>6. ASSUME NEW f \in Flags, NEW team \in Teams, NEW t \in Ticks, Submit(f, team, t)
      PROVE  Marks(rows, cache, points, exact)'
  <2>1. past' = [past EXCEPT !.inorder = @ /\ points[t] = None /\ \A r \in ToSet(rows) : r.tick <= t] /\ algo' = algo
    BY <1>6 DEF Submit
  <2>2. past'.inorder => past.inorder
    BY <1>4, <2>1
  <2>3. past'.recomputed = past.recomputed
    BY <1>4, <2>1
  <2>4. Marks(rows, cache, points, exact) /\ past'.inorder
    BY <2>1, <2>2, <2>3 DEF Plain, MarksInv
  <2> QED
    BY <1>6, <2>1, <2>4, MarksSubmit, MarksNext
<1>7. ASSUME ScoreTick \/ PointsForRanking PROVE Marks(rows, cache, points, exact)'
  <2>1. Calculate("master", todo) /\ todo \in Ticks
    BY <1>3, <1>7 DEF ScoreTick, PointsForRanking
  <2>2. UNCHANGED <<algo, past>>
    BY <1>7 DEF ScoreTick, PointsForRanking
  <2> QED
    BY <1>5, <2>1, <2>2, MarksCalculate, MarksNext
<1>8. ASSUME RecreateScore PROVE Marks(rows, cache, points, exact)'
  <2>1. script.pc = "score" /\ Calculate("script", script.rn) /\ UNCHANGED <<algo, past>>
    BY <1>8 DEF RecreateScore
  <2>2. script.rn \in Ticks
    BY <1>1, <1>2, <2>1 DEF Ticks, ScriptType
  <2> QED
    BY <1>5, <2>1, <2>2, MarksCalculate, MarksNext
<1>9. ASSUME recompute_first_blood_flags PROVE Marks(rows, cache, points, exact)'
  <2>1. past' = [past EXCEPT !.recomputed = TRUE] /\ algo' = algo
    BY <1>9 DEF recompute_first_blood_flags
  <2>2. past'.recomputed /\ past'.inorder = past.inorder
    BY <1>4, <2>1
  <2>3. algo[2] = "multi" /\ Marks(rows, cache, points, exact)
    BY <2>1, <2>2 DEF Plain, MarksInv
  <2> QED
    BY <1>9, <2>1, <2>3, MarksRecompute, MarksNext
<1>10. ASSUME NEW n \in Ticks, reset_database(n) PROVE Marks(rows, cache, points, exact)'
  <2>1. UNCHANGED <<algo, past>>
    BY <1>10 DEF reset_database
  <2> QED
    BY <1>5, <1>10, <2>1, MarksReset, MarksNext
<1>11. ASSUME UNCHANGED <<rows, exact, algo, past>>,
              \A p \in {"master", "script"} : cache'[p] = cache[p] \/ cache'[p] = NoCache,
              \A n \in Ticks : points'[n] = points[n] \/ points'[n] = None
       PROVE  Marks(rows, cache, points, exact)'
  <2>1. Marks(rows, cache, points, exact)
    BY <1>5, <1>11
  <2>2. Marks(rows, cache', points', exact)
    BY <1>1, <1>11, <2>1, MarksLess
  <2> QED
    BY <1>11, <2>2, MarksNext
<1>12. ASSUME NEW result \in Outcomes, EndTick(result) PROVE Marks(rows, cache, points, exact)'
  BY <1>11, <1>12 DEF EndTick
<1>13. ASSUME ScoreTickFails PROVE Marks(rows, cache, points, exact)'
  <2>1. cache' = [cache EXCEPT !["master"] = NoCache] /\ UNCHANGED <<rows, points, algo, past, exact>>
    BY <1>13 DEF ScoreTickFails, CalculateFails, tables
  <2>2. \A p \in {"master", "script"} : cache'[p] = cache[p] \/ cache'[p] = NoCache
    BY <1>1, <2>1
  <2> QED
    BY <1>11, <2>1, <2>2
<1>14. ASSUME RankTick \/ RecreateRank PROVE Marks(rows, cache, points, exact)'
  BY <1>11, <1>14 DEF RankTick, RecreateRank
<1>15. ASSUME NEW n \in Ticks, RecreateStart(n) PROVE Marks(rows, cache, points, exact)'
  <2>1. cache' = [cache EXCEPT !["script"] = NoCache] /\ UNCHANGED <<rows, points, algo, past, exact>>
    BY <1>15 DEF RecreateStart, tables
  <2>2. \A p \in {"master", "script"} : cache'[p] = cache[p] \/ cache'[p] = NoCache
    BY <1>1, <2>1
  <2> QED
    BY <1>11, <2>1, <2>2
<1>16. ASSUME RecreateDelete PROVE Marks(rows, cache, points, exact)'
  <2>1. points' = [points EXCEPT ![script.rn] = None] /\ UNCHANGED <<rows, cache, algo, past, exact>>
    BY <1>16 DEF RecreateDelete
  <2>2. \A n \in Ticks : points'[n] = points[n] \/ points'[n] = None
    BY <1>1, <2>1
  <2> QED
    BY <1>11, <2>1, <2>2
<1>17. CASE UNCHANGED vars
  BY <1>11, <1>17 DEF vars, tables
<1> QED
  BY <1>6, <1>7, <1>8, <1>9, <1>10, <1>12, <1>13, <1>14, <1>15, <1>16, <1>17 DEF Next

(* A new game has no rows and no points.                                   *)
LEMMA InitMarks ==
  ASSUME Init
  PROVE  ClockInv /\ MarksInv
<1>1. TypeInv /\ Table(rows)
  BY InitTypes DEF TypeInv, TableTypes
<1>2. ClockInv
  BY DEF Init, ClockInv, NoScript
<1>3. DOMAIN rows = {} /\ Len(rows) = 0
  BY DEF Init
<1>4. CacheRight(rows, NoCache)
  BY <1>1, <1>3, NothingSearched DEF CacheRight
<1>5. \A p \in {"master", "script"} : cache[p] = NoCache
  BY DEF Init
<1>6. Sorted(rows) /\ Honest(rows) /\ \A n : RightIn(rows, n)
  BY <1>3 DEF Sorted, Honest, RightIn
<1>7. Marks(rows, cache, points, exact)
  BY <1>4, <1>5, <1>6 DEF Marks
<1> QED
  BY <1>2, <1>7 DEF MarksInv

(* The first bloods of the scored ticks are the true ones (FirstBloodsRight): *)
(* no failed transaction, repeated or recreated tick, recomputation of the *)
(* multi algorithm or reset loses one or gives one twice, whichever of     *)
(* the two algorithms is configured (get_firstbloods, reset_caches,        *)
(* recompute_first_blood_flags, reset_database).                           *)
THEOREM FirstBloodsCorrect == Spec => []FirstBloodsRight
<1>1. Init => TypeInv /\ ClockInv /\ MarksInv
  BY InitTypes, InitMarks
<1>2. TypeInv /\ ClockInv /\ MarksInv /\ [Next]_vars => TypeInv' /\ ClockInv' /\ MarksInv'
  BY NextTypes, NextClock, NextMarks
<1>3. TypeInv /\ MarksInv => FirstBloodsRight
  <2> SUFFICES ASSUME TypeInv, MarksInv, Plain, NEW i \in DOMAIN rows, rows[i].tick \in exact
               PROVE  rows[i].fb = Level(rows, i)
    BY DEF FirstBloodsRight, Plain
  <2>1. Marks(rows, cache, points, exact) /\ exact \subseteq Ticks
    BY DEF MarksInv, TypeInv
  <2>2. RightIn(rows, rows[i].tick)
    BY <2>1 DEF Marks
  <2> QED
    BY <2>2 DEF RightIn
<1> QED
  BY <1>1, <1>2, <1>3, PTL DEF Spec

============================================================================
