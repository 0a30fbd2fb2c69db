--------------------------- MODULE FoldTheorems ----------------------------
(* Facts the proofs of several components need about operators that go     *)
(* through a set or a sequence element by element: that the recursive      *)
(* functions behind them exist, what sums over finite sets are, and that a *)
(* finite set can be sorted.                                               *)
EXTENDS Integers, FiniteSets, FiniteSetTheorems, WellFoundedInduction, TLAPS

-----------------------------------------------------------------------------
(* Induction, over sets of numbers and of subsets.                         *)

(* A set of numbers has a least one.                                       *)
LEMMA LeastNat ==
  ASSUME NEW T \in SUBSET Nat, NEW m \in T
  PROVE  \E n \in T : \A k \in T : n <= k
<1> DEFINE R == OpToRel(<, Nat)
<1>1. IsWellFoundedOn(R, Nat)
  BY NatLessThanWellFounded
<1>2. \A x \in Nat, y \in Nat : y < x => <<y, x>> \in R
  BY DEF OpToRel
<1> HIDE DEF R
<1>3. PICK x \in T : \A y \in T : ~(<<y, x>> \in R)
  BY <1>1, WFMin
<1>4. \A y \in T : ~(y < x)
  BY <1>2, <1>3
<1> QED
  BY <1>3, <1>4

(* A set of numbers that has 0 and with a number the next one has all.     *)
LEMMA NatsBy ==
  ASSUME NEW T, 0 \in T, \A n \in Nat : n \in T => n + 1 \in T, NEW k \in Nat
  PROVE  k \in T
<1> DEFINE U == {n \in Nat : n \notin T}
<1> SUFFICES ASSUME k \notin T PROVE FALSE
  OBVIOUS
<1>1. U \in SUBSET Nat /\ k \in U
  OBVIOUS
<1>2. PICK m \in U : \A n \in U : m <= n
  BY <1>1, LeastNat
<1>3. m \in Nat /\ m # 0 /\ m \notin T
  OBVIOUS
<1>4. m - 1 \in Nat /\ m - 1 \notin U /\ (m - 1) + 1 = m
  BY <1>2, <1>3
<1>5. m - 1 \in T
  BY <1>4
<1> QED
  BY <1>3, <1>4, <1>5

(* A set of subsets that has the empty one, and every other one if it has  *)
(* it without a certain element, has all.                                  *)
Inductive(S, T) == {} \in T /\ \A s \in SUBSET S : s # {} => \E x \in s : s \ {x} \in T => s \in T
LEMMA SubsetsBy ==
  ASSUME NEW S, IsFiniteSet(S), NEW T, Inductive(S, T)
  PROVE  SUBSET S \subseteq T
<1> DEFINE N == {n \in Nat : \E s \in SUBSET S : Cardinality(s) = n /\ s \notin T}
<1>1. \A s \in SUBSET S : IsFiniteSet(s) /\ Cardinality(s) \in Nat
  BY FS_Subset, FS_CardinalityType
<1> SUFFICES ASSUME NEW r \in SUBSET S, r \notin T PROVE FALSE
  OBVIOUS
<1>2. N \in SUBSET Nat /\ Cardinality(r) \in N
  BY <1>1
<1>3. PICK m \in N : \A n \in N : m <= n
  BY <1>2, LeastNat
<1>4. PICK s \in SUBSET S : Cardinality(s) = m /\ s \notin T
  OBVIOUS
<1>5. PICK x \in s : s \ {x} \in T => s \in T
  BY <1>4 DEF Inductive
<1>6. Cardinality(s \ {x}) = m - 1 /\ Cardinality(s \ {x}) \in Nat /\ m \in Nat /\ s \ {x} \in SUBSET S
  BY <1>1, <1>4, FS_RemoveElement
<1>7. m - 1 \notin N
  BY <1>3, <1>6
<1>8. s \ {x} \in T
  BY <1>6, <1>7
<1> QED
  BY <1>4, <1>5, <1>8

-----------------------------------------------------------------------------
(* Folds over sets and recursion over sequences.                           *)

(* A function that is defined for a set from its value for the set without *)
(* one element, the one that P picks.                                      *)
Folds(g, S, base, F, P) ==
  \A s \in SUBSET S : g[s] = IF s = {} THEN base ELSE F[P[s]][g[s \ {P[s]}]]
(* P picks an element of every subset that has one.                        *)
Picks(P, S) == \A s \in SUBSET S : s # {} => P[s] \in s
(* Such a function exists for every finite set, whatever the steps F add.  *)
LEMMA FoldPicks ==
  ASSUME NEW S, IsFiniteSet(S), NEW V, NEW base \in V, NEW F \in [S -> [V -> V]], NEW P, Picks(P, S)
  PROVE  \E g \in [SUBSET S -> V] : Folds(g, S, base, F, P)
<1> DEFINE pick(s) == P[s]
           less(s) == s \ {pick(s)}
           Upto(n) == {s \in SUBSET S : Cardinality(s) <= n}
           Value(s, g) == IF s = {} THEN base ELSE F[pick(s)][g[less(s)]]
           Good(n) == \E g \in [Upto(n) -> V] : \A s \in Upto(n) : g[s] = Value(s, g)
<1>1. ASSUME NEW s \in SUBSET S
      PROVE  /\ Cardinality(s) \in Nat /\ less(s) \in SUBSET S /\ (Cardinality(s) = 0 => s = {})
             /\ s # {} => pick(s) \in S /\ Cardinality(less(s)) = Cardinality(s) - 1
  <2>1. IsFiniteSet(s) /\ Cardinality(s) \in Nat
    BY FS_Subset, FS_CardinalityType
  <2>2. Cardinality(s) = 0 => s = {}
    BY <2>1, FS_EmptySet
  <2>3. s # {} => pick(s) \in s
    BY DEF Picks
  <2>4. s # {} => Cardinality(less(s)) = Cardinality(s) - 1
    <3> SUFFICES ASSUME s # {} PROVE Cardinality(less(s)) = Cardinality(s) - 1
      OBVIOUS
    <3>1. PICK y \in s : y = pick(s)
      BY <2>3
    <3>2. Cardinality(s \ {y}) = Cardinality(s) - 1
      BY <2>1, FS_RemoveElement
    <3> QED
      BY <3>1, <3>2
  <2> QED
    BY <2>1, <2>2, <2>3, <2>4
<1> HIDE DEF pick
<1>2. Good(0)
  <2>1. ASSUME NEW s \in Upto(0) PROVE s = {}
    <3>1. s \in SUBSET S /\ Cardinality(s) <= 0
      OBVIOUS
    <3>2. Cardinality(s) \in Nat /\ (Cardinality(s) = 0 => s = {})
      BY <1>1, <3>1
    <3> QED
      BY <3>1, <3>2
  <2> DEFINE g == [s \in Upto(0) |-> base]
  <2>2. g \in [Upto(0) -> V] /\ \A s \in Upto(0) : g[s] = Value(s, g)
    BY <2>1
  <2> QED
    BY <2>2
<1>3. ASSUME NEW n \in Nat, Good(n) PROVE Good(n + 1)
  <2>1. PICK g \in [Upto(n) -> V] : \A s \in Upto(n) : g[s] = Value(s, g)
    BY <1>3
  <2>2. ASSUME NEW s \in Upto(n + 1), s # {} PROVE less(s) \in Upto(n) /\ pick(s) \in S
    BY <1>1, <2>2
  <2> DEFINE h == [s \in Upto(n + 1) |-> Value(s, g)]
  <2>3. ASSUME NEW s \in Upto(n + 1) PROVE Value(s, g) \in V
    <3>1. CASE s = {}
      BY <3>1
    <3>2. CASE s # {}
      <4>1. g[less(s)] \in V /\ F[pick(s)] \in [V -> V]
        BY <2>2, <3>2
      <4> QED
        BY <3>2, <4>1
    <3> QED
      BY <3>1, <3>2
  <2>4. h \in [Upto(n + 1) -> V]
    BY <2>3
  <2>5. ASSUME NEW s \in Upto(n) PROVE s \in Upto(n + 1) /\ h[s] = g[s]
    <3>1. s \in Upto(n + 1)
      <4>1. s \in SUBSET S /\ Cardinality(s) <= n
        OBVIOUS
      <4>2. Cardinality(s) \in Nat
        BY <1>1, <4>1
      <4> QED
        BY <4>1, <4>2
    <3>2. h[s] = Value(s, g)
      BY <3>1
    <3> QED
      BY <2>1, <3>1, <3>2
  <2>6. ASSUME NEW s \in Upto(n + 1) PROVE h[s] = Value(s, h)
    <3>1. CASE s = {}
      BY <3>1
    <3>2. CASE s # {}
      <4>1. h[less(s)] = g[less(s)]
        BY <2>2, <2>5, <3>2
      <4>2. h[s] = F[pick(s)][g[less(s)]]
        BY <3>2
      <4> QED
        BY <3>2, <4>1, <4>2
    <3> QED
      BY <3>1, <3>2
  <2> QED
    BY <2>4, <2>6
<1> HIDE DEF Good
<1>4. ASSUME NEW n \in Nat PROVE Good(n)
  <2> DEFINE T == {k \in Nat : ~Good(k)}
  <2> SUFFICES ASSUME ~Good(n) PROVE FALSE
    OBVIOUS
  <2>1. T \in SUBSET Nat /\ n \in T
    OBVIOUS
  <2>2. PICK m \in T : \A k \in T : m <= k
    BY <2>1, LeastNat
  <2>3. m \in Nat /\ m # 0
    BY <1>2
  <2>4. m - 1 \in Nat /\ ~(m - 1 \in T) /\ (m - 1) + 1 = m
    BY <2>2, <2>3
  <2>5. Good(m - 1)
    BY <2>4
  <2>6. Good((m - 1) + 1)
    BY <1>3, <2>4, <2>5
  <2> QED
    BY <2>2, <2>4, <2>6
<1>5. Cardinality(S) \in Nat /\ Upto(Cardinality(S)) = SUBSET S
  <2>1. Cardinality(S) \in Nat
    BY FS_CardinalityType
  <2>2. \A s \in SUBSET S : Cardinality(s) <= Cardinality(S)
    BY FS_Subset
  <2> QED
    BY <2>1, <2>2
<1>6. PICK g \in [SUBSET S -> V] : \A s \in SUBSET S : g[s] = Value(s, g)
  <2>1. Good(Cardinality(S))
    BY <1>4, <1>5
  <2> QED
    BY <1>5, <2>1 DEF Good
<1> QED
  BY <1>6 DEF pick, Folds

(* The same for the way in which the community modules pick an element.    *)
FoldsBy(g, S, base, F) ==
  \A s \in SUBSET S :
    g[s] = IF s = {} THEN base ELSE F[CHOOSE x \in s : TRUE][g[s \ {CHOOSE x \in s : TRUE}]]
(* Such a function exists, too.                                            *)
LEMMA FoldExists ==
  ASSUME NEW S, IsFiniteSet(S), NEW V, NEW base \in V, NEW F \in [S -> [V -> V]]
  PROVE  \E g \in [SUBSET S -> V] : FoldsBy(g, S, base, F)
<1> DEFINE P == [s \in SUBSET S |-> CHOOSE x \in s : TRUE]
<1>1. \A s \in SUBSET S : P[s] = CHOOSE x \in s : TRUE
  OBVIOUS
<1>2. \A s \in SUBSET S : s # {} => P[s] \in s
  <2> SUFFICES ASSUME NEW s \in SUBSET S, NEW y \in s PROVE P[s] \in s
    OBVIOUS
  <2>1. (CHOOSE x \in s : TRUE) \in s
    OBVIOUS
  <2> QED
    BY <1>1, <2>1
<1> HIDE DEF P
<1>3. PICK g \in [SUBSET S -> V] : Folds(g, S, base, F, P)
  <2>1. Picks(P, S)
    BY <1>2 DEF Picks
  <2> QED
    BY <2>1, FoldPicks
<1>4. FoldsBy(g, S, base, F)
  BY <1>1, <1>3 DEF Folds, FoldsBy
<1> QED
  BY <1>4

(* A function that is defined for the beginnings of a sequence.            *)
Recurs(g, n, base, F) == \A i \in 0..n : g[i] = IF i = 0 THEN base ELSE F[i][g[i - 1]]
(* It exists as well.                                                      *)
LEMMA RecursionExists ==
  ASSUME NEW n \in Nat, NEW V, NEW base \in V, NEW F \in [1..n -> [V -> V]]
  PROVE  \E g \in [0..n -> V] : Recurs(g, n, base, F)
<1> DEFINE Good(k) == \E g \in [0..k -> V] : \A i \in 0..k : g[i] = IF i = 0 THEN base ELSE F[i][g[i - 1]]
<1>1. Good(0)
  <2> DEFINE g == [i \in 0..0 |-> base]
  <2>1. g \in [0..0 -> V] /\ \A i \in 0..0 : g[i] = IF i = 0 THEN base ELSE F[i][g[i - 1]]
    OBVIOUS
  <2> QED
    BY <2>1
<1>2. ASSUME NEW k \in Nat, k < n, Good(k) PROVE Good(k + 1)
  <2>1. PICK g \in [0..k -> V] : \A i \in 0..k : g[i] = IF i = 0 THEN base ELSE F[i][g[i - 1]]
    BY <1>2
  <2> DEFINE last == F[k + 1][g[k]]
             h == [i \in 0..(k + 1) |-> IF i = k + 1 THEN last ELSE g[i]]
  <2>2. last \in V
    <3>1. k + 1 \in 1..n /\ k \in 0..k
      BY <1>2
    <3>2. F[k + 1] \in [V -> V] /\ g[k] \in V
      BY <3>1
    <3> QED
      BY <3>2
  <2> HIDE DEF last
  <2>3. h \in [0..(k + 1) -> V]
    BY <2>2
  <2>4. \A i \in 0..k : h[i] = g[i]
    OBVIOUS
  <2>5. h[k + 1] = last /\ k \in 0..k /\ (k + 1) - 1 = k /\ k + 1 # 0
    OBVIOUS
  <2> HIDE DEF h
  <2>6. ASSUME NEW i \in 0..(k + 1) PROVE h[i] = IF i = 0 THEN base ELSE F[i][h[i - 1]]
    <3>1. CASE i = k + 1
      BY <2>4, <2>5, <3>1 DEF last
    <3>2. CASE i # k + 1
      <4>1. i \in 0..k /\ (i # 0 => i - 1 \in 0..k)
        BY <3>2
      <4> QED
        BY <2>1, <2>4, <4>1
    <3> QED
      BY <3>1, <3>2
  <2> QED
    BY <2>3, <2>6
<1> HIDE DEF Good
<1>3. ASSUME NEW k \in 0..n PROVE Good(k)
  <2> DEFINE T == {j \in 0..n : ~Good(j)}
  <2> SUFFICES ASSUME ~Good(k) PROVE FALSE
    OBVIOUS
  <2>1. T \in SUBSET Nat /\ k \in T
    OBVIOUS
  <2>2. PICK m \in T : \A j \in T : m <= j
    BY <2>1, LeastNat
  <2>3. m \in 0..n /\ m # 0
    BY <1>1
  <2>4. m - 1 \in Nat /\ m - 1 < n /\ ~(m - 1 \in T) /\ m - 1 \in 0..n /\ (m - 1) + 1 = m
    BY <2>2, <2>3
  <2>5. Good(m - 1)
    BY <2>4
  <2>6. Good((m - 1) + 1)
    BY <1>2, <2>4, <2>5
  <2> QED
    BY <2>2, <2>4, <2>6
<1>4. Good(n)
  BY <1>3
<1> QED
  BY <1>4 DEF Good, Recurs

-----------------------------------------------------------------------------
(* Sums.                                                                   *)

(* g[s] is the sum of F over s, for every subset s of S, added up in the   *)
(* order in which MapThenSumSet of the community modules does.             *)
SumsOf(g, S, F) ==
  /\ g \in [SUBSET S -> Int]
  /\ \A s \in SUBSET S :
       g[s] = IF s = {} THEN 0 ELSE F[CHOOSE x \in s : TRUE] + g[s \ {CHOOSE x \in s : TRUE}]

(* Every finite set has sums.                                              *)
LEMMA SumsExist ==
  ASSUME NEW S, IsFiniteSet(S), NEW F \in [S -> Int]
  PROVE  \E g : SumsOf(g, S, F)
<1> DEFINE pick(s) == CHOOSE x \in s : TRUE
           G == [x \in S |-> [n \in Int |-> F[x] + n]]
<1>1. G \in [S -> [Int -> Int]] /\ \A x \in S, n \in Int : G[x][n] = F[x] + n
  OBVIOUS
<1> HIDE DEF G
<1>2. PICK V, H : V = Int /\ H = G
  OBVIOUS
<1>3. PICK g \in [SUBSET S -> V] : FoldsBy(g, S, 0, H)
  <2>1. 0 \in V /\ H \in [S -> [V -> V]]
    BY <1>1, <1>2
  <2> QED
    BY <2>1, FoldExists
<1>4. ASSUME NEW s \in SUBSET S PROVE g[s] = IF s = {} THEN 0 ELSE F[pick(s)] + g[s \ {pick(s)}]
  <2>1. g[s] = IF s = {} THEN 0 ELSE H[pick(s)][g[s \ {pick(s)}]]
    BY <1>3 DEF FoldsBy
  <2>2. s # {} => pick(s) \in S /\ g[s \ {pick(s)}] \in Int
    BY <1>2, <1>3
  <2> QED
    BY <1>1, <1>2, <2>1, <2>2
<1> QED
  BY <1>2, <1>3, <1>4 DEF SumsOf

(* Sums do not depend on the order: an element adds its value.             *)
Grown(g, S, F) == \A r \in SUBSET S : \A y \in S : y \notin r => g[r \cup {y}] = F[y] + g[r]
LEMMA SumsAdd ==
  ASSUME NEW S, IsFiniteSet(S), NEW F \in [S -> Int], NEW g, SumsOf(g, S, F)
  PROVE  Grown(g, S, F)
<1> DEFINE pick(s) == CHOOSE x \in s : TRUE
           Good(s) == \A x \in S : x \notin s => g[s \cup {x}] = F[x] + g[s]
           T == {n \in Nat : \E s \in SUBSET S : Cardinality(s) = n /\ ~Good(s)}
<1>1. \A s \in SUBSET S : IsFiniteSet(s) /\ Cardinality(s) \in Nat
  BY FS_Subset, FS_CardinalityType
<1>2. \A s \in SUBSET S : g[s] \in Int /\ (s # {} => pick(s) \in s)
  BY DEF SumsOf
<1>3. \A s \in SUBSET S : s # {} => g[s] = F[pick(s)] + g[s \ {pick(s)}]
  BY DEF SumsOf
<1> HIDE DEF pick
<1> SUFFICES ASSUME NEW r \in SUBSET S, ~Good(r) PROVE FALSE
  BY DEF Grown
<1>4. T \in SUBSET Nat /\ Cardinality(r) \in T
  BY <1>1
<1>5. PICK m \in T : \A k \in T : m <= k
  BY <1>4, LeastNat
<1>6. PICK s \in SUBSET S : Cardinality(s) = m /\ ~Good(s)
  OBVIOUS
<1>7. PICK x \in S : x \notin s /\ g[s \cup {x}] # F[x] + g[s]
  BY <1>6
<1>8. PICK p : p = pick(s \cup {x})
  OBVIOUS
<1>9. s \cup {x} \in SUBSET S /\ p \in s \cup {x} /\ g[s \cup {x}] = F[p] + g[(s \cup {x}) \ {p}]
  BY <1>2, <1>3, <1>8
<1>10. p # x /\ p \in s
  <2>1. (s \cup {x}) \ {x} = s
    BY <1>7
  <2> QED
    BY <1>7, <1>9, <2>1
<1>11. PICK q \in SUBSET S : q = s \ {p}
  OBVIOUS
<1>12. Good(q)
  <2>1. Cardinality(q) = m - 1 /\ Cardinality(q) \in Nat /\ m \in Nat
    BY <1>1, <1>6, <1>10, <1>11, FS_RemoveElement
  <2>2. m - 1 \notin T
    BY <1>5, <2>1
  <2> HIDE DEF Good
  <2> QED
    BY <2>1, <2>2
<1>13. q \cup {p} = s /\ q \cup {x} = (s \cup {x}) \ {p} /\ p \notin q /\ x \notin q
  BY <1>7, <1>10, <1>11
<1>14. g[s] = F[p] + g[q] /\ g[(s \cup {x}) \ {p}] = F[x] + g[q]
  BY <1>10, <1>12, <1>13
<1>15. F[p] \in Int /\ F[x] \in Int /\ g[q] \in Int
  BY <1>2, <1>10
<1> QED
  BY <1>7, <1>9, <1>14, <1>15

(* The sum of a set is the same in every set it is a part of, whatever the *)
(* values of other elements.                                               *)
LEMMA SumsAgree ==
  ASSUME NEW S, IsFiniteSet(S), NEW F \in [S -> Int], NEW g, SumsOf(g, S, F),
         NEW U, NEW G \in [U -> Int], NEW h, SumsOf(h, U, G),
         S \subseteq U, \A x \in S : F[x] = G[x]
  PROVE  g[S] = h[S]
<1> DEFINE pick(s) == CHOOSE x \in s : TRUE
           T == {n \in Nat : \E s \in SUBSET S : Cardinality(s) = n /\ g[s] # h[s]}
<1>1. \A s \in SUBSET S : IsFiniteSet(s) /\ Cardinality(s) \in Nat
  BY FS_Subset, FS_CardinalityType
<1>2. \A s \in SUBSET S : g[s] = IF s = {} THEN 0 ELSE F[pick(s)] + g[s \ {pick(s)}]
  BY DEF SumsOf
<1>3. \A s \in SUBSET S : h[s] = IF s = {} THEN 0 ELSE G[pick(s)] + h[s \ {pick(s)}]
  BY DEF SumsOf
<1>4. \A s \in SUBSET S : s # {} => pick(s) \in s
  OBVIOUS
<1> HIDE DEF pick
<1> SUFFICES ASSUME g[S] # h[S] PROVE FALSE
  OBVIOUS
<1>5. T \in SUBSET Nat /\ Cardinality(S) \in T
  BY <1>1
<1>6. PICK m \in T : \A k \in T : m <= k
  BY <1>5, LeastNat
<1>7. PICK s \in SUBSET S : Cardinality(s) = m /\ g[s] # h[s]
  OBVIOUS
<1>8. s # {}
  BY <1>2, <1>3, <1>7
<1>9. PICK p \in s : p = pick(s)
  BY <1>4, <1>8
<1>10. PICK q \in SUBSET S : q = s \ {p}
  OBVIOUS
<1>11. g[q] = h[q]
  <2>1. Cardinality(q) = m - 1 /\ Cardinality(q) \in Nat /\ m \in Nat
    BY <1>1, <1>7, <1>10, FS_RemoveElement
  <2>2. m - 1 \notin T
    BY <1>6, <2>1
  <2> QED
    BY <2>1, <2>2
<1>12. g[s] = F[p] + g[q] /\ h[s] = G[p] + h[q]
  BY <1>2, <1>3, <1>8, <1>9, <1>10
<1> QED
  BY <1>7, <1>11, <1>12

(* The sum of F over S.                                                    *)
SumOver(F, S) ==
  (CHOOSE g : g = [s \in SUBSET S |-> IF s = {} THEN 0
                                      ELSE F[CHOOSE x \in s : TRUE] + g[s \ {CHOOSE x \in s : TRUE}]])[S]

(* It is the sum that the sums of all subsets end with.                    *)
LEMMA SumOfAll ==
  ASSUME NEW S, IsFiniteSet(S), NEW F \in [S -> Int]
  PROVE  \E g : SumsOf(g, S, F) /\ SumOver(F, S) = g[S]
<1> DEFINE pick(s) == CHOOSE x \in s : TRUE
           Value(s, g) == IF s = {} THEN 0 ELSE F[pick(s)] + g[s \ {pick(s)}]
           Fold(g) == g = [s \in SUBSET S |-> Value(s, g)]
           k == CHOOSE g : Fold(g)
<1>1. SumOver(F, S) = k[S]
  BY DEF SumOver
<1>2. PICK h : SumsOf(h, S, F)
  BY SumsExist
<1>3. Fold(h)
  <2>1. h \in [SUBSET S -> Int] /\ \A s \in SUBSET S : h[s] = Value(s, h)
    BY <1>2 DEF SumsOf
  <2> HIDE DEF Value
  <2> QED
    BY <2>1
<1> HIDE DEF Value
<1>4. Fold(k)
  <2> HIDE DEF Fold
  <2> QED
    BY <1>3
<1> HIDE DEF k
<1>5. k = [s \in SUBSET S |-> Value(s, k)]
  BY <1>4
<1> HIDE DEF Fold
<1>6. \A s \in SUBSET S : k[s] = Value(s, k)
  BY <1>5
<1>7. \A s \in SUBSET S : k[s] \in Int
  <2> DEFINE T == {n \in Nat : \E s \in SUBSET S : Cardinality(s) = n /\ k[s] \notin Int}
  <2>1. \A s \in SUBSET S : IsFiniteSet(s) /\ Cardinality(s) \in Nat /\ (s # {} => pick(s) \in s)
    BY FS_Subset, FS_CardinalityType
  <2> HIDE DEF pick
  <2> SUFFICES ASSUME NEW r \in SUBSET S, k[r] \notin Int PROVE FALSE
    OBVIOUS
  <2>2. T \in SUBSET Nat /\ Cardinality(r) \in T
    BY <2>1
  <2>3. PICK m \in T : \A n \in T : m <= n
    BY <2>2, LeastNat
  <2>4. PICK s \in SUBSET S : Cardinality(s) = m /\ k[s] \notin Int
    OBVIOUS
  <2>5. s # {}
    <3>1. {} \in SUBSET S /\ Value({}, k) = 0
      BY DEF Value
    <3>2. k[{}] \in Int
      BY <1>6, <3>1
    <3> QED
      BY <2>4, <3>2
  <2>6. PICK p \in s : p = pick(s)
    BY <2>1, <2>5
  <2>7. PICK q \in SUBSET S : q = s \ {p}
    OBVIOUS
  <2>8. k[q] \in Int
    <3>1. Cardinality(q) = m - 1 /\ Cardinality(q) \in Nat /\ m \in Nat
      BY <2>1, <2>4, <2>7, FS_RemoveElement
    <3>2. m - 1 \notin T
      BY <2>3, <3>1
    <3> QED
      BY <3>1, <3>2
  <2>9. k[s] = F[p] + k[q] /\ F[p] \in Int
    BY <1>6, <2>5, <2>6, <2>7 DEF Value
  <2> QED
    BY <2>4, <2>8, <2>9
<1>8. k \in [SUBSET S -> Int]
  BY <1>5, <1>7
<1>9. SumsOf(k, S, F)
  BY <1>6, <1>8 DEF SumsOf, Value
<1> QED
  BY <1>1, <1>9

(* It is a number.                                                         *)
LEMMA SumType ==
  ASSUME NEW S, IsFiniteSet(S), NEW F \in [S -> Int]
  PROVE  SumOver(F, S) \in Int
<1>1. PICK g : SumsOf(g, S, F) /\ SumOver(F, S) = g[S]
  BY SumOfAll
<1> QED
  BY <1>1 DEF SumsOf

(* The sum of nothing is 0.                                                *)
LEMMA SumEmpty ==
  ASSUME NEW F
  PROVE  SumOver([x \in {} |-> F[x]], {}) = 0
<1> DEFINE G == [x \in {} |-> F[x]]
<1>1. G \in [{} -> Int] /\ IsFiniteSet({})
  BY FS_EmptySet
<1> HIDE DEF G
<1>2. PICK g : SumsOf(g, {}, G) /\ SumOver(G, {}) = g[{}]
  BY <1>1, SumOfAll
<1>3. g[{}] = 0
  BY <1>2 DEF SumsOf
<1> QED
  BY <1>2, <1>3 DEF G

(* A set with one element more has a sum that is larger by its value.      *)
LEMMA SumMore ==
  ASSUME NEW S, IsFiniteSet(S), NEW F \in [S -> Int], NEW y, y \notin S,
         NEW G \in [S \cup {y} -> Int], \A x \in S : F[x] = G[x]
  PROVE  SumOver(G, S \cup {y}) = G[y] + SumOver(F, S)
<1>1. PICK U : U = S \cup {y} /\ IsFiniteSet(U)
  BY FS_AddElement
<1>2. PICK g : SumsOf(g, S, F) /\ SumOver(F, S) = g[S]
  BY SumOfAll
<1>3. G \in [U -> Int] /\ S \in SUBSET U /\ y \in U
  BY <1>1
<1>4. PICK h : SumsOf(h, U, G) /\ SumOver(G, U) = h[U]
  BY <1>1, <1>3, SumOfAll
<1>5. h[S] = g[S]
  BY <1>2, <1>3, <1>4, SumsAgree
<1>6. h[S \cup {y}] = G[y] + h[S]
  <2>1. Grown(h, U, G)
    BY <1>1, <1>3, <1>4, SumsAdd
  <2> QED
    BY <1>3, <2>1 DEF Grown
<1> QED
  BY <1>1, <1>2, <1>4, <1>5, <1>6

(* Without an element a sum is smaller by its value.                       *)
Shrunk(g, S, F) ==
  \A s \in SUBSET S : \A x \in s :
    g[s] = F[x] + g[s \ {x}] /\ g[s] \in Int /\ g[s \ {x}] \in Int /\ F[x] \in Int
(* Sums have such steps.                                                   *)
LEMMA SumsRemove ==
  ASSUME NEW S, IsFiniteSet(S), NEW F \in [S -> Int], NEW g, SumsOf(g, S, F)
  PROVE  Shrunk(g, S, F)
<1> SUFFICES ASSUME NEW s \in SUBSET S, NEW x \in s
             PROVE  g[s] = F[x] + g[s \ {x}] /\ g[s] \in Int /\ g[s \ {x}] \in Int /\ F[x] \in Int
  BY DEF Shrunk
<1>1. s \ {x} \in SUBSET S /\ x \notin s \ {x} /\ (s \ {x}) \cup {x} = s /\ x \in S
  OBVIOUS
<1>2. PICK r : r = s \ {x}
  OBVIOUS
<1>3. r \in SUBSET S /\ x \notin r /\ r \cup {x} = s
  BY <1>1, <1>2
<1>4. g[r \cup {x}] = F[x] + g[r]
  <2>1. Grown(g, S, F)
    BY SumsAdd
  <2> QED
    BY <1>1, <1>3, <2>1 DEF Grown
<1>5. g[s] \in Int /\ g[r] \in Int
  BY <1>3 DEF SumsOf
<1> QED
  BY <1>1, <1>2, <1>3, <1>4, <1>5

(* A part of a set, and its sum.                                           *)
Part(F, U) == [x \in U |-> F[x]]
LEMMA SumOfPart ==
  ASSUME NEW S, IsFiniteSet(S), NEW F \in [S -> Int], NEW g, SumsOf(g, S, F), NEW U \in SUBSET S
  PROVE  SumOver(Part(F, U), U) = g[U]
<1>1. Part(F, U) \in [U -> Int] /\ \A x \in U : Part(F, U)[x] = F[x]
  BY DEF Part
<1>2. IsFiniteSet(U)
  BY FS_Subset
<1>3. PICK P : P = Part(F, U)
  OBVIOUS
<1>4. PICK h : SumsOf(h, U, P) /\ SumOver(P, U) = h[U]
  BY <1>1, <1>2, <1>3, SumOfAll
<1>5. h[U] = g[U]
  BY <1>1, <1>2, <1>3, <1>4, SumsAgree
<1> QED
  BY <1>3, <1>4, <1>5

(* Elements without a value do not count.                                  *)
LEMMA SumPart ==
  ASSUME NEW S, IsFiniteSet(S), NEW F \in [S -> Int], NEW U \in SUBSET S, \A x \in S \ U : F[x] = 0
  PROVE  SumOver(F, S) = SumOver(Part(F, U), U)
<1>1. PICK g : SumsOf(g, S, F) /\ SumOver(F, S) = g[S]
  BY SumOfAll
<1> DEFINE T == {s \in SUBSET S : g[s] = g[s \cap U]}
<1>2. {} \in T
  OBVIOUS
<1>3. ASSUME NEW s \in SUBSET S, NEW x \in s, s \ {x} \in T PROVE s \in T
  <2>1. g[s \ {x}] = g[(s \ {x}) \cap U]
    BY <1>3
  <2>2. g[s] = F[x] + g[s \ {x}] /\ g[s \ {x}] \in Int
    <3>1. Shrunk(g, S, F)
      BY <1>1, SumsRemove
    <3> QED
      BY <3>1 DEF Shrunk
  <2>3. CASE x \in U
    <3>3. s \cap U \in SUBSET S /\ x \in s \cap U /\ (s \cap U) \ {x} = (s \ {x}) \cap U
      BY <2>3
    <3>1. PICK r \in SUBSET S : r = s \cap U /\ x \in r /\ r \ {x} = (s \ {x}) \cap U
      BY <3>3
    <3>2. g[r] = F[x] + g[r \ {x}]
      <4>1. Shrunk(g, S, F)
        BY <1>1, SumsRemove
      <4> QED
        BY <3>1, <4>1 DEF Shrunk
    <3> QED
      BY <2>1, <2>2, <3>1, <3>2
  <2>4. CASE x \notin U
    <3>1. F[x] = 0 /\ (s \ {x}) \cap U = s \cap U
      BY <2>4
    <3> QED
      BY <2>1, <2>2, <3>1
  <2> QED
    BY <2>3, <2>4
<1>4. ASSUME NEW s \in SUBSET S, s # {} PROVE \E x \in s : s \ {x} \in T => s \in T
  BY <1>3, <1>4
<1>5. S \in T
  <2> HIDE DEF T
  <2>1. Inductive(S, T)
    BY <1>2, <1>4 DEF Inductive
  <2>2. SUBSET S \subseteq T
    BY <2>1, SubsetsBy
  <2> QED
    BY <2>2
<1>6. S \cap U = U
  OBVIOUS
<1>7. SumOver(Part(F, U), U) = g[U]
  BY <1>1, SumOfPart
<1> QED
  BY <1>1, <1>5, <1>6, <1>7

(* Sums of two functions, and over two sets.                               *)
LEMMA SumPlus ==
  ASSUME NEW S, IsFiniteSet(S), NEW F \in [S -> Int], NEW G \in [S -> Int], NEW H \in [S -> Int],
         \A x \in S : H[x] = F[x] + G[x]
  PROVE  SumOver(H, S) = SumOver(F, S) + SumOver(G, S)
<1>1. PICK f : SumsOf(f, S, F) /\ SumOver(F, S) = f[S]
  BY SumOfAll
<1>2. PICK g : SumsOf(g, S, G) /\ SumOver(G, S) = g[S]
  BY SumOfAll
<1>3. PICK h : SumsOf(h, S, H) /\ SumOver(H, S) = h[S]
  BY SumOfAll
<1> DEFINE T == {s \in SUBSET S : h[s] = f[s] + g[s]}
<1>4. {} \in T
  BY <1>1, <1>2, <1>3 DEF SumsOf
<1>5. ASSUME NEW s \in SUBSET S, NEW x \in s, s \ {x} \in T PROVE s \in T
  <2>1. f[s] = F[x] + f[s \ {x}] /\ f[s \ {x}] \in Int /\ F[x] \in Int
    <3>1. Shrunk(f, S, F)
      BY <1>1, SumsRemove
    <3> QED
      BY <3>1 DEF Shrunk
  <2>2. g[s] = G[x] + g[s \ {x}] /\ g[s \ {x}] \in Int /\ G[x] \in Int
    <3>1. Shrunk(g, S, G)
      BY <1>2, SumsRemove
    <3> QED
      BY <3>1 DEF Shrunk
  <2>3. h[s] = H[x] + h[s \ {x}]
    <3>1. Shrunk(h, S, H)
      BY <1>3, SumsRemove
    <3> QED
      BY <3>1 DEF Shrunk
  <2>4. h[s \ {x}] = f[s \ {x}] + g[s \ {x}] /\ H[x] = F[x] + G[x]
    BY <1>5
  <2> QED
    BY <2>1, <2>2, <2>3, <2>4
<1>6. ASSUME NEW s \in SUBSET S, s # {} PROVE \E x \in s : s \ {x} \in T => s \in T
  BY <1>5, <1>6
<1>7. S \in T
  <2> HIDE DEF T
  <2>1. Inductive(S, T)
    BY <1>4, <1>6 DEF Inductive
  <2>2. SUBSET S \subseteq T
    BY <2>1, SubsetsBy
  <2> QED
    BY <2>2
<1> QED
  BY <1>1, <1>2, <1>3, <1>7

(* The sum over two sets that share no element.                            *)
LEMMA SumUnion ==
  ASSUME NEW S, IsFiniteSet(S), NEW F \in [S -> Int], NEW A, NEW B, S = A \cup B, A \cap B = {}
  PROVE  SumOver(F, S) = SumOver(Part(F, A), A) + SumOver(Part(F, B), B)
<1>1. PICK g : SumsOf(g, S, F) /\ SumOver(F, S) = g[S]
  BY SumOfAll
<1>2. SumOver(Part(F, A), A) = g[A] /\ SumOver(Part(F, B), B) = g[B]
  <2>1. A \in SUBSET S /\ B \in SUBSET S
    OBVIOUS
  <2> QED
    BY <1>1, <2>1, SumOfPart
<1> DEFINE T == {s \in SUBSET S : g[s] = g[s \cap A] + g[s \cap B]}
<1>3. {} \in T
  BY <1>1 DEF SumsOf
<1>4. ASSUME NEW s \in SUBSET S, NEW x \in s, s \ {x} \in T PROVE s \in T
  <2>1. g[s] = F[x] + g[s \ {x}] /\ F[x] \in Int
    <3>1. Shrunk(g, S, F)
      BY <1>1, SumsRemove
    <3> QED
      BY <3>1 DEF Shrunk
  <2>2. g[s \ {x}] = g[(s \ {x}) \cap A] + g[(s \ {x}) \cap B]
    BY <1>4
  <2>3. PICK a \in SUBSET S, b \in SUBSET S : a = s \cap A /\ b = s \cap B
    OBVIOUS
  <2>4. CASE x \in A
    <3>1. x \in a /\ (s \ {x}) \cap A = a \ {x} /\ (s \ {x}) \cap B = b
      BY <2>3, <2>4
    <3>2. g[a] = F[x] + g[a \ {x}] /\ g[a \ {x}] \in Int /\ g[b] \in Int
      <4>1. Shrunk(g, S, F)
        BY <1>1, SumsRemove
      <4>2. g[b] \in Int
        BY <1>1 DEF SumsOf
      <4> QED
        BY <3>1, <4>1, <4>2 DEF Shrunk
    <3>3. PICK i \in Int, j \in Int, k \in Int : i = F[x] /\ j = g[a \ {x}] /\ k = g[b]
      BY <2>1, <3>2
    <3>4. g[s \ {x}] = j + k
      BY <2>2, <3>1, <3>3
    <3>5. g[s] = g[a] + g[b]
      BY <2>1, <3>2, <3>3, <3>4
    <3> QED
      BY <2>3, <3>5
  <2>5. CASE x \in B
    <3>1. x \in b /\ (s \ {x}) \cap B = b \ {x} /\ (s \ {x}) \cap A = a
      BY <2>3, <2>5
    <3>2. g[b] = F[x] + g[b \ {x}] /\ g[b \ {x}] \in Int /\ g[a] \in Int
      <4>1. Shrunk(g, S, F)
        BY <1>1, SumsRemove
      <4>2. g[a] \in Int
        BY <1>1 DEF SumsOf
      <4> QED
        BY <3>1, <4>1, <4>2 DEF Shrunk
    <3>3. PICK i \in Int, j \in Int, k \in Int : i = F[x] /\ j = g[b \ {x}] /\ k = g[a]
      BY <2>1, <3>2
    <3>4. g[s \ {x}] = k + j
      BY <2>2, <3>1, <3>3
    <3>5. g[s] = g[a] + g[b]
      BY <2>1, <3>2, <3>3, <3>4
    <3> QED
      BY <2>3, <3>5
  <2> QED
    BY <2>4, <2>5
<1>5. ASSUME NEW s \in SUBSET S, s # {} PROVE \E x \in s : s \ {x} \in T => s \in T
  BY <1>4, <1>5
<1>6. S \in T
  <2> HIDE DEF T
  <2>1. Inductive(S, T)
    BY <1>3, <1>5 DEF Inductive
  <2>2. SUBSET S \subseteq T
    BY <2>1, SubsetsBy
  <2> QED
    BY <2>2
<1>7. S \cap A = A /\ S \cap B = B
  OBVIOUS
<1> QED
  BY <1>1, <1>2, <1>6, <1>7

(* A sum by other names of the elements.                                   *)
LEMMA SumImage ==
  ASSUME NEW S, IsFiniteSet(S), NEW U, NEW m \in [S -> U], \A x \in S, y \in S : m[x] = m[y] => x = y,
         \A u \in U : \E x \in S : m[x] = u, NEW G \in [U -> Int], NEW F \in [S -> Int],
         \A x \in S : F[x] = G[m[x]]
  PROVE  SumOver(F, S) = SumOver(G, U) /\ IsFiniteSet(U) /\ Cardinality(U) = Cardinality(S)
<1>1. IsFiniteSet(U) /\ Cardinality(U) = Cardinality(S)
  <2>1. m \in Bijection(S, U)
    BY DEF Bijection, Injection, Surjection, IsInjective
  <2>2. ExistsBijection(S, U)
    BY <2>1 DEF ExistsBijection
  <2> QED
    BY <2>2, FS_Bijection
<1>2. PICK f : SumsOf(f, S, F) /\ SumOver(F, S) = f[S]
  BY SumOfAll
<1>3. PICK g : SumsOf(g, U, G) /\ SumOver(G, U) = g[U]
  BY <1>1, SumOfAll
<1> DEFINE im(s) == {m[x] : x \in s}
           T == {s \in SUBSET S : f[s] = g[im(s)]}
<1>4. {} \in T
  <2>1. im({}) = {} /\ f[{}] = 0 /\ g[{}] = 0
    BY <1>2, <1>3 DEF SumsOf
  <2> QED
    BY <2>1
<1>5. ASSUME NEW s \in SUBSET S, NEW x \in s, s \ {x} \in T PROVE s \in T
  <2>1. f[s] = F[x] + f[s \ {x}] /\ F[x] = G[m[x]] /\ f[s \ {x}] = g[im(s \ {x})]
    <3>1. Shrunk(f, S, F)
      BY <1>2, SumsRemove
    <3> QED
      BY <1>5, <3>1 DEF Shrunk
  <2>2. im(s) \in SUBSET U /\ m[x] \in im(s)
    OBVIOUS
  <2>3. im(s) \ {m[x]} = im(s \ {x})
    OBVIOUS
  <2> HIDE DEF im
  <2>4. g[im(s)] = G[m[x]] + g[im(s) \ {m[x]}]
    <3>1. Shrunk(g, U, G)
      BY <1>1, <1>3, SumsRemove
    <3> QED
      BY <2>2, <3>1 DEF Shrunk
  <2>5. f[s] = g[im(s)]
    BY <2>1, <2>3, <2>4
  <2> QED
    BY <2>5
<1>6. ASSUME NEW s \in SUBSET S, s # {} PROVE \E x \in s : s \ {x} \in T => s \in T
  BY <1>5, <1>6
<1>7. S \in T
  <2> HIDE DEF T
  <2>1. Inductive(S, T)
    BY <1>4, <1>6 DEF Inductive
  <2>2. SUBSET S \subseteq T
    BY <2>1, SubsetsBy
  <2> QED
    BY <2>2
<1>8. im(S) = U
  OBVIOUS
<1>9. f[S] = g[im(S)]
  BY <1>7
<1> HIDE DEF im
<1> QED
  BY <1>1, <1>2, <1>3, <1>8, <1>9

(* A sum of natural numbers is one.                                        *)
LEMMA SumNat ==
  ASSUME NEW S, IsFiniteSet(S), NEW F \in [S -> Nat]
  PROVE  SumOver(F, S) \in Nat
<1>1. F \in [S -> Int]
  OBVIOUS
<1>2. PICK g : SumsOf(g, S, F) /\ SumOver(F, S) = g[S]
  BY <1>1, SumOfAll
<1>3. Shrunk(g, S, F)
  BY <1>1, <1>2, SumsRemove
<1> DEFINE T == {s \in SUBSET S : g[s] \in Nat}
<1>4. {} \in T
  BY <1>2 DEF SumsOf
<1>5. ASSUME NEW s \in SUBSET S, NEW x \in s, s \ {x} \in T PROVE s \in T
  <2>1. g[s] = F[x] + g[s \ {x}]
    BY <1>3 DEF Shrunk
  <2>2. F[x] \in Nat /\ g[s \ {x}] \in Nat
    BY <1>5
  <2> QED
    BY <2>1, <2>2
<1>6. ASSUME NEW s \in SUBSET S, s # {} PROVE \E x \in s : s \ {x} \in T => s \in T
  BY <1>5, <1>6
<1>7. SUBSET S \subseteq T
  <2> HIDE DEF T
  <2>1. Inductive(S, T)
    BY <1>4, <1>6 DEF Inductive
  <2> QED
    BY <2>1, SubsetsBy
<1> QED
  BY <1>2, <1>7

-----------------------------------------------------------------------------
(* Sorted sequences.                                                       *)

(* R puts the elements of S in a line.                                     *)
Line(S, R) ==
  /\ \A x \in S : <<x, x>> \notin R
  /\ \A x \in S, y \in S : x # y => <<x, y>> \in R \/ <<y, x>> \in R
  /\ \A x \in S, y \in S, z \in S : <<x, y>> \in R /\ <<y, z>> \in R => <<x, z>> \in R

(* A sequence of the elements of S in that order.                          *)
SortedBy(s, S, R) ==
  /\ s \in [1..Cardinality(S) -> S]
  /\ \A i, j \in 1..Cardinality(S) : i < j => <<s[i], s[j]>> \in R

(* There is a last element.                                                *)
LEMMA LastOne ==
  ASSUME NEW S, IsFiniteSet(S), NEW R, Line(S, R), NEW r \in SUBSET S, r # {}
  PROVE  \E m \in r : \A y \in r : y # m => <<y, m>> \in R
<1> DEFINE T == {s \in SUBSET S : s # {} => \E m \in s : \A y \in s : y # m => <<y, m>> \in R}
<1>1. {} \in T
  OBVIOUS
<1>2. ASSUME NEW s \in SUBSET S, NEW x \in s, s \ {x} \in T PROVE s \in T
  <2>1. CASE s \ {x} = {}
    <3>1. \A y \in s : y = x
      BY <2>1
    <3> QED
      BY <3>1
  <2>2. CASE s \ {x} # {}
    <3>1. PICK m \in s \ {x} : \A y \in s \ {x} : y # m => <<y, m>> \in R
      BY <1>2, <2>2
    <3>2. m \in S /\ x \in S /\ m # x
      OBVIOUS
    <3>3. CASE <<x, m>> \in R
      <4>1. \A y \in s : y # m => <<y, m>> \in R
        BY <3>1, <3>3
      <4> QED
        BY <3>1, <4>1
    <3>4. CASE <<m, x>> \in R
      <4>1. \A y \in s : y # x => <<y, x>> \in R
        BY <3>1, <3>2, <3>4 DEF Line
      <4> QED
        BY <4>1
    <3> QED
      BY <3>2, <3>3, <3>4 DEF Line
  <2> QED
    BY <2>1, <2>2
<1>3. ASSUME NEW s \in SUBSET S, s # {} PROVE \E x \in s : s \ {x} \in T => s \in T
  BY <1>2, <1>3
<1>4. SUBSET S \subseteq T
  <2> HIDE DEF T
  <2>1. Inductive(S, T)
    BY <1>1, <1>3 DEF Inductive
  <2> QED
    BY <2>1, SubsetsBy
<1> QED
  BY <1>4

(* The elements can be sorted.                                             *)
LEMMA SortExists ==
  ASSUME NEW S, IsFiniteSet(S), NEW R, Line(S, R)
  PROVE  \E s : SortedBy(s, S, R)
<1> DEFINE T == {r \in SUBSET S : \E s : SortedBy(s, r, R)}
<1>1. {} \in T
  <2> DEFINE e == [i \in 1..0 |-> i]
  <2>1. Cardinality({}) = 0 /\ 1..0 = {}
    BY FS_EmptySet
  <2>2. SortedBy(e, {}, R)
    BY <2>1 DEF SortedBy
  <2> QED
    BY <2>2
<1>2. ASSUME NEW r \in SUBSET S, r # {} PROVE \E x \in r : r \ {x} \in T => r \in T
  <2>1. PICK m \in r : \A y \in r : y # m => <<y, m>> \in R
    BY <1>2, LastOne
  <2>2. ASSUME r \ {m} \in T PROVE r \in T
    <3>1. PICK s : SortedBy(s, r \ {m}, R)
      BY <2>2
    <3>2. PICK n : n = Cardinality(r) /\ n \in Nat /\ n # 0 /\ Cardinality(r \ {m}) = n - 1
      <4>1. IsFiniteSet(r)
        BY FS_Subset
      <4>2. Cardinality(r) \in Nat /\ Cardinality(r) # 0 /\ Cardinality(r \ {m}) = Cardinality(r) - 1
        BY <4>1, <1>2, FS_CardinalityType, FS_EmptySet, FS_RemoveElement
      <4> QED
        BY <4>2
    <3>3. s \in [1..(n - 1) -> r \ {m}] /\ \A i, j \in 1..(n - 1) : i < j => <<s[i], s[j]>> \in R
      BY <3>1, <3>2 DEF SortedBy
    <3> DEFINE q == [i \in 1..n |-> IF i = n THEN m ELSE s[i]]
    <3>4. \A i \in 1..n : i # n => i \in 1..(n - 1) /\ i < n
      BY <3>2
    <3>5. q \in [1..n -> r]
      BY <3>3, <3>4
    <3>6. ASSUME NEW i \in 1..n, NEW j \in 1..n, i < j PROVE <<q[i], q[j]>> \in R
      <4>1. i # n /\ i \in 1..(n - 1)
        BY <3>2, <3>6
      <4>2. q[i] = s[i] /\ s[i] \in r /\ s[i] # m
        BY <3>3, <4>1
      <4>3. CASE j = n
        BY <2>1, <4>2, <4>3
      <4>4. CASE j # n
        <5>1. j \in 1..(n - 1) /\ q[j] = s[j]
          BY <3>4, <4>4
        <5> QED
          BY <3>3, <3>6, <4>1, <4>2, <5>1
      <4> QED
        BY <4>3, <4>4
    <3> HIDE DEF q
    <3>7. SortedBy(q, r, R)
      BY <3>2, <3>5, <3>6 DEF SortedBy
    <3> QED
      BY <3>7
  <2> QED
    BY <2>2
<1>3. SUBSET S \subseteq T
  <2> HIDE DEF T
  <2>1. Inductive(S, T)
    BY <1>1, <1>2 DEF Inductive
  <2> QED
    BY <2>1, SubsetsBy
<1> QED
  BY <1>3

(* A sorted sequence has every element once.                               *)
LEMMA SortedAll ==
  ASSUME NEW S, IsFiniteSet(S), NEW R, Line(S, R), NEW s, SortedBy(s, S, R)
  PROVE  /\ \A i, j \in 1..Cardinality(S) : s[i] = s[j] => i = j
         /\ \A x \in S : \E i \in 1..Cardinality(S) : s[i] = x
<1>1. PICK n \in Nat : n = Cardinality(S)
  BY FS_CardinalityType
<1>2. s \in [1..n -> S] /\ \A i, j \in 1..n : i < j => <<s[i], s[j]>> \in R
  BY <1>1 DEF SortedBy
<1>3. ASSUME NEW i \in 1..n, NEW j \in 1..n, s[i] = s[j] PROVE i = j
  <2>1. ~(i < j) /\ ~(j < i)
    BY <1>2, <1>3 DEF Line
  <2> QED
    BY <2>1
<1>4. s \in Injection(1..n, S)
  BY <1>2, <1>3 DEF Injection, IsInjective
<1>5. IsFiniteSet(1..n) /\ Cardinality(1..n) = n
  BY FS_Interval
<1>6. s \in Surjection(1..n, S)
  BY <1>1, <1>4, <1>5, FS_Injection
<1>7. \A x \in S : \E i \in 1..n : s[i] = x
  BY <1>6 DEF Surjection
<1> QED
  BY <1>1, <1>3, <1>7

-----------------------------------------------------------------------------
(* Folds over a sequence, which take its last element first.               *)

(* The greatest number of a set, as the community modules choose it.       *)
Top(s) == CHOOSE x \in s : \A y \in s : x >= y

(* A finite set of numbers has a greatest one.                             *)
LEMMA TopIs ==
  ASSUME NEW S, IsFiniteSet(S), S \subseteq Int, S # {}
  PROVE  Top(S) \in S /\ \A y \in S : Top(S) >= y
<1> DEFINE R == {x \in S \X S : x[1] < x[2]}
<1>1. ASSUME NEW x \in S, NEW y \in S PROVE <<x, y>> \in R <=> x < y
  <2>1. <<x, y>> \in S \X S /\ <<x, y>>[1] = x /\ <<x, y>>[2] = y
    OBVIOUS
  <2> QED
    BY <2>1
<1> HIDE DEF R
<1>2. Line(S, R)
  <2>1. \A x \in S : x \in Int
    OBVIOUS
  <2>2. \A x \in S : <<x, x>> \notin R
    BY <1>1, <2>1
  <2>3. \A x \in S, y \in S : x # y => <<x, y>> \in R \/ <<y, x>> \in R
    BY <1>1, <2>1
  <2>4. ASSUME NEW x \in S, NEW y \in S, NEW z \in S, <<x, y>> \in R, <<y, z>> \in R PROVE <<x, z>> \in R
    BY <1>1, <2>1, <2>4
  <2> QED
    BY <2>2, <2>3, <2>4 DEF Line
<1>3. PICK m \in S : \A y \in S : y # m => <<y, m>> \in R
  <2>1. S \in SUBSET S
    OBVIOUS
  <2> QED
    BY <1>2, <2>1, LastOne
<1>4. ASSUME NEW y \in S PROVE m >= y
  <2>1. y # m => y < m
    BY <1>1, <1>3
  <2>2. y \in Int /\ m \in Int
    OBVIOUS
  <2> QED
    BY <2>1, <2>2
<1> QED
  BY <1>4 DEF Top

(* The greatest number of an interval is its last one.                     *)
LEMMA TopLast ==
  ASSUME NEW n \in Nat, NEW i \in 1..n
  PROVE  Top(1..i) = i /\ (1..i) \ {i} = 1..(i - 1) /\ 1..i \in SUBSET (1..n) /\ 1..i # {}
<1>1. i \in 1..i /\ 1..i \subseteq Int
  OBVIOUS
<1>2. IsFiniteSet(1..i)
  BY FS_Interval
<1>3. Top(1..i) \in 1..i /\ Top(1..i) >= i
  BY <1>1, <1>2, TopIs
<1>4. Top(1..i) = i
  BY <1>3
<1>5. (1..i) \ {i} = 1..(i - 1)
  OBVIOUS
<1> QED
  BY <1>1, <1>4, <1>5

(* A function that folds the steps F from base over the indices of a       *)
(* sequence, the last one outermost.                                       *)
FoldsLeft(g, n, base, F) ==
  \A s \in SUBSET (1..n) : g[s] = IF s = {} THEN base ELSE F[Top(s)][g[s \ {Top(s)}]]
(* It exists, with values in every set that the steps do not leave.        *)
LEMMA FoldLeftExists ==
  ASSUME NEW n \in Nat, NEW V, NEW base \in V, NEW F \in [1..n -> [V -> V]]
  PROVE  \E g \in [SUBSET (1..n) -> V] : FoldsLeft(g, n, base, F)
<1> DEFINE P == [s \in SUBSET (1..n) |-> Top(s)]
<1>1. \A s \in SUBSET (1..n) : P[s] = Top(s)
  OBVIOUS
<1> HIDE DEF P
<1>2. IsFiniteSet(1..n)
  BY FS_Interval
<1>3. Picks(P, 1..n)
  <2> SUFFICES ASSUME NEW s \in SUBSET (1..n), s # {} PROVE P[s] \in s
    BY DEF Picks
  <2>0. s \subseteq Int
    OBVIOUS
  <2>1. IsFiniteSet(s) /\ s \subseteq Int
    BY <1>2, <2>0, FS_Subset
  <2>2. Top(s) \in s
    BY <2>1, TopIs
  <2> QED
    BY <1>1, <2>2
<1>4. PICK g \in [SUBSET (1..n) -> V] : Folds(g, 1..n, base, F, P)
  BY <1>2, <1>3, FoldPicks
<1>5. FoldsLeft(g, n, base, F)
  BY <1>1, <1>4 DEF Folds, FoldsLeft
<1> QED
  BY <1>5

============================================================================
