------------------------- MODULE ComboEngineProofs -------------------------
(***************************************************************************)
(* Proofs about ComboEngine, for any finite set of combos and of outcomes, *)
(* any sizes, any number of concurrent acceptances, any sampling, and      *)
(* whether or not the Redis locks outlast their use.                       *)
(*                                                                         *)
(* Every invariant rests on two facts about a step that writes sizes: the  *)
(* rows it writes are its own, and what is left of a leg only moves        *)
(* towards zero.                                                           *)
(***************************************************************************)
EXTENDS ComboEngine, Sums, TLAPS

----------------------------------------------------------------------------
(* Signed sizes.                                                           *)

\* What is left of x lies between 0 and y.
Within(x, y) == (0 <= x /\ x <= y) \/ (y <= x /\ x <= 0)

LEMMA OppositeSigns ==
  \A x, y \in Int : x * y < 0 <=> (x < 0 /\ 0 < y) \/ (0 < x /\ y < 0)
OBVIOUS

LEMMA EqualSigns ==
  \A x, y \in Int : 0 < x * y <=> (x < 0 /\ y < 0) \/ (0 < x /\ 0 < y)
OBVIOUS

\* The side and the amount that TypeOK speaks of.
LEMMA WithinIsType ==
  \A x, y \in Int : Within(x, y) => x * y >= 0 /\ Abs(x) <= Abs(y)
<1> SUFFICES ASSUME NEW x \in Int, NEW y \in Int, Within(x, y)
             PROVE  x * y >= 0 /\ Abs(x) <= Abs(y)
  OBVIOUS
<1>1. ~(x * y < 0)
  BY OppositeSigns DEF Within
<1>2. x * y \in Int
  OBVIOUS
<1>3. Abs(x) <= Abs(y)
  BY DEF Within, Abs
<1> QED
  BY <1>1, <1>2, <1>3

LEMMA LeastIsMin ==
  ASSUME NEW S, IsFiniteSet(S), S # {}, S \subseteq Int
  PROVE  Min(S) \in S /\ \A y \in S : Min(S) <= y
<1>1. \E x \in S : \A y \in S : x <= y
  BY FiniteHasLeast
<1> QED
  BY <1>1 DEF Min

LEMMA MinOfTwo == \A x, y \in Int : Min({x, y}) = IF x <= y THEN x ELSE y
BY DEF Min

\* Nettable: at most what either side has of any pair, and all that one side has
\* of one of them.
LEMMA NettableAmount ==
  ASSUME NEW v \in Vectors, NEW w \in Vectors, Opposed(v, w) # {}
  PROVE  LET n == Nettable(v, w) IN
         /\ n \in Nat /\ n > 0
         /\ \A k \in Opposed(v, w) : n <= Abs(v[k]) /\ n <= Abs(w[k])
         /\ \E k \in Opposed(v, w) : n = Abs(v[k]) \/ n = Abs(w[k])
<1> DEFINE P == Opposed(v, w)
           f == [k \in P |-> Min({Abs(v[k]), Abs(w[k])})]
           R == {Min({Abs(v[k]), Abs(w[k])}) : k \in P}
<1>1. \A k \in P : k \in Keys /\ v[k] \in Int /\ w[k] \in Int /\ v[k] # 0 /\ w[k] # 0
  BY DEF Opposed, Vectors
<1>2. \A k \in P : Abs(v[k]) \in Nat \ {0} /\ Abs(w[k]) \in Nat \ {0}
  BY <1>1 DEF Abs
<1>3. \A k \in P : /\ Min({Abs(v[k]), Abs(w[k])}) \in Nat \ {0}
                   /\ Min({Abs(v[k]), Abs(w[k])}) <= Abs(v[k])
                   /\ Min({Abs(v[k]), Abs(w[k])}) <= Abs(w[k])
                   /\ Min({Abs(v[k]), Abs(w[k])}) \in {Abs(v[k]), Abs(w[k])}
  BY <1>2, MinOfTwo
<1>4. IsFiniteSet(P)
  BY <1>1, KeysAssumption, FS_Subset
<1>5. f \in Surjection(P, R)
  BY DEF Surjection
<1>6. IsFiniteSet(R)
  <2> HIDE DEF P, R, f
  <2> QED
    BY <1>4, <1>5, FS_Surjection
<1>7. R # {} /\ R \subseteq Int
  <2>1. \A r \in R : r \in Nat \ {0}
    BY <1>3
  <2>2. PICK k \in P : TRUE
    OBVIOUS
  <2>3. Min({Abs(v[k]), Abs(w[k])}) \in R
    BY <2>2
  <2> HIDE DEF R
  <2> QED
    BY <2>1, <2>3
<1>8. Min(R) \in R /\ \A y \in R : Min(R) <= y
  <2> HIDE DEF R
  <2> QED
    BY <1>6, <1>7, LeastIsMin
<1>9. Nettable(v, w) = Min(R)
  BY DEF Nettable
<1> DEFINE n == Nettable(v, w)
<1>10. PICK k \in P : n = Min({Abs(v[k]), Abs(w[k])})
  BY <1>8, <1>9
<1>11. \A j \in P : n <= Min({Abs(v[j]), Abs(w[j])})
  BY <1>8, <1>9
<1> HIDE DEF n, P, R, f
<1>12. n \in Nat /\ n > 0
  BY <1>3, <1>10
<1>13. \A j \in P : n <= Abs(v[j]) /\ n <= Abs(w[j])
  <2> TAKE j \in P
  <2> DEFINE m == Min({Abs(v[j]), Abs(w[j])})
  <2>1. m \in Nat /\ m <= Abs(v[j]) /\ m <= Abs(w[j]) /\ Abs(v[j]) \in Nat /\ Abs(w[j]) \in Nat
    BY <1>2, <1>3
  <2>2. n <= m
    BY <1>11
  <2> HIDE DEF m
  <2> QED
    BY <2>1, <2>2, <1>12
<1>14. \E j \in P : n = Abs(v[j]) \/ n = Abs(w[j])
  BY <1>3, <1>10
<1> QED
  BY <1>12, <1>13, <1>14 DEF n, P

\* A cut (updateLegRemaining) of at most what is there.
LEMMA CutWithin ==
  \A x \in Int, n \in Nat :
    n <= Abs(x) => /\ x - Sign(x) * n \in Int
                   /\ Within(x - Sign(x) * n, x)
                   /\ n = Abs(x) => x - Sign(x) * n = 0
<1> SUFFICES ASSUME NEW x \in Int, NEW n \in Nat, n <= Abs(x)
             PROVE  /\ x - Sign(x) * n \in Int
                    /\ Within(x - Sign(x) * n, x)
                    /\ n = Abs(x) => x - Sign(x) * n = 0
  OBVIOUS
<1>1. CASE x < 0
  <2>1. Sign(x) = -1 /\ Abs(x) = -x /\ (-1) * n = -n
    BY <1>1 DEF Sign, Abs
  <2> QED
    BY <1>1, <2>1 DEF Within
<1>2. CASE x = 0
  <2>1. Sign(x) = 0 /\ Abs(x) = 0 /\ 0 * n = 0
    BY <1>2 DEF Sign, Abs
  <2> QED
    BY <1>2, <2>1 DEF Within
<1>3. CASE x > 0
  <2>1. Sign(x) = 1 /\ Abs(x) = x /\ 1 * n = n
    BY <1>3 DEF Sign, Abs
  <2> QED
    BY <1>3, <2>1 DEF Within
<1> QED
  BY <1>1, <1>2, <1>3

LEMMA SmallestBad ==
  \A S, Bad : IsFiniteSet(S) /\ Bad \subseteq SUBSET S /\ Bad # {} =>
    \E T \in Bad : \A U \in Bad : U \subseteq T => U = T
BY SmallestSet

LEMMA WithinKeeps ==
  \A x, y, z \in Int : /\ Within(y, y) /\ Within(0, y)
                       /\ Within(x, y) /\ Within(y, z) => Within(x, z)
                       /\ Within(x, y) /\ y = 0 => x = 0
BY DEF Within

----------------------------------------------------------------------------
(* allocateParticipantResiduals: first come, first kept.                   *)

\* The elements of S with something, and those of them before c.
Positive(S, f) == {x \in S : f[x] > 0}
PositiveBefore(S, f, c) == {x \in S : x < c /\ f[x] > 0}

\* Each takes what it can of what those before it have left of R.
TakenInOrder(S, f, R, g) ==
  \A x \in S : g[x] = IF f[x] <= 0 THEN 0
    ELSE Min({f[x], R - Min({R, SumFunctionOnSet(f, PositiveBefore(S, f, x))})})

\* The elements of S take from R in their order, each at most what it has: if
\* they have R between them, they take R between them.
LEMMA AllIsTaken ==
  ASSUME NEW S, IsFiniteSet(S), S \subseteq Int, NEW f, NEW g, NEW R \in Nat,
         \A x \in S : f[x] \in Int, TakenInOrder(S, f, R, g),
         R <= SumFunctionOnSet(f, Positive(S, f))
  PROVE  SumFunctionOnSet(g, S) = R
<1> DEFINE P == {x \in S : f[x] > 0}
           Before(T) == \A x \in T, y \in P : y < x => y \in T
           Least(x, y) == IF x <= y THEN x ELSE y
           Bad == {T \in SUBSET P : Before(T) /\ SumFunctionOnSet(g, T) # Least(R, SumFunctionOnSet(f, T))}
<1>1. IsFiniteSet(P) /\ P \subseteq S /\ P \subseteq Int
  BY FS_Subset
<1>2. ASSUME NEW T \in SUBSET P
      PROVE  /\ IsFiniteSet(T) /\ T \subseteq Int
             /\ \A x \in T : x \in S /\ f[x] \in Nat
             /\ SumFunctionOnSet(f, T) \in Nat
  <2>1. IsFiniteSet(T) /\ T \subseteq Int
    BY <1>1, FS_Subset
  <2>2. \A x \in T : x \in S /\ f[x] \in Nat
    OBVIOUS
  <2> HIDE DEF P
  <2> QED
    BY <2>1, <2>2, SumOfNaturals
<1>3. ASSUME NEW x \in S
      PROVE  g[x] \in Int
  <2> DEFINE B == {y \in S : y < x /\ f[y] > 0}
             G == SumFunctionOnSet(f, B)
  <2>1. B \in SUBSET P
    OBVIOUS
  <2>2. G \in Nat /\ f[x] \in Int
    BY <1>2, <2>1
  <2>3. g[x] = IF f[x] <= 0 THEN 0 ELSE Min({f[x], R - Min({R, G})})
    BY DEF TakenInOrder, PositiveBefore
  <2> HIDE DEF G, B
  <2>4. Min({R, G}) \in Int
    BY <2>2, MinOfTwo
  <2>5. R - Min({R, G}) \in Int
    BY <2>4
  <2>6. Min({f[x], R - Min({R, G})}) \in Int
    BY <2>2, <2>5, MinOfTwo
  <2> QED
    BY <2>3, <2>6
<1>4. Bad = {}
  <2> SUFFICES ASSUME Bad # {} PROVE FALSE
    OBVIOUS
  <2>1. PICK T \in Bad : \A U \in Bad : U \subseteq T => U = T
    <3>1. Bad \subseteq SUBSET P
      OBVIOUS
    <3>2. IsFiniteSet(P) /\ Bad # {}
      BY <1>1
    <3> HIDE DEF Bad, P
    <3> QED
      BY ONLY <3>1, <3>2, SmallestBad
  <2>2. T \in SUBSET P /\ Before(T) /\ SumFunctionOnSet(g, T) # Least(R, SumFunctionOnSet(f, T))
    BY <2>1
  <2>3. T # {}
    <3>1. SumFunctionOnSet(g, {}) = 0 /\ SumFunctionOnSet(f, {}) = 0
      BY SumOfNothing
    <3>2. Least(R, 0) = 0
      OBVIOUS
    <3> HIDE DEF Before, Least, P, Bad
    <3> QED
      BY <2>2, <3>1, <3>2
  <2>4. PICK m \in T : \A y \in T : y <= m
    <3>1. T \subseteq Int /\ IsFiniteSet(T)
      BY <1>2, <2>2
    <3> HIDE DEF Bad, Before, Least, P
    <3> QED
      BY <2>3, <3>1, FiniteHasGreatest
  <2> DEFINE U == T \ {m}
             F == SumFunctionOnSet(f, U)
  <2>5. m \in S /\ m \in Int /\ f[m] \in Int /\ f[m] > 0
    BY <2>2, <2>4
  <2>6. U = {y \in S : y < m /\ f[y] > 0}
    <3>1. \A y \in U : y \in S /\ f[y] > 0 /\ y < m
      <4> TAKE y \in U
      <4>1. y \in P /\ y \in Int /\ y <= m /\ y # m
        BY <2>2, <2>4
      <4> QED
        BY <2>5, <4>1
    <3>2. \A y \in S : y < m /\ f[y] > 0 => y \in U
      <4> SUFFICES ASSUME NEW y \in S, y < m, f[y] > 0 PROVE y \in T /\ y # m
        OBVIOUS
      <4>1. y \in P
        OBVIOUS
      <4>2. y \in T
        BY <2>2, <2>4, <4>1
      <4> QED
        BY <2>5, <4>2
    <3> HIDE DEF U
    <3> QED
      BY <3>1, <3>2
  <2>7. U \in SUBSET P /\ U \subseteq T /\ U # T
    BY <2>2, <2>4
  <2>8. F \in Nat
    BY <1>2, <2>7
  <2>9. Before(U)
    <3> SUFFICES ASSUME NEW x \in U, NEW y \in P, y < x
                 PROVE  y \in T /\ y # m
      OBVIOUS
    <3>1. y \in T /\ x \in Int /\ y \in Int /\ x <= m
      BY <2>2, <2>4
    <3> QED
      BY <3>1, <2>5
  <2>10. SumFunctionOnSet(g, U) = Least(R, F)
    <3>1. U \notin Bad
      BY <2>1, <2>7
    <3> HIDE DEF U, P, Before
    <3> QED
      BY <2>7, <2>9, <3>1
  <2>11. g[m] = Min({f[m], R - Min({R, F})})
    <3> DEFINE B == {y \in S : y < m /\ f[y] > 0}
    <3>1. g[m] = IF f[m] <= 0 THEN 0 ELSE Min({f[m], R - Min({R, SumFunctionOnSet(f, B)})})
      BY <2>5 DEF TakenInOrder, PositiveBefore
    <3>2. U = B /\ ~(f[m] <= 0)
      BY <2>5, <2>6
    <3> HIDE DEF B, U, P, Before, Least, Bad
    <3> QED
      BY <3>1, <3>2
  <2>12. Min({R, F}) = Least(R, F) /\ Least(R, F) \in Int
    <3> HIDE DEF F
    <3> QED
      BY <2>8, MinOfTwo
  <2>13. Min({f[m], R - Least(R, F)}) = Least(f[m], R - Least(R, F))
    <3>1. R - Least(R, F) \in Int
      BY <2>12
    <3> HIDE DEF F
    <3> QED
      BY <2>5, <3>1, MinOfTwo
  <2>14. SumFunctionOnSet(f, T) = f[m] + F
    <3>1. IsFiniteSet(T) /\ \A x \in T : f[x] \in Int
      BY <1>2, <2>2
    <3> HIDE DEF P, Before, Least, Bad
    <3> QED
      BY <2>4, <3>1, SumWithout
  <2>15. SumFunctionOnSet(g, T) = g[m] + SumFunctionOnSet(g, U)
    <3>1. IsFiniteSet(T) /\ \A x \in T : g[x] \in Int
      BY <1>2, <1>3, <2>2
    <3> HIDE DEF P, Before, Least, Bad
    <3> QED
      BY <2>4, <3>1, SumWithout
  <2> HIDE DEF U, F, Bad, P, Before
  <2>16. g[m] + Least(R, F) = Least(R, f[m] + F)
    <3>1. g[m] = Least(f[m], R - Least(R, F))
      BY <2>11, <2>12, <2>13
    <3> QED
      BY <2>5, <2>8, <3>1
  <2> QED
    BY <2>2, <2>10, <2>14, <2>15, <2>16
<1>5. SumFunctionOnSet(g, P) = R
  <2>1. P \in SUBSET P /\ Before(P) /\ SumFunctionOnSet(f, P) \in Nat
    BY <1>2
  <2>2. SumFunctionOnSet(g, P) = Least(R, SumFunctionOnSet(f, P))
    <3> HIDE DEF P, Before, Least
    <3> QED
      BY <1>4, <2>1
  <2>3. R <= SumFunctionOnSet(f, P)
    BY DEF Positive
  <2> QED
    BY <2>1, <2>2, <2>3
<1>6. \A x \in S \ P : g[x] = 0
  <2> TAKE x \in S \ P
  <2>1. x \in S /\ f[x] \in Int /\ ~(f[x] > 0)
    OBVIOUS
  <2>2. f[x] <= 0
    BY <2>1
  <2> QED
    BY <2>1, <2>2 DEF TakenInOrder
<1> HIDE DEF P
<1> QED
  BY <1>1, <1>3, <1>5, <1>6, SumBeyond

\* What a total adds up.
LEMMA TotalType ==
  ASSUME NEW S \in SUBSET Combos, NEW vec, \A c \in S : vec[c] \in Vectors, NEW k \in Keys
  PROVE  /\ IsFiniteSet(S)
         /\ \A c \in S : vec[c][k] \in Int
         /\ \A T \in SUBSET S : Total(T, vec, k) \in Int
<1>1. IsFiniteSet(S)
  BY CombosAssumption, FS_Subset
<1>2. \A c \in S : vec[c][k] \in Int
  BY DEF Vectors
<1>3. ASSUME NEW T \in SUBSET S
      PROVE  Total(T, vec, k) \in Int
  <2> DEFINE f == [c \in T |-> vec[c][k]]
  <2>1. IsFiniteSet(T) /\ \A c \in T : f[c] \in Int
    BY <1>1, <1>2, FS_Subset
  <2> HIDE DEF f
  <2>2. SumFunctionOnSet(f, T) \in Int
    BY <2>1, SumIsInteger
  <2> QED
    BY <2>2 DEF f, Total
<1> QED
  BY <1>1, <1>2, <1>3

\* Nobody keeps anything of an outcome that comes out even.
LEMMA KeptOfEven ==
  ASSUME NEW S \in SUBSET Combos, NEW vec, \A c \in S : vec[c] \in Vectors, NEW k \in Keys,
         NEW c \in S, Total(S, vec, k) = 0
  PROVE  Kept(S, vec, c, k) = 0
<1>1. vec[c][k] \in Int
  BY TotalType
<1>2. vec[c][k] * 0 <= 0
  BY <1>1
<1> QED
  BY <1>2 DEF Kept

\* More is bought than sold: the buyers keep, in their order.
KeptBought(S, vec, c, k) ==
  LET R == Total(S, vec, k) IN
  IF vec[c][k] <= 0 THEN 0
  ELSE Min({vec[c][k], R - Min({R, Abs(Total({d \in S : d < c /\ vec[d][k] > 0}, vec, k))})})

LEMMA KeptOfMore ==
  ASSUME NEW S \in SUBSET Combos, NEW vec, \A c \in S : vec[c] \in Vectors, NEW k \in Keys,
         NEW c \in S, Total(S, vec, k) > 0
  PROVE  Kept(S, vec, c, k) = KeptBought(S, vec, c, k)
<1> DEFINE R == Total(S, vec, k)
           older == {d \in S : d < c /\ vec[d][k] * R > 0}
           before == {d \in S : d < c /\ vec[d][k] > 0}
           O == Abs(Total(before, vec, k))
           free == R - Min({R, O})
<1>1. R \in Int /\ R > 0 /\ \A d \in S : vec[d][k] \in Int
  BY TotalType
<1>2. Abs(R) = R /\ Sign(R) = 1
  BY <1>1 DEF Abs, Sign
<1>3. \A d \in S : (vec[d][k] * R > 0 <=> vec[d][k] > 0) /\ (vec[d][k] * R <= 0 <=> vec[d][k] <= 0)
  <2> TAKE d \in S
  <2> DEFINE v == vec[d][k]
  <2>1. v \in Int
    BY <1>1
  <2> HIDE DEF v, R
  <2>2. v * R \in Int
    BY <1>1, <2>1
  <2>3. 0 < v * R <=> v > 0
    BY <1>1, <2>1, EqualSigns
  <2>4. (v * R <= 0 <=> ~(0 < v * R)) /\ (v <= 0 <=> ~(v > 0))
    BY <2>1, <2>2
  <2> QED
    BY <2>3, <2>4 DEF v
<1>4. older = before
  BY <1>3
<1>5. Total(before, vec, k) \in Int
  <2>1. before \in SUBSET S
    OBVIOUS
  <2> HIDE DEF before
  <2> QED
    BY <2>1, TotalType
<1>6. O \in Int
  BY <1>5 DEF Abs
<1> HIDE DEF R, older, before, O
<1>7. free \in Int
  BY <1>1, <1>6, MinOfTwo
<1> HIDE DEF free
<1>8. CASE vec[c][k] <= 0
  BY <1>3, <1>8 DEF Kept, KeptBought, R
<1>9. CASE vec[c][k] > 0
  <2>1. ~(vec[c][k] * R <= 0) /\ Abs(vec[c][k]) = vec[c][k]
    BY <1>1, <1>3, <1>9 DEF Abs
  <2>2. Kept(S, vec, c, k) = Sign(R) * Min({Abs(vec[c][k]), Abs(R) - Min({Abs(R), Abs(Total(older, vec, k))})})
    BY <2>1 DEF Kept, R, older
  <2>3. Kept(S, vec, c, k) = 1 * Min({vec[c][k], free})
    BY <1>2, <1>4, <2>1, <2>2 DEF free, O
  <2>4. Min({vec[c][k], free}) \in Int
    BY <1>1, <1>7, MinOfTwo
  <2>5. Kept(S, vec, c, k) = Min({vec[c][k], free})
    BY <2>3, <2>4
  <2>6. ~(vec[c][k] <= 0)
    BY <1>1, <1>9
  <2> QED
    BY <2>5, <2>6 DEF free, O, before, R, KeptBought
<1> QED
  BY <1>1, <1>8, <1>9

\* More is sold than bought: the sellers keep, in their order.
KeptSold(S, vec, c, k) ==
  LET R == Total(S, vec, k) IN
  IF -vec[c][k] <= 0 THEN 0
  ELSE -Min({-vec[c][k], -R - Min({-R, Abs(Total({d \in S : d < c /\ -vec[d][k] > 0}, vec, k))})})

LEMMA KeptOfLess ==
  ASSUME NEW S \in SUBSET Combos, NEW vec, \A c \in S : vec[c] \in Vectors, NEW k \in Keys,
         NEW c \in S, Total(S, vec, k) < 0
  PROVE  Kept(S, vec, c, k) = KeptSold(S, vec, c, k)
<1> DEFINE R == Total(S, vec, k)
           older == {d \in S : d < c /\ vec[d][k] * R > 0}
           before == {d \in S : d < c /\ -vec[d][k] > 0}
           O == Abs(Total(before, vec, k))
           free == -R - Min({-R, O})
<1>1. R \in Int /\ R < 0 /\ -R \in Int /\ \A d \in S : vec[d][k] \in Int
  BY TotalType
<1>2. Abs(R) = -R /\ Sign(R) = -1
  BY <1>1 DEF Abs, Sign
<1>3. \A d \in S : (vec[d][k] * R > 0 <=> -vec[d][k] > 0) /\ (vec[d][k] * R <= 0 <=> -vec[d][k] <= 0)
  <2> TAKE d \in S
  <2> DEFINE v == vec[d][k]
  <2>1. v \in Int
    BY <1>1
  <2> HIDE DEF v, R
  <2>2. v * R \in Int
    BY <1>1, <2>1
  <2>3. 0 < v * R <=> v < 0
    BY <1>1, <2>1, EqualSigns
  <2>4. (v * R <= 0 <=> ~(0 < v * R)) /\ (-v <= 0 <=> ~(v < 0)) /\ (-v > 0 <=> v < 0)
    BY <2>1, <2>2
  <2> QED
    BY <2>3, <2>4 DEF v
<1>4. older = before
  BY <1>3
<1>5. Total(before, vec, k) \in Int
  <2>1. before \in SUBSET S
    OBVIOUS
  <2> HIDE DEF before
  <2> QED
    BY <2>1, TotalType
<1>6. O \in Int
  BY <1>5 DEF Abs
<1> HIDE DEF R, older, before, O
<1>7. free \in Int
  BY <1>1, <1>6, MinOfTwo
<1> HIDE DEF free
<1>8. CASE -vec[c][k] <= 0
  BY <1>3, <1>8 DEF Kept, KeptSold, R
<1>9. CASE -vec[c][k] > 0
  <2>1. ~(vec[c][k] * R <= 0) /\ Abs(vec[c][k]) = -vec[c][k]
    BY <1>1, <1>3, <1>9 DEF Abs
  <2>2. Kept(S, vec, c, k) = Sign(R) * Min({Abs(vec[c][k]), Abs(R) - Min({Abs(R), Abs(Total(older, vec, k))})})
    BY <2>1 DEF Kept, R, older
  <2>3. Kept(S, vec, c, k) = (-1) * Min({-vec[c][k], free})
    BY <1>2, <1>4, <2>1, <2>2 DEF free, O
  <2>4. Min({-vec[c][k], free}) \in Int
    BY <1>1, <1>7, MinOfTwo
  <2>5. Kept(S, vec, c, k) = -Min({-vec[c][k], free})
    BY <2>3, <2>4
  <2>6. ~(-vec[c][k] <= 0)
    BY <1>1, <1>9
  <2> QED
    BY <2>5, <2>6 DEF free, O, before, R, KeptSold
<1> QED
  BY <1>1, <1>8, <1>9

\* What is kept lies on the side of the total, within what there was.
LEMMA KeptWithin ==
  ASSUME NEW S \in SUBSET Combos, NEW vec, \A c \in S : vec[c] \in Vectors, NEW k \in Keys,
         NEW c \in S
  PROVE  LET kept == Kept(S, vec, c, k) IN
         /\ kept \in Int
         /\ Within(kept, vec[c][k])
         /\ Total(S, vec, k) >= 0 => kept >= 0
         /\ Total(S, vec, k) <= 0 => kept <= 0
<1> DEFINE R == Total(S, vec, k)
           kept == Kept(S, vec, c, k)
           v == vec[c][k]
<1>1. R \in Int /\ v \in Int
  BY TotalType
<1>2. CASE R = 0
  <2>1. kept = 0
    BY <1>2, KeptOfEven
  <2> HIDE DEF kept, v, R
  <2>2. Within(kept, v)
    BY <1>1, <2>1 DEF Within
  <2> QED
    BY <1>2, <2>1, <2>2 DEF kept, v, R
<1>3. CASE R > 0
  <2> DEFINE B == {d \in S : d < c /\ vec[d][k] > 0}
             O == Abs(Total(B, vec, k))
  <2>1. kept = IF v <= 0 THEN 0 ELSE Min({v, R - Min({R, O})})
    <3>1. Kept(S, vec, c, k) = KeptBought(S, vec, c, k)
      BY <1>3, KeptOfMore
    <3> QED
      BY <3>1 DEF KeptBought
  <2>2. O \in Int
    <3>1. B \in SUBSET S
      OBVIOUS
    <3> HIDE DEF B
    <3>2. Total(B, vec, k) \in Int
      BY <3>1, TotalType
    <3> QED
      BY <3>2 DEF Abs
  <2> HIDE DEF kept, v, R, O
  <2> DEFINE free == R - Min({R, O})
  <2>3. free \in Int /\ free >= 0
    BY <1>1, <2>2, MinOfTwo
  <2> HIDE DEF free
  <2>4. v > 0 => Min({v, free}) \in Int /\ 0 <= Min({v, free}) /\ Min({v, free}) <= v
    BY <1>1, <2>3, MinOfTwo
  <2>5. kept \in Int /\ kept >= 0 /\ Within(kept, v)
    BY <1>1, <2>1, <2>4 DEF free, Within
  <2> QED
    BY <1>1, <1>3, <2>5 DEF kept, v, R
<1>4. CASE R < 0
  <2> DEFINE B == {d \in S : d < c /\ -vec[d][k] > 0}
             O == Abs(Total(B, vec, k))
  <2>1. kept = IF -v <= 0 THEN 0 ELSE -Min({-v, -R - Min({-R, O})})
    <3>1. Kept(S, vec, c, k) = KeptSold(S, vec, c, k)
      BY <1>4, KeptOfLess
    <3> QED
      BY <3>1 DEF KeptSold
  <2>2. O \in Int
    <3>1. B \in SUBSET S
      OBVIOUS
    <3> HIDE DEF B
    <3>2. Total(B, vec, k) \in Int
      BY <3>1, TotalType
    <3> QED
      BY <3>2 DEF Abs
  <2> HIDE DEF kept, v, R, O
  <2> DEFINE free == -R - Min({-R, O})
  <2>3. free \in Int /\ free >= 0
    BY <1>1, <2>2, MinOfTwo
  <2> HIDE DEF free
  <2>4. -v > 0 => Min({-v, free}) \in Int /\ 0 <= Min({-v, free}) /\ Min({-v, free}) <= -v
    BY <1>1, <2>3, MinOfTwo
  <2>5. kept \in Int /\ kept <= 0 /\ Within(kept, v)
    BY <1>1, <2>1, <2>4 DEF free, Within
  <2> QED
    BY <1>1, <1>4, <2>5 DEF kept, v, R
<1> QED
  BY <1>1, <1>2, <1>3, <1>4

\* A sum is at most the sum of its positive values.
LEMMA PositivePart ==
  ASSUME NEW S, IsFiniteSet(S), NEW f, \A x \in S : f[x] \in Int
  PROVE  SumFunctionOnSet(f, S) <= SumFunctionOnSet(f, Positive(S, f))
<1> DEFINE P == {x \in S : f[x] > 0}
           p == [x \in S |-> IF f[x] > 0 THEN f[x] ELSE 0]
           n == [x \in S |-> IF f[x] > 0 THEN 0 ELSE -f[x]]
<1>1. \A x \in S : f[x] \in Int /\ n[x] \in Nat /\ n[x] \in Int /\ p[x] \in Int /\ p[x] = f[x] + n[x]
  OBVIOUS
<1>2. P \in SUBSET S /\ IsFiniteSet(P)
  BY FS_Subset
<1>3. (\A x \in S \ P : p[x] = 0) /\ (\A x \in P : p[x] = f[x])
  OBVIOUS
<1> HIDE DEF P, p, n
<1>4. SumFunctionOnSet(p, S) = SumFunctionOnSet(f, S) + SumFunctionOnSet(n, S)
  BY <1>1, SumOfSums
<1>5. SumFunctionOnSet(n, S) \in Nat
  BY <1>1, SumOfNaturals
<1>6. SumFunctionOnSet(f, S) \in Int
  BY <1>1, SumIsInteger
<1>7. SumFunctionOnSet(p, S) = SumFunctionOnSet(p, P)
  BY <1>1, <1>2, <1>3, SumBeyond
<1>8. SumFunctionOnSet(p, P) = SumFunctionOnSet(f, P)
  BY <1>2, <1>3, SumOfEquals
<1> QED
  BY <1>4, <1>5, <1>6, <1>7, <1>8 DEF P, Positive

\* The sum of the elements before another that have something is its own amount.
LEMMA SumBefore ==
  ASSUME NEW S \in SUBSET Combos, NEW f, \A c \in S : f[c] \in Int, NEW c \in S
  PROVE  SumFunctionOnSet(f, PositiveBefore(S, f, c)) \in Nat
<1> DEFINE B == {d \in S : d < c /\ f[d] > 0}
<1>1. B \subseteq S /\ \A d \in B : f[d] \in Nat
  OBVIOUS
<1>2. IsFiniteSet(B)
  BY <1>1, CombosAssumption, FS_Subset
<1> HIDE DEF B
<1>3. SumFunctionOnSet(f, B) \in Nat
  BY <1>1, <1>2, SumOfNaturals
<1> QED
  BY <1>3 DEF B, PositiveBefore

\* allocateParticipantResiduals leaves the group exactly what its legs leave over.
LEMMA KeptTotal ==
  ASSUME NEW S \in SUBSET Combos, NEW vec, \A c \in S : vec[c] \in Vectors, NEW k \in Keys
  PROVE  SumFunctionOnSet([c \in S |-> Kept(S, vec, c, k)], S) = Total(S, vec, k)
<1> DEFINE R == Total(S, vec, k)
           f == [c \in S |-> vec[c][k]]
           m == [c \in S |-> -vec[c][k]]
           g == [c \in S |-> Kept(S, vec, c, k)]
           h == [c \in S |-> -Kept(S, vec, c, k)]
<1>1. R \in Int /\ IsFiniteSet(S) /\ S \subseteq Int
  BY TotalType, CombosAssumption
<1>2. \A c \in S : vec[c][k] \in Int /\ f[c] \in Int /\ m[c] \in Int /\ m[c] = -f[c]
  <2>1. \A c \in S : vec[c][k] \in Int
    BY TotalType
  <2> QED
    BY <2>1
<1>3. \A c \in S : g[c] \in Int /\ h[c] = -g[c]
  BY KeptWithin
<1>4. R = SumFunctionOnSet(f, S)
  BY DEF Total
<1>5. CASE R = 0
  <2>1. \A c \in S : g[c] = 0
    BY <1>5, KeptOfEven
  <2> HIDE DEF g
  <2>2. SumFunctionOnSet(g, S) = 0
    BY <1>1, <2>1, SumOfZeros
  <2> QED
    BY <1>5, <2>2 DEF g
<1>6. CASE R > 0
  <2>1. ASSUME NEW c \in S
        PROVE  g[c] = IF f[c] <= 0 THEN 0
                 ELSE Min({f[c], R - Min({R, SumFunctionOnSet(f, PositiveBefore(S, f, c))})})
    <3> DEFINE B == {d \in S : d < c /\ vec[d][k] > 0}
               T == SumFunctionOnSet(f, B)
    <3>1. B = PositiveBefore(S, f, c) /\ B \subseteq S
      BY DEF PositiveBefore
    <3>2. Total(B, vec, k) = T
      <4> DEFINE e == [d \in B |-> vec[d][k]]
      <4>1. \A d \in B : e[d] = f[d]
        OBVIOUS
      <4>2. IsFiniteSet(B) /\ Total(B, vec, k) = SumFunctionOnSet(e, B)
        BY <1>1, <3>1, FS_Subset DEF Total
      <4> HIDE DEF e, f, B
      <4> QED
        BY <4>1, <4>2, SumOfEquals
    <3>3. T \in Nat
      <4> HIDE DEF f, B
      <4> QED
        BY <1>2, <3>1, SumBefore
    <3>4. Abs(Total(B, vec, k)) = T
      <4> HIDE DEF T
      <4> QED
        BY <3>2, <3>3 DEF Abs
    <3>5. g[c] = IF vec[c][k] <= 0 THEN 0 ELSE Min({vec[c][k], R - Min({R, Abs(Total(B, vec, k))})})
      <4>1. Kept(S, vec, c, k) = KeptBought(S, vec, c, k)
        BY <1>6, KeptOfMore
      <4> QED
        BY <4>1 DEF KeptBought
    <3>6. f[c] = vec[c][k]
      OBVIOUS
    <3> HIDE DEF f, g, B, R
    <3> QED
      BY <3>1, <3>4, <3>5, <3>6
  <2> HIDE DEF f, g, R
  <2>2. R <= SumFunctionOnSet(f, Positive(S, f))
    BY <1>1, <1>2, <1>4, PositivePart
  <2>3. R \in Nat
    BY <1>1, <1>6
  <2>4. TakenInOrder(S, f, R, g)
    BY <2>1 DEF TakenInOrder
  <2>5. \A c \in S : f[c] \in Int
    BY <1>2
  <2>6. SumFunctionOnSet(g, S) = R
    BY ONLY <1>1, <2>2, <2>3, <2>4, <2>5, AllIsTaken
  <2> QED
    BY <2>6 DEF g, R
<1>7. CASE R < 0
  <2>1. ASSUME NEW c \in S
        PROVE  h[c] = IF m[c] <= 0 THEN 0
                 ELSE Min({m[c], -R - Min({-R, SumFunctionOnSet(m, PositiveBefore(S, m, c))})})
    <3> DEFINE B == {d \in S : d < c /\ -vec[d][k] > 0}
               T == SumFunctionOnSet(m, B)
    <3>1. B = PositiveBefore(S, m, c) /\ B \subseteq S
      BY DEF PositiveBefore
    <3>2. T = -Total(B, vec, k) /\ Total(B, vec, k) \in Int
      <4> DEFINE e == [d \in B |-> vec[d][k]]
      <4>1. \A d \in B : e[d] \in Int /\ m[d] = -e[d]
        BY <1>2
      <4>2. IsFiniteSet(B) /\ Total(B, vec, k) = SumFunctionOnSet(e, B)
        BY <1>1, <3>1, FS_Subset DEF Total
      <4> HIDE DEF e, m, B
      <4>3. T = -SumFunctionOnSet(e, B)
        BY <4>1, <4>2, SumOfNegated
      <4>4. SumFunctionOnSet(e, B) \in Int
        BY <4>1, <4>2, SumIsInteger
      <4> QED
        BY <4>2, <4>3, <4>4
    <3>3. T \in Nat
      <4> HIDE DEF m, B
      <4> QED
        BY <1>2, <3>1, SumBefore
    <3>4. Abs(Total(B, vec, k)) = T
      <4> HIDE DEF T, B
      <4> QED
        BY <3>2, <3>3 DEF Abs
    <3>5. Kept(S, vec, c, k) = IF -vec[c][k] <= 0 THEN 0
            ELSE -Min({-vec[c][k], -R - Min({-R, Abs(Total(B, vec, k))})})
      <4>1. Kept(S, vec, c, k) = KeptSold(S, vec, c, k)
        BY <1>7, KeptOfLess
      <4> QED
        BY <4>1 DEF KeptSold
    <3>6. m[c] = -vec[c][k] /\ h[c] = -Kept(S, vec, c, k) /\ m[c] \in Int
      BY <1>2
    <3> HIDE DEF h, m, B, R, T
    <3>7. Kept(S, vec, c, k) = IF m[c] <= 0 THEN 0 ELSE -Min({m[c], -R - Min({-R, T})})
      BY <3>4, <3>5, <3>6
    <3>8. -R - Min({-R, T}) \in Int
      BY <1>1, <3>3, MinOfTwo
    <3>9. Min({m[c], -R - Min({-R, T})}) \in Int
      BY <3>6, <3>8, MinOfTwo
    <3>10. h[c] = IF m[c] <= 0 THEN 0 ELSE Min({m[c], -R - Min({-R, T})})
      BY <3>6, <3>7, <3>9
    <3> QED
      BY <3>1, <3>10 DEF T
  <2>2. SumFunctionOnSet(m, S) = -R
    <3> HIDE DEF m, f, R
    <3> QED
      BY <1>1, <1>2, <1>4, SumOfNegated
  <2>3. SumFunctionOnSet(h, S) = -SumFunctionOnSet(g, S) /\ SumFunctionOnSet(g, S) \in Int
    <3> HIDE DEF h, g
    <3> QED
      BY <1>1, <1>3, SumOfNegated, SumIsInteger
  <2> HIDE DEF f, g, h, m, R
  <2>4. -R <= SumFunctionOnSet(m, Positive(S, m))
    BY <1>1, <1>2, <2>2, PositivePart
  <2>5. -R \in Nat
    BY <1>1, <1>7
  <2>6. TakenInOrder(S, m, -R, h)
    BY <2>1 DEF TakenInOrder
  <2>7. \A c \in S : m[c] \in Int
    BY <1>2
  <2>8. SumFunctionOnSet(h, S) = -R
    BY ONLY <1>1, <2>4, <2>5, <2>6, <2>7, AllIsTaken
  <2> QED
    BY <1>1, <2>3, <2>8 DEF g, R
<1> QED
  BY <1>1, <1>5, <1>6, <1>7

----------------------------------------------------------------------------
(* The inductive invariant.                                                *)

\* Places at which the invariant says nothing of a call.
Elsewhere == {"idle", "refused", "expired", "next", "unlock", "netFailed", "failed", "register",
              "list", "plan", "withdraw", "route", "replay", "refresh", "cleared",
              "venues", "completed", "rejected", "external", "lost", "threw"}
Places == Elsewhere \cup {"candidates", "netted", "filled", "internal", "netLock", "netRow",
                         "peerRow", "roundLock", "roundRows", "refreshIn"}

Snapshots == [Combos -> Vectors \cup {NotListed}]
Plans == {<<>>} \cup {Signature(p[1], p[2]) : p \in (SUBSET Combos) \X Snapshots}
CallType == [at : Places, want : Vectors, group : SUBSET Combos, plan : Plans,
             seen : Vectors, todo : SUBSET Combos]

BooksOK == left \in [Combos -> Vectors] /\ matched \in [Combos -> Vectors]

PlacesOK ==
  /\ state \in [Combos -> States]
  /\ row \in [Combos -> Accepts \cup {Free}]
  /\ lock \in [Combos -> Accepts \cup {Free}]
  /\ bucket \subseteq Combos /\ snapshot \in Snapshots
  /\ faults \in 0..MaxFaults

CallsOK == call \in [Accepts -> CallType]

\* Between the two SELECTs of a netting the first row is the call's own, so what
\* was read of it still holds; in a round every row asked for is the call's own.
\* A participant taken out of the registry is the next one to be put back.
RowsHeld(a) ==
  /\ call[a].at \in {"netLock", "netRow", "peerRow"} =>
       \E d \in Combos : d # ComboOf[a] /\ call[a].group = {ComboOf[a], d}
  /\ At(a, "peerRow") => row[ComboOf[a]] = a /\ call[a].seen = left[ComboOf[a]]
  /\ At(a, "roundLock") => call[a].group \subseteq call[a].todo
  /\ At(a, "roundRows") => \A c \in call[a].group \ call[a].todo : row[c] = a
  /\ At(a, "refreshIn") => call[a].todo # {}

\* A call that thinks nothing is left ...
Finished(a) ==
  \/ At(a, "candidates") /\ call[a].want = Zero
  \/ At(a, "netted") /\ call[a].want = Zero
  \/ At(a, "filled")
  \/ At(a, "internal")

\* ... is right.
DoneIsDone(a) == Finished(a) => left[ComboOf[a]] = Zero

\* Every leg is on its side of the order, with at most the size of the order.
LegsOK == \A c \in Combos, k \in Keys : Within(left[c][k], Size[c][k])

Balanced == \A c \in Combos, k \in Keys : left[c][k] + matched[c][k] = Size[c][k]

\* One leg of the pairs of an attempt is used up.
UsedUp(t) ==
  /\ t[1] \in Combos /\ t[2] \in Combos /\ t[3] \subseteq Keys
  /\ \E k \in t[3] : left[t[1]][k] = 0 \/ left[t[2]][k] = 0

\* The combos of a round have nothing left to clear with each other.
OneSided(r) ==
  /\ r.group \subseteq Combos
  /\ \A c, d \in r.group, k \in Keys : ~(left[c][k] * left[d][k] < 0)

RecordsOK == (\A t \in attempts : UsedUp(t)) /\ (\A r \in rounds : OneSided(r))

LedgerOK == BooksOK /\ LegsOK /\ Balanced /\ RecordsOK /\ MatchesBalance

ComboInv ==
  /\ PlacesOK /\ CallsOK /\ LedgerOK
  /\ \A a \in Accepts : RowsHeld(a) /\ DoneIsDone(a)

----------------------------------------------------------------------------
(* What is left only moves towards zero.                                   *)

Shrinks == \A c \in Combos, k \in Keys : Within(left'[c][k], left[c][k])

LEMMA LegType ==
  ASSUME BooksOK, NEW c \in Combos, NEW k \in Keys
  PROVE  left[c][k] \in Int /\ matched[c][k] \in Int /\ Size[c][k] \in Int
BY SizeAssumption DEF BooksOK, Vectors

LEMMA ShrinkLegs ==
  ASSUME BooksOK, BooksOK', Shrinks, LegsOK
  PROVE  LegsOK'
<1> SUFFICES ASSUME NEW c \in Combos, NEW k \in Keys
             PROVE  Within(left'[c][k], Size[c][k])
  BY DEF LegsOK
<1>1. left[c][k] \in Int /\ Size[c][k] \in Int
  BY LegType
<1>2. left'[c][k] \in Int
  BY DEF BooksOK, Vectors
<1>3. Within(left'[c][k], left[c][k]) /\ Within(left[c][k], Size[c][k])
  BY DEF Shrinks, LegsOK
<1> QED
  BY <1>1, <1>2, <1>3, WithinKeeps

LEMMA ShrinkZero ==
  ASSUME BooksOK, BooksOK', Shrinks, NEW c \in Combos, left[c] = Zero
  PROVE  left'[c] = Zero
<1>1. ASSUME NEW k \in Keys
      PROVE  left'[c][k] = 0
  <2>1. left[c][k] = 0 /\ left'[c][k] \in Int /\ Within(left'[c][k], left[c][k])
    BY DEF BooksOK, Vectors, Zero, Shrinks
  <2> QED
    BY <2>1 DEF Within
<1>2. left'[c] = [k \in Keys |-> left'[c][k]]
  BY DEF BooksOK, Vectors
<1> QED
  BY <1>1, <1>2 DEF Zero

LEMMA ShrinkUsed ==
  ASSUME BooksOK, BooksOK', Shrinks, NEW t, UsedUp(t)
  PROVE  UsedUp(t)'
<1>1. PICK k \in t[3] : left[t[1]][k] = 0 \/ left[t[2]][k] = 0
  BY DEF UsedUp
<1>2. k \in Keys /\ t[1] \in Combos /\ t[2] \in Combos /\ t[3] \subseteq Keys
  BY DEF UsedUp
<1>3. \A c \in Combos : left[c][k] = 0 => left'[c][k] = 0
  <2> TAKE c \in Combos
  <2>1. left'[c][k] \in Int /\ Within(left'[c][k], left[c][k])
    BY <1>2 DEF BooksOK, Vectors, Shrinks
  <2> QED
    BY <2>1 DEF Within
<1> QED
  BY <1>1, <1>2, <1>3 DEF UsedUp

LEMMA ShrinkSided ==
  ASSUME BooksOK, BooksOK', Shrinks, NEW r, OneSided(r)
  PROVE  OneSided(r)'
<1>1. r.group \subseteq Combos
  BY DEF OneSided
<1>2. ASSUME NEW c \in r.group, NEW d \in r.group, NEW k \in Keys
      PROVE  ~(left'[c][k] * left'[d][k] < 0)
  <2> DEFINE x == left[c][k]
             y == left[d][k]
             u == left'[c][k]
             v == left'[d][k]
  <2>1. x \in Int /\ y \in Int /\ u \in Int /\ v \in Int
    BY <1>1 DEF BooksOK, Vectors
  <2>2. Within(u, x) /\ Within(v, y)
    BY <1>1 DEF Shrinks
  <2>3. ~(x * y < 0)
    BY DEF OneSided
  <2> HIDE DEF x, y, u, v
  <2>4. ~(u * v < 0)
    <3>1. x * y < 0 <=> (x < 0 /\ 0 < y) \/ (0 < x /\ y < 0)
      BY <2>1, OppositeSigns
    <3>2. u * v < 0 <=> (u < 0 /\ 0 < v) \/ (0 < u /\ v < 0)
      BY <2>1, OppositeSigns
    <3>3. ~((u < 0 /\ 0 < v) \/ (0 < u /\ v < 0))
      BY <2>1, <2>2, <2>3, <3>1 DEF Within
    <3> QED
      BY <3>2, <3>3
  <2> QED
    BY <2>4 DEF u, v
<1> QED
  BY <1>1, <1>2 DEF OneSided

\* The attempts and the rounds there were stay what they are.
LEMMA ShrinkRecords ==
  ASSUME BooksOK, BooksOK', Shrinks, RecordsOK
  PROVE  (\A t \in attempts : UsedUp(t)') /\ (\A r \in rounds : OneSided(r)')
BY ShrinkUsed, ShrinkSided DEF RecordsOK

----------------------------------------------------------------------------
(* Netting two combos.                                                     *)

CutOf(v, P, n) == [k \in Keys |-> IF k \in P THEN v[k] - Sign(v[k]) * n ELSE v[k]]
MetOf(c, v, P, n) == [k \in Keys |-> IF k \in P THEN v[k] + Sign(Size[c][k]) * n ELSE v[k]]

\* What a netting of c and d writes.
MatchPair(c, d) ==
  LET P == Opposed(left[c], left[d])
      n == Nettable(left[c], left[d])
  IN
  /\ P # {}
  /\ left' = [left EXCEPT ![c] = CutOf(left[c], P, n), ![d] = CutOf(left[d], P, n)]
  /\ matched' = [matched EXCEPT ![c] = MetOf(c, matched[c], P, n), ![d] = MetOf(d, matched[d], P, n)]
  /\ attempts' = attempts \cup {AttemptId(c, d, P, n)}
  /\ rounds' = rounds

\* The pairs: opposite legs of opposite orders, and the amount is there on both sides.
LEMMA PairLegs ==
  ASSUME LedgerOK, NEW c \in Combos, NEW d \in Combos,
         NEW k \in Opposed(left[c], left[d]), NEW n \in Nat,
         n <= Abs(left[c][k]), n <= Abs(left[d][k])
  PROVE  /\ k \in Keys
         /\ Sign(left[c][k]) = Sign(Size[c][k]) /\ Sign(left[d][k]) = Sign(Size[d][k])
         /\ Sign(Size[c][k]) * n \in Int /\ Sign(Size[d][k]) * n \in Int
         /\ Sign(Size[c][k]) * n + Sign(Size[d][k]) * n = 0
<1> DEFINE x == left[c][k]
           y == left[d][k]
           s == Size[c][k]
           t == Size[d][k]
<1>1. k \in Keys /\ x * y < 0
  BY DEF Opposed
<1>2. x \in Int /\ y \in Int /\ s \in Int /\ t \in Int
  BY <1>1, LegType DEF LedgerOK
<1>3. Within(x, s) /\ Within(y, t)
  BY <1>1 DEF LedgerOK, LegsOK
<1> HIDE DEF x, y, s, t
<1>4. (x < 0 /\ 0 < y) \/ (0 < x /\ y < 0)
  BY <1>1, <1>2, OppositeSigns
<1>5. CASE x < 0 /\ 0 < y
  <2>1. Sign(x) = -1 /\ Sign(s) = -1 /\ Sign(y) = 1 /\ Sign(t) = 1
    BY <1>2, <1>3, <1>5 DEF Within, Sign
  <2>2. (-1) * n = -n /\ 1 * n = n
    OBVIOUS
  <2>3. Sign(s) * n = -n /\ Sign(t) * n = n
    BY <2>1, <2>2
  <2> QED
    BY <1>1, <2>1, <2>3 DEF x, y, s, t
<1>6. CASE 0 < x /\ y < 0
  <2>1. Sign(x) = 1 /\ Sign(s) = 1 /\ Sign(y) = -1 /\ Sign(t) = -1
    BY <1>2, <1>3, <1>6 DEF Within, Sign
  <2>2. (-1) * n = -n /\ 1 * n = n
    OBVIOUS
  <2>3. Sign(s) * n = n /\ Sign(t) * n = -n
    BY <2>1, <2>2
  <2> QED
    BY <1>1, <2>1, <2>3 DEF x, y, s, t
<1> QED
  BY <1>4, <1>5, <1>6

\* A netting keeps the books, on both sides.
LEMMA PairKeeps ==
  ASSUME LedgerOK, NEW c \in Combos, NEW d \in Combos, c # d, MatchPair(c, d)
  PROVE  LedgerOK' /\ Shrinks
<1> DEFINE P == Opposed(left[c], left[d])
           n == Nettable(left[c], left[d])
<1>1. left[c] \in Vectors /\ left[d] \in Vectors /\ P # {} /\ P \subseteq Keys
  BY DEF LedgerOK, BooksOK, MatchPair, Opposed
<1>2. /\ n \in Nat
      /\ \A k \in P : n <= Abs(left[c][k]) /\ n <= Abs(left[d][k])
      /\ \E k \in P : n = Abs(left[c][k]) \/ n = Abs(left[d][k])
  BY <1>1, NettableAmount
<1>3. ASSUME NEW k \in P
      PROVE  /\ Sign(left[c][k]) = Sign(Size[c][k]) /\ Sign(left[d][k]) = Sign(Size[d][k])
             /\ Sign(Size[c][k]) * n \in Int /\ Sign(Size[d][k]) * n \in Int
             /\ Sign(Size[c][k]) * n + Sign(Size[d][k]) * n = 0
  <2> HIDE DEF n
  <2> QED
    BY <1>2, PairLegs
<1>4. /\ left' = [left EXCEPT ![c] = CutOf(left[c], P, n), ![d] = CutOf(left[d], P, n)]
      /\ matched' = [matched EXCEPT ![c] = MetOf(c, matched[c], P, n), ![d] = MetOf(d, matched[d], P, n)]
      /\ attempts' = attempts \cup {AttemptId(c, d, P, n)}
      /\ rounds' = rounds
  BY DEF MatchPair
<1>5. left \in [Combos -> Vectors] /\ matched \in [Combos -> Vectors]
  BY DEF LedgerOK, BooksOK
<1>6. \A e \in Combos, k \in Keys : left[e][k] \in Int /\ matched[e][k] \in Int /\ Size[e][k] \in Int
  BY LegType DEF LedgerOK
<1>7. /\ left'[c] = CutOf(left[c], P, n) /\ left'[d] = CutOf(left[d], P, n)
      /\ matched'[c] = MetOf(c, matched[c], P, n) /\ matched'[d] = MetOf(d, matched[d], P, n)
      /\ \A e \in Combos \ {c, d} : left'[e] = left[e] /\ matched'[e] = matched[e]
  <2> HIDE DEF P, n
  <2> QED
    BY <1>4, <1>5
<1> HIDE DEF P, n
<1>8. \A e \in {c, d}, k \in Keys :
        /\ k \in P => /\ left'[e][k] = left[e][k] - Sign(left[e][k]) * n
                      /\ matched'[e][k] = matched[e][k] + Sign(Size[e][k]) * n
        /\ k \notin P => left'[e][k] = left[e][k] /\ matched'[e][k] = matched[e][k]
  BY <1>7 DEF CutOf, MetOf
<1>9. \A e \in {c, d}, k \in P :
        /\ Sign(left[e][k]) * n \in Int /\ Sign(left[e][k]) = Sign(Size[e][k])
        /\ left[e][k] - Sign(left[e][k]) * n \in Int
        /\ Within(left[e][k] - Sign(left[e][k]) * n, left[e][k])
        /\ n = Abs(left[e][k]) => left[e][k] - Sign(left[e][k]) * n = 0
  <2> TAKE e \in {c, d}, k \in P
  <2>1. left[e][k] \in Int /\ n <= Abs(left[e][k])
    BY <1>1, <1>2, <1>6
  <2>2. Sign(left[e][k]) = Sign(Size[e][k]) /\ Sign(Size[e][k]) * n \in Int
    BY <1>3
  <2>3. /\ left[e][k] - Sign(left[e][k]) * n \in Int
        /\ Within(left[e][k] - Sign(left[e][k]) * n, left[e][k])
        /\ n = Abs(left[e][k]) => left[e][k] - Sign(left[e][k]) * n = 0
    BY <1>2, <2>1, CutWithin
  <2> QED
    BY <2>2, <2>3
<1>10. \A e \in Combos, k \in Keys : left'[e][k] \in Int /\ matched'[e][k] \in Int
  <2> TAKE e \in Combos, k \in Keys
  <2>1. CASE e \in {c, d} /\ k \in P
    BY <1>6, <1>8, <1>9, <2>1
  <2>2. CASE e \in {c, d} /\ k \notin P
    BY <1>6, <1>8, <2>2
  <2>3. CASE e \notin {c, d}
    BY <1>6, <1>7, <2>3
  <2> QED
    BY <2>1, <2>2, <2>3
<1>11. BooksOK'
  <2>1. CutOf(left[c], P, n) \in Vectors /\ CutOf(left[d], P, n) \in Vectors
        /\ MetOf(c, matched[c], P, n) \in Vectors /\ MetOf(d, matched[d], P, n) \in Vectors
    <3>1. \A e \in {c, d}, k \in Keys : left'[e][k] \in Int /\ matched'[e][k] \in Int
      BY <1>10
    <3> QED
      BY <1>7, <3>1 DEF CutOf, MetOf, Vectors
  <2> QED
    BY <1>4, <1>5, <2>1 DEF BooksOK
<1>12. Shrinks
  <2> SUFFICES ASSUME NEW e \in Combos, NEW k \in Keys
               PROVE  Within(left'[e][k], left[e][k])
    BY DEF Shrinks
  <2>1. CASE e \in {c, d} /\ k \in P
    BY <1>8, <1>9, <2>1
  <2>2. CASE ~(e \in {c, d} /\ k \in P)
    <3>1. left'[e][k] = left[e][k]
      BY <1>7, <1>8, <2>2
    <3> QED
      BY <1>6, <3>1, WithinKeeps
  <2> QED
    BY <2>1, <2>2
<1>13. LegsOK'
  BY <1>11, <1>12, ShrinkLegs DEF LedgerOK
<1>14. Balanced'
  <2> SUFFICES ASSUME NEW e \in Combos, NEW k \in Keys
               PROVE  left'[e][k] + matched'[e][k] = Size[e][k]
    BY DEF Balanced
  <2>1. left[e][k] + matched[e][k] = Size[e][k]
    BY DEF LedgerOK, Balanced
  <2>2. CASE e \in {c, d} /\ k \in P
    <3> DEFINE q == Sign(left[e][k]) * n
    <3>1. q \in Int /\ left'[e][k] = left[e][k] - q /\ matched'[e][k] = matched[e][k] + q
      BY <1>8, <1>9, <2>2
    <3> HIDE DEF q
    <3> QED
      BY <1>6, <2>1, <3>1
  <2>3. CASE ~(e \in {c, d} /\ k \in P)
    BY <1>7, <1>8, <2>1, <2>3
  <2> QED
    BY <2>2, <2>3
<1>15. RecordsOK'
  <2>1. (\A t \in attempts : UsedUp(t)') /\ (\A r \in rounds : OneSided(r)')
    BY <1>11, <1>12, ShrinkRecords DEF LedgerOK
  <2>2. ASSUME NEW t, t = AttemptId(c, d, P, n)
        PROVE  UsedUp(t)'
    <3>1. PICK k \in P : n = Abs(left[c][k]) \/ n = Abs(left[d][k])
      BY <1>2
    <3>2. left'[c][k] = 0 \/ left'[d][k] = 0
      BY <1>1, <1>8, <1>9, <3>1
    <3>3. t[1] = c /\ t[2] = d /\ t[3] = P
      BY <2>2 DEF AttemptId
    <3> QED
      BY <1>1, <3>2, <3>3 DEF UsedUp
  <2> QED
    BY <1>4, <2>1, <2>2 DEF RecordsOK
<1>16. MatchesBalance'
  <2> SUFFICES ASSUME NEW k \in Keys
               PROVE  Total(Combos, matched', k) = 0
    BY DEF MatchesBalance
  <2> DEFINE f == [e \in Combos |-> matched[e][k]]
             g == [e \in Combos |-> matched'[e][k]]
  <2>1. SumFunctionOnSet(f, Combos) = 0
    BY DEF LedgerOK, MatchesBalance, Total
  <2>2. Total(Combos, matched', k) = SumFunctionOnSet(g, Combos)
    BY DEF Total
  <2>3. IsFiniteSet(Combos) /\ \A e \in Combos : f[e] \in Int /\ g[e] \in Int
    BY <1>6, <1>10, CombosAssumption
  <2>4. CASE k \in P
    <3> DEFINE q == Sign(Size[c][k]) * n
               r == Sign(Size[d][k]) * n
               h == [e \in Combos |-> IF e = c THEN g[c] ELSE f[e]]
    <3>1. q \in Int /\ r \in Int /\ q + r = 0
      BY <1>3, <2>4
    <3>2. g[c] = f[c] + q /\ g[d] = f[d] + r
      BY <1>8, <2>4
    <3>3. \A e \in Combos \ {c, d} : g[e] = f[e]
      BY <1>7
    <3> HIDE DEF f, g, q, r
    <3>4. \A e \in Combos : h[e] \in Int
      BY <2>3
    <3>5. (\A e \in Combos \ {c} : h[e] = f[e]) /\ h[c] = g[c]
      OBVIOUS
    <3>6. (\A e \in Combos \ {d} : g[e] = h[e]) /\ h[d] = f[d]
      BY <3>3
    <3> HIDE DEF h
    <3>7. SumFunctionOnSet(h, Combos) = SumFunctionOnSet(f, Combos) - f[c] + h[c]
      BY <2>3, <3>4, <3>5, SumAfterChange
    <3>8. SumFunctionOnSet(g, Combos) = SumFunctionOnSet(h, Combos) - h[d] + g[d]
      BY <2>3, <3>4, <3>6, SumAfterChange
    <3> QED
      BY <2>1, <2>2, <2>3, <3>1, <3>2, <3>5, <3>6, <3>7, <3>8
  <2>5. CASE k \notin P
    <3>1. \A e \in Combos : g[e] = f[e]
      BY <1>7, <1>8, <2>5
    <3> HIDE DEF f, g
    <3>2. SumFunctionOnSet(g, Combos) = SumFunctionOnSet(f, Combos)
      BY <2>3, <3>1, SumOfEquals
    <3> QED
      BY <2>1, <2>2, <3>2
  <2> QED
    BY <2>4, <2>5
<1> QED
  BY <1>11, <1>12, <1>13, <1>14, <1>15, <1>16 DEF LedgerOK

----------------------------------------------------------------------------
(* Clearing a round.                                                       *)

\* What a round of S writes.
MatchRound(S) ==
  LET kept == [c \in S |-> [k \in Keys |-> Kept(S, left, c, k)]] IN
  /\ left' = [c \in Combos |-> IF c \in S THEN kept[c] ELSE left[c]]
  /\ matched' = [c \in Combos |->
       IF c \in S THEN [k \in Keys |-> matched[c][k] + left[c][k] - kept[c][k]] ELSE matched[c]]
  /\ rounds' = rounds \cup {Signature(S, left)}
  /\ attempts' = attempts

\* A round keeps the books: what is kept adds up to what is left over.
LEMMA RoundKeeps ==
  ASSUME LedgerOK, NEW S \in SUBSET Combos, MatchRound(S)
  PROVE  LedgerOK' /\ Shrinks
<1> DEFINE K(c, k) == Kept(S, left, c, k)
<1>1. \A c \in S : left[c] \in Vectors
  BY DEF LedgerOK, BooksOK
<1>2. ASSUME NEW c \in S, NEW k \in Keys
      PROVE  /\ K(c, k) \in Int
             /\ Within(K(c, k), left[c][k])
             /\ Total(S, left, k) >= 0 => K(c, k) >= 0
             /\ Total(S, left, k) <= 0 => K(c, k) <= 0
  BY <1>1, KeptWithin
<1>3. \A e \in Combos, k \in Keys : left[e][k] \in Int /\ matched[e][k] \in Int /\ Size[e][k] \in Int
  BY LegType DEF LedgerOK
<1>4. /\ left' = [c \in Combos |-> IF c \in S THEN [k \in Keys |-> K(c, k)] ELSE left[c]]
      /\ matched' = [c \in Combos |->
           IF c \in S THEN [k \in Keys |-> matched[c][k] + left[c][k] - K(c, k)] ELSE matched[c]]
  BY DEF MatchRound
<1> HIDE DEF K
<1>5. \A c \in S, k \in Keys : /\ left'[c][k] = K(c, k)
                               /\ matched'[c][k] = matched[c][k] + left[c][k] - K(c, k)
  BY <1>4
<1>6. \A c \in Combos \ S : left'[c] = left[c] /\ matched'[c] = matched[c]
  BY <1>4
<1>7. BooksOK'
  <2>1. \A c \in S : [k \in Keys |-> K(c, k)] \in Vectors
    BY <1>2 DEF Vectors
  <2>2. \A c \in S : [k \in Keys |-> matched[c][k] + left[c][k] - K(c, k)] \in Vectors
    BY <1>2, <1>3 DEF Vectors
  <2>3. \A c \in Combos : left[c] \in Vectors /\ matched[c] \in Vectors
    BY DEF LedgerOK, BooksOK
  <2> QED
    BY <1>4, <2>1, <2>2, <2>3 DEF BooksOK
<1>8. Shrinks
  <2> SUFFICES ASSUME NEW e \in Combos, NEW k \in Keys
               PROVE  Within(left'[e][k], left[e][k])
    BY DEF Shrinks
  <2>1. CASE e \in S
    BY <1>2, <1>5, <2>1
  <2>2. CASE e \notin S
    BY <1>3, <1>6, <2>2, WithinKeeps
  <2> QED
    BY <2>1, <2>2
<1>9. LegsOK'
  BY <1>7, <1>8, ShrinkLegs DEF LedgerOK
<1>10. Balanced'
  <2> SUFFICES ASSUME NEW e \in Combos, NEW k \in Keys
               PROVE  left'[e][k] + matched'[e][k] = Size[e][k]
    BY DEF Balanced
  <2>1. left[e][k] + matched[e][k] = Size[e][k]
    BY DEF LedgerOK, Balanced
  <2>2. CASE e \in S
    BY <1>2, <1>3, <1>5, <2>1, <2>2
  <2>3. CASE e \notin S
    BY <1>6, <2>1, <2>3
  <2> QED
    BY <2>2, <2>3
<1>11. RecordsOK'
  <2>1. (\A t \in attempts : UsedUp(t)') /\ (\A r \in rounds : OneSided(r)')
    BY <1>7, <1>8, ShrinkRecords DEF LedgerOK
  <2>2. ASSUME NEW r, r = Signature(S, left)
        PROVE  OneSided(r)'
    <3>1. r.group = S
      BY <2>2 DEF Signature
    <3>2. ASSUME NEW c \in S, NEW d \in S, NEW k \in Keys
          PROVE  ~(left'[c][k] * left'[d][k] < 0)
      <4>1. K(c, k) \in Int /\ K(d, k) \in Int
        BY <1>2
      <4>2. (K(c, k) >= 0 /\ K(d, k) >= 0) \/ (K(c, k) <= 0 /\ K(d, k) <= 0)
        <5>1. Total(S, left, k) \in Int
          BY <1>1, TotalType
        <5> QED
          BY <1>2, <5>1
      <4>3. ~(K(c, k) * K(d, k) < 0)
        BY <4>1, <4>2, OppositeSigns
      <4> QED
        BY <1>5, <4>3
    <3> QED
      BY <3>1, <3>2 DEF OneSided
  <2>3. attempts' = attempts /\ rounds' = rounds \cup {Signature(S, left)}
    BY DEF MatchRound
  <2> QED
    BY <2>1, <2>2, <2>3 DEF RecordsOK
<1>12. MatchesBalance'
  <2> SUFFICES ASSUME NEW k \in Keys
               PROVE  Total(Combos, matched', k) = 0
    BY DEF MatchesBalance
  <2> DEFINE f == [e \in Combos |-> matched[e][k]]
             g == [e \in Combos |-> matched'[e][k]]
             l == [c \in S |-> left[c][k]]
             q == [c \in S |-> Kept(S, left, c, k)]
             m == [e \in Combos |-> IF e \in S THEN left[e][k] - K(e, k) ELSE 0]
  <2>1. SumFunctionOnSet(f, Combos) = 0
    BY DEF LedgerOK, MatchesBalance, Total
  <2>2. Total(Combos, matched', k) = SumFunctionOnSet(g, Combos)
    BY DEF Total
  <2>3. IsFiniteSet(Combos) /\ IsFiniteSet(S)
    BY CombosAssumption, FS_Subset
  <2>4. \A e \in Combos : f[e] \in Int /\ m[e] \in Int /\ g[e] = f[e] + m[e]
    <3> TAKE e \in Combos
    <3>1. CASE e \in S
      BY <1>2, <1>3, <1>5, <3>1
    <3>2. CASE e \notin S
      BY <1>3, <1>6, <3>2
    <3> QED
      BY <3>1, <3>2
  <2>5. \A c \in S : l[c] \in Int /\ q[c] \in Int /\ m[c] \in Int /\ l[c] = q[c] + m[c]
    <3> TAKE c \in S
    <3>1. K(c, k) \in Int /\ left[c][k] \in Int /\ q[c] = K(c, k) /\ l[c] = left[c][k]
      BY <1>2, <1>3 DEF K
    <3>2. m[c] = left[c][k] - K(c, k)
      OBVIOUS
    <3> QED
      BY <3>1, <3>2
  <2>6. SumFunctionOnSet(l, S) = SumFunctionOnSet(q, S)
    <3>1. SumFunctionOnSet(q, S) = Total(S, left, k)
      BY <1>1, KeptTotal
    <3> QED
      BY <3>1 DEF Total
  <2>7. \A e \in Combos \ S : m[e] = 0
    OBVIOUS
  <2> HIDE DEF f, g, l, q, m
  <2>8. SumFunctionOnSet(l, S) = SumFunctionOnSet(q, S) + SumFunctionOnSet(m, S)
    BY <2>3, <2>5, SumOfSums
  <2>9. SumFunctionOnSet(q, S) \in Int /\ SumFunctionOnSet(m, S) \in Int
    BY <2>3, <2>5, SumIsInteger
  <2>10. SumFunctionOnSet(m, S) = 0
    BY <2>6, <2>8, <2>9
  <2>11. SumFunctionOnSet(m, Combos) = SumFunctionOnSet(m, S)
    BY <2>3, <2>4, <2>7, SumBeyond
  <2>12. SumFunctionOnSet(g, Combos) = SumFunctionOnSet(f, Combos) + SumFunctionOnSet(m, Combos)
    BY <2>3, <2>4, SumOfSums
  <2> QED
    BY <2>1, <2>2, <2>10, <2>11, <2>12
<1> QED
  BY <1>7, <1>8, <1>9, <1>10, <1>11, <1>12 DEF LedgerOK

----------------------------------------------------------------------------
(* One call moves.                                                         *)

CallMoves(a) ==
  /\ call' \in [Accepts -> CallType]
  /\ \A b \in Accepts \ {a} : call'[b] = call[b]

\* Nothing of another call's rows is touched.
OthersKept(a) ==
  \A c \in Combos : row[c] \notin {Free, a} => row'[c] = row[c] /\ left'[c] = left[c]

StepOK(a) ==
  /\ CallMoves(a) /\ OthersKept(a) /\ PlacesOK' /\ LedgerOK' /\ Shrinks
  /\ RowsHeld(a)' /\ DoneIsDone(a)'

\* Then everything that the invariant says of the other calls still holds.
LEMMA StepKeeps ==
  ASSUME ComboInv, NEW a \in Accepts, StepOK(a)
  PROVE  ComboInv'
<1>1. CallsOK'
  BY DEF CallsOK, CallMoves, ComboInv, StepOK
<1>2. ASSUME NEW b \in Accepts, b # a
      PROVE  RowsHeld(b)' /\ DoneIsDone(b)'
  <2>1. call'[b] = call[b] /\ RowsHeld(b) /\ DoneIsDone(b)
    BY <1>2 DEF StepOK, CallMoves, ComboInv
  <2>2. ComboOf[b] \in Combos /\ b # Free
    BY CallsAssumption
  <2>3. \A c \in Combos : row[c] = b => row'[c] = b /\ left'[c] = left[c]
    BY <1>2, <2>2 DEF StepOK, OthersKept
  <2>4. call[b].group \subseteq Combos
    BY DEF ComboInv, CallsOK, CallType
  <2>5. RowsHeld(b)'
    BY <2>1, <2>2, <2>3, <2>4 DEF RowsHeld, At
  <2>6. DoneIsDone(b)'
    <3> SUFFICES ASSUME Finished(b)' PROVE left'[ComboOf[b]] = Zero
      BY DEF DoneIsDone
    <3>1. Finished(b)
      BY <2>1 DEF Finished, At
    <3>2. left[ComboOf[b]] = Zero
      BY <2>1, <3>1 DEF DoneIsDone
    <3>3. BooksOK /\ BooksOK' /\ Shrinks
      BY DEF ComboInv, StepOK, LedgerOK
    <3> QED
      BY <2>2, <3>2, <3>3, ShrinkZero
  <2> QED
    BY <2>5, <2>6
<1> QED
  BY <1>1, <1>2 DEF ComboInv, StepOK

\* A step that writes no sizes.
Quiet == UNCHANGED <<left, matched, attempts, rounds>>

LEMMA QuietLedger ==
  ASSUME LedgerOK, Quiet
  PROVE  LedgerOK' /\ Shrinks
<1>1. left' = left /\ matched' = matched /\ attempts' = attempts /\ rounds' = rounds
  BY DEF Quiet
<1>2. LedgerOK'
  BY <1>1 DEF LedgerOK, BooksOK, LegsOK, Balanced, RecordsOK, UsedUp, OneSided, MatchesBalance, Total
<1>3. Shrinks
  BY <1>1, LegType, WithinKeeps DEF LedgerOK, Shrinks
<1> QED
  BY <1>2, <1>3

LEMMA ElsewhereOK ==
  ASSUME NEW a \in Accepts, call'[a].at \in Elsewhere
  PROVE  RowsHeld(a)' /\ DoneIsDone(a)'
BY DEF Elsewhere, RowsHeld, DoneIsDone, Finished, At

\* The fields of a call, and the record of it after a step.
LEMMA CallFields ==
  ASSUME CallsOK, NEW a \in Accepts
  PROVE  LET r == call[a] IN
         /\ r \in CallType /\ r.want \in Vectors /\ r.seen \in Vectors
         /\ r.group \in SUBSET Combos /\ r.todo \in SUBSET Combos
BY DEF CallsOK, CallType

LEMMA ZeroIsVector == Zero \in Vectors
BY DEF Zero, Vectors

LEMMA CallUpdate ==
  ASSUME CallsOK, NEW a \in Accepts, NEW r \in CallType, call' = [call EXCEPT ![a] = r]
  PROVE  CallMoves(a) /\ call'[a] = r
BY DEF CallsOK, CallMoves

LEMMA GotoCall ==
  ASSUME CallsOK, NEW a \in Accepts, NEW place \in Places, Goto(a, place)
  PROVE  /\ CallMoves(a) /\ call'[a].at = place
         /\ call'[a].want = call[a].want /\ call'[a].group = call[a].group
         /\ call'[a].seen = call[a].seen /\ call'[a].todo = call[a].todo
BY DEF CallsOK, CallMoves, CallType, Goto

LEMMA TodoCall ==
  ASSUME CallsOK, NEW a \in Accepts, NEW place \in Places, NEW T \in SUBSET Combos,
         call' = [call EXCEPT ![a].at = place, ![a].todo = T]
  PROVE  CallMoves(a) /\ call'[a].at = place /\ call'[a].todo = T
<1> DEFINE r == [call[a] EXCEPT !.at = place, !.todo = T]
<1>1. r \in CallType /\ r.at = place /\ r.todo = T
  BY CallFields DEF CallType
<1>2. call' = [call EXCEPT ![a] = r]
  OBVIOUS
<1> HIDE DEF r
<1> QED
  BY <1>1, <1>2, CallUpdate

LEMMA EnterCall ==
  ASSUME CallsOK, NEW a \in Accepts, NEW place \in Places, Enter(a, place)
  PROVE  /\ CallMoves(a) /\ call'[a].at = place /\ call'[a].want = call[a].want
         /\ call'[a].todo = {}
<1> DEFINE r == [Idle EXCEPT !.at = place, !.want = call[a].want]
<1>1. call[a].want \in Vectors
  BY CallFields
<1>2. <<>> \in Plans
  BY DEF Plans
<1>3. r \in CallType /\ r.at = place /\ r.want = call[a].want /\ r.todo = {}
  BY <1>1, <1>2, ZeroIsVector DEF Idle, CallType
<1>4. call' = [call EXCEPT ![a] = r]
  BY DEF Enter
<1> HIDE DEF r
<1> QED
  BY <1>3, <1>4, CallUpdate

----------------------------------------------------------------------------
(* Locks and rows.                                                         *)

\* What a step leaves of locks, rows, registry and states is in shape.
LEMMA LockedPlaces ==
  ASSUME PlacesOK, NEW a \in Accepts, NEW S, NEW place, LockAll(a, S, place)
  PROVE  lock' \in [Combos -> Accepts \cup {Free}] /\ (Goto(a, place) \/ Goto(a, "failed"))
<1>1. CASE \A c \in S : lock[c] = Free
  BY <1>1 DEF LockAll, PlacesOK
<1>2. CASE \E c \in S : lock[c] # Free
  BY <1>2 DEF LockAll, PlacesOK
<1> QED
  BY <1>1, <1>2

LEMMA UnlockedPlaces ==
  ASSUME PlacesOK, NEW a \in Accepts, UnlockAll(a)
  PROVE  lock' \in [Combos -> Accepts \cup {Free}]
BY DEF PlacesOK, UnlockAll

LEMMA EndedRows ==
  ASSUME PlacesOK, NEW a \in Accepts, EndTransaction(a)
  PROVE  /\ row' \in [Combos -> Accepts \cup {Free}]
         /\ \A c \in Combos : row[c] \notin {Free, a} => row'[c] = row[c]
BY DEF PlacesOK, EndTransaction

\* A quiet step to a place of which the invariant says nothing.
LEMMA QuietStep ==
  ASSUME ComboInv, NEW a \in Accepts, Quiet, CallMoves(a), PlacesOK',
         \A c \in Combos : row[c] \notin {Free, a} => row'[c] = row[c],
         call'[a].at \in Elsewhere \/ (RowsHeld(a)' /\ DoneIsDone(a)')
  PROVE  StepOK(a)
<1>1. LedgerOK' /\ Shrinks
  BY QuietLedger DEF ComboInv
<1>2. OthersKept(a)
  BY DEF OthersKept, Quiet
<1>3. RowsHeld(a)' /\ DoneIsDone(a)'
  BY ElsewhereOK
<1> QED
  BY <1>1, <1>2, <1>3 DEF StepOK

\* Everything but the call.
OnlyCalls == UNCHANGED <<tables, row, lock, registry, external, faults>>

LEMMA OnlyCallsStep ==
  ASSUME ComboInv, NEW a \in Accepts, OnlyCalls, CallMoves(a),
         call'[a].at \in Elsewhere \/ (RowsHeld(a)' /\ DoneIsDone(a)')
  PROVE  StepOK(a)
<1>1. Quiet /\ PlacesOK' /\ row' = row
  BY DEF OnlyCalls, ComboInv, PlacesOK, Quiet, tables, registry
<1> QED
  BY <1>1, QuietStep

----------------------------------------------------------------------------
(* Each step of a call.                                                    *)

LEMMA DeadlockStep ==
  ASSUME ComboInv, NEW a \in Accepts, Deadlock(a)
  PROVE  StepOK(a)
<1>1. CallsOK /\ PlacesOK
  BY DEF ComboInv
<1>2. Goto(a, "replay") \/ Goto(a, "netFailed")
  BY DEF Deadlock
<1>3. CallMoves(a) /\ call'[a].at \in {"replay", "netFailed"}
  BY <1>1, <1>2, GotoCall DEF Places, Elsewhere
<1>4. EndTransaction(a) /\ UNCHANGED <<tables, lock, registry, external, faults>>
  BY DEF Deadlock
<1>5. Quiet /\ PlacesOK' /\ \A c \in Combos : row[c] \notin {Free, a} => row'[c] = row[c]
  BY <1>1, <1>4, EndedRows DEF PlacesOK, Quiet, tables, registry
<1> QED
  BY <1>3, <1>5, QuietStep DEF Elsewhere

LEMMA BeginStep ==
  ASSUME ComboInv, NEW a \in Accepts, Begin(a)
  PROVE  StepOK(a)
<1>1. CallsOK /\ OnlyCalls /\ ComboOf[a] \in Combos
  BY CallsAssumption DEF ComboInv, Begin, OnlyCalls
<1>2. CASE Goto(a, "refused") \/ Goto(a, "expired")
  <2>1. CallMoves(a) /\ call'[a].at \in {"refused", "expired"}
    BY <1>1, <1>2, GotoCall DEF Places, Elsewhere
  <2> QED
    BY <1>1, <2>1, OnlyCallsStep DEF Elsewhere
<1>3. CASE call' = [call EXCEPT ![a].want = left[ComboOf[a]],
                      ![a].at = IF ComboOf[a] \in Netting THEN "candidates" ELSE "netted"]
  <2>1. left[ComboOf[a]] \in Vectors
    BY <1>1 DEF ComboInv, LedgerOK, BooksOK
  <2>2. /\ CallMoves(a) /\ call'[a].at \in {"candidates", "netted"}
        /\ call'[a].want = left[ComboOf[a]]
    <3> DEFINE place == IF ComboOf[a] \in Netting THEN "candidates" ELSE "netted"
    <3>1. place \in {"candidates", "netted"} /\ place \in Places
      BY DEF Places
    <3> HIDE DEF place
    <3>2. call' = [call EXCEPT ![a].want = left[ComboOf[a]], ![a].at = place]
      BY <1>3 DEF place
    <3> QED
      BY <1>1, <2>1, <3>1, <3>2 DEF CallsOK, CallMoves, CallType
  <2>3. left' = left
    BY <1>1 DEF OnlyCalls, tables
  <2>4. RowsHeld(a)' /\ DoneIsDone(a)'
    BY <2>2, <2>3 DEF RowsHeld, DoneIsDone, Finished, At
  <2> QED
    BY <1>1, <2>2, <2>4, OnlyCallsStep
<1> QED
  BY <1>2, <1>3 DEF Begin

LEMMA FindCandidatesStep ==
  ASSUME ComboInv, NEW a \in Accepts, FindCandidates(a)
  PROVE  StepOK(a)
<1> DEFINE c == ComboOf[a]
<1>1. CallsOK /\ OnlyCalls /\ c \in Combos
  BY CallsAssumption DEF ComboInv, FindCandidates, OnlyCalls
<1>2. \/ left[c] = Zero /\ Goto(a, "netted")
      \/ Goto(a, "failed")
      \/ \E S \in SUBSET (Combos \ {c}) :
           call' = [call EXCEPT ![a].at = "next", ![a].todo = S]
  BY DEF FindCandidates
<1>3. CASE left[c] = Zero /\ Goto(a, "netted")
  <2>1. CallMoves(a) /\ call'[a].at = "netted"
    BY <1>1, <1>3, GotoCall DEF Places, Elsewhere
  <2>2. left'[c] = Zero
    BY <1>1, <1>3 DEF OnlyCalls, tables
  <2>3. RowsHeld(a)' /\ DoneIsDone(a)'
    BY <2>1, <2>2 DEF RowsHeld, DoneIsDone, At
  <2> QED
    BY <1>1, <2>1, <2>3, OnlyCallsStep
<1>4. CASE Goto(a, "failed")
  <2>1. CallMoves(a) /\ call'[a].at = "failed"
    BY <1>1, <1>4, GotoCall DEF Places, Elsewhere
  <2> QED
    BY <1>1, <2>1, OnlyCallsStep DEF Elsewhere
<1>5. ASSUME NEW S \in SUBSET (Combos \ {c}), call' = [call EXCEPT ![a].at = "next", ![a].todo = S]
      PROVE  StepOK(a)
  <2>1. "next" \in Places /\ S \in SUBSET Combos
    BY DEF Places, Elsewhere
  <2>2. CallMoves(a) /\ call'[a].at = "next"
    BY ONLY <1>1, <1>5, <2>1, a \in Accepts, TodoCall
  <2> QED
    BY <1>1, <2>2, OnlyCallsStep DEF Elsewhere
<1> QED
  BY <1>2, <1>3, <1>4, <1>5

\* A candidate is another taker's combo.
LEMMA NextCandidateStep ==
  ASSUME ComboInv, NEW a \in Accepts, NextCandidate(a)
  PROVE  StepOK(a)
<1> DEFINE c == ComboOf[a]
<1>1. CallsOK /\ OnlyCalls /\ c \in Combos /\ left' = left
  BY CallsAssumption DEF ComboInv, NextCandidate, OnlyCalls, tables
<1>2. left[c] \in Vectors /\ call[a].todo \subseteq Combos
  BY <1>1, CallFields DEF ComboInv, LedgerOK, BooksOK
<1>3. \/ call' = [call EXCEPT ![a].at = "netted", ![a].want = left[c]]
      \/ Goto(a, "failed")
      \/ \E d \in call[a].todo :
           /\ Compatible(c, d)
           /\ call' = [call EXCEPT ![a].at = "netLock", ![a].group = {c, d}, ![a].todo = @ \ {d}]
      \/ At(a, "next") /\ \E d \in call[a].todo : call' = [call EXCEPT ![a].todo = @ \ {d}]
  BY DEF NextCandidate
<1>4. CASE call' = [call EXCEPT ![a].at = "netted", ![a].want = left[c]]
  <2>1. CallMoves(a) /\ call'[a].at = "netted" /\ call'[a].want = left[c]
    BY <1>1, <1>2, <1>4 DEF CallsOK, CallMoves, CallType, Places
  <2>2. RowsHeld(a)' /\ DoneIsDone(a)'
    BY <1>1, <2>1 DEF RowsHeld, DoneIsDone, Finished, At
  <2> QED
    BY <1>1, <2>1, <2>2, OnlyCallsStep
<1>5. CASE Goto(a, "failed")
  <2>1. CallMoves(a) /\ call'[a].at = "failed"
    BY <1>1, <1>5, GotoCall DEF Places, Elsewhere
  <2> QED
    BY <1>1, <2>1, OnlyCallsStep DEF Elsewhere
<1>6. ASSUME NEW d \in call[a].todo, Compatible(c, d),
             call' = [call EXCEPT ![a].at = "netLock", ![a].group = {c, d}, ![a].todo = @ \ {d}]
      PROVE  StepOK(a)
  <2>1. d # c /\ d \in Combos
    BY <1>2, <1>6 DEF Compatible
  <2> DEFINE G == {c, d}
             T == call[a].todo \ {d}
  <2>2. G \in SUBSET Combos /\ T \in SUBSET Combos
    BY <1>1, <1>2, <2>1
  <2>3. call' = [call EXCEPT ![a].at = "netLock", ![a].group = G, ![a].todo = T]
    BY <1>6
  <2> HIDE DEF G, T
  <2> DEFINE r == [call[a] EXCEPT !.at = "netLock", !.group = G, !.todo = T]
  <2>4. CallMoves(a) /\ call'[a].at = "netLock" /\ call'[a].group = G
    <3>1. r \in CallType /\ r.at = "netLock" /\ r.group = G
      BY <1>1, <2>2, CallFields DEF CallType, Places
    <3>2. call' = [call EXCEPT ![a] = r]
      BY <2>3
    <3> HIDE DEF r
    <3> QED
      BY <1>1, <3>1, <3>2, CallUpdate
  <2>5. RowsHeld(a)' /\ DoneIsDone(a)'
    BY <2>1, <2>4 DEF RowsHeld, DoneIsDone, Finished, At, G
  <2> QED
    BY <1>1, <2>4, <2>5, OnlyCallsStep
<1>7. ASSUME At(a, "next"), NEW d \in call[a].todo, call' = [call EXCEPT ![a].todo = @ \ {d}]
      PROVE  StepOK(a)
  <2> DEFINE T == call[a].todo \ {d}
  <2>1. T \in SUBSET Combos /\ call' = [call EXCEPT ![a].todo = T]
    BY <1>2, <1>7
  <2> HIDE DEF T
  <2>2. CallMoves(a) /\ call'[a].at = "next"
    BY <1>1, <1>7, <2>1 DEF CallsOK, CallMoves, CallType, At
  <2> QED
    BY <1>1, <2>2, OnlyCallsStep DEF Elsewhere
<1> QED
  BY <1>3, <1>4, <1>5, <1>6, <1>7

LEMMA NetLockStep ==
  ASSUME ComboInv, NEW a \in Accepts, NetLock(a)
  PROVE  StepOK(a)
<1>1. /\ CallsOK /\ PlacesOK /\ At(a, "netLock") /\ LockAll(a, call[a].group, "netRow") /\ RowsHeld(a)
      /\ UNCHANGED <<tables, row, registry, external, faults>>
  BY DEF ComboInv, NetLock
<1>2. lock' \in [Combos -> Accepts \cup {Free}] /\ (Goto(a, "netRow") \/ Goto(a, "failed"))
  BY <1>1, LockedPlaces
<1>3. Quiet /\ PlacesOK' /\ row' = row
  BY <1>1, <1>2 DEF PlacesOK, Quiet, tables, registry
<1>4. CASE Goto(a, "netRow")
  <2>1. CallMoves(a) /\ call'[a].at = "netRow" /\ call'[a].group = call[a].group
    BY <1>1, <1>4, GotoCall DEF Places
  <2>2. RowsHeld(a)' /\ DoneIsDone(a)'
    BY <1>1, <2>1 DEF RowsHeld, DoneIsDone, Finished, At
  <2> QED
    BY <1>3, <2>1, <2>2, QuietStep
<1>5. CASE Goto(a, "failed")
  <2>1. CallMoves(a) /\ call'[a].at = "failed"
    BY <1>1, <1>5, GotoCall DEF Places, Elsewhere
  <2> QED
    BY <1>3, <2>1, QuietStep DEF Elsewhere
<1> QED
  BY <1>2, <1>4, <1>5

\* FOR UPDATE: the row is free, and what is read of it is what there is.
LEMMA SelectIncomingStep ==
  ASSUME ComboInv, NEW a \in Accepts, SelectIncoming(a)
  PROVE  StepOK(a)
<1> DEFINE c == ComboOf[a]
<1>1. /\ CallsOK /\ PlacesOK /\ At(a, "netRow") /\ row[c] = Free /\ RowsHeld(a)
      /\ row' = [row EXCEPT ![c] = a]
      /\ call' = [call EXCEPT ![a].at = "peerRow", ![a].seen = left[c]]
      /\ UNCHANGED <<tables, lock, registry, external, faults>>
      /\ c \in Combos /\ left[c] \in Vectors
  BY CallsAssumption DEF ComboInv, SelectIncoming, LedgerOK, BooksOK
<1>2. /\ Quiet /\ PlacesOK' /\ row'[c] = a /\ left' = left
      /\ \A e \in Combos : row[e] \notin {Free, a} => row'[e] = row[e]
  BY <1>1 DEF PlacesOK, Quiet, tables, registry
<1>3. /\ CallMoves(a) /\ call'[a].at = "peerRow"
      /\ call'[a].group = call[a].group /\ call'[a].seen = left[c]
  BY <1>1 DEF CallsOK, CallMoves, CallType, Places
<1>4. RowsHeld(a)' /\ DoneIsDone(a)'
  BY <1>1, <1>2, <1>3 DEF RowsHeld, DoneIsDone, Finished, At
<1> QED
  BY <1>2, <1>3, <1>4, QuietStep

LEMMA ClosingIsState == \A v : Closing(v) \in States
BY DEF Closing, States

\* The incoming row is locked since it was read and the other one is free: what
\* is written is a match of what there is.
LEMMA NetPairStep ==
  ASSUME ComboInv, NEW a \in Accepts, NetPair(a)
  PROVE  StepOK(a)
<1> DEFINE c == ComboOf[a]
           d == CHOOSE e \in call[a].group : e # c
           v == call[a].seen
           P == Opposed(v, left[d])
           n == Nettable(v, left[d])
<1>1. CallsOK /\ PlacesOK /\ LedgerOK /\ RowsHeld(a) /\ At(a, "peerRow") /\ c \in Combos
  BY CallsAssumption DEF ComboInv, NetPair
<1>2. d \in Combos /\ d # c
  <2>1. PICK e \in Combos : e # c /\ call[a].group = {c, e}
    BY <1>1 DEF RowsHeld, At
  <2>2. d \in call[a].group /\ d # c
    BY <2>1
  <2> HIDE DEF d
  <2> QED
    BY <1>1, <2>1, <2>2
<1>3. row[c] = a /\ v = left[c]
  BY <1>1 DEF RowsHeld
<1>4. row[d] = Free /\ EndTransaction(a) /\ UNCHANGED <<lock, registry, external>>
  BY DEF NetPair
<1> DEFINE A == /\ left' = [left EXCEPT ![c] = CutOf(v, P, n), ![d] = CutOf(left[d], P, n)]
                /\ matched' = [matched EXCEPT ![c] = MetOf(c, matched[c], P, n),
                                              ![d] = MetOf(d, matched[d], P, n)]
                /\ state' = [state EXCEPT ![c] = Closing(left'[c]), ![d] = Closing(left'[d])]
                /\ attempts' = attempts \cup {AttemptId(c, d, P, n)}
                /\ UNCHANGED rounds
<1>5. /\ UNCHANGED tables \/ (Compatible(c, d) /\ A)
      /\ Goto(a, "unlock") \/ Goto(a, "netFailed")
      /\ UNCHANGED faults \/ Fault
  <2> HIDE DEF d
  <2>1. left[d] = left[d] /\ matched[c] = matched[c]
    OBVIOUS
  <2> QED
    BY DEF NetPair, CutOf, MetOf, d
<1> HIDE DEF d
<1>6. CallMoves(a) /\ call'[a].at \in {"unlock", "netFailed"}
  BY <1>1, <1>5, GotoCall DEF Places, Elsewhere
<1>7. RowsHeld(a)' /\ DoneIsDone(a)'
  BY <1>6, ElsewhereOK DEF Elsewhere
<1>8. faults' \in 0..MaxFaults
  BY <1>1, <1>5, FaultAssumption DEF PlacesOK, Fault
<1>9. /\ row' \in [Combos -> Accepts \cup {Free}]
      /\ \A e \in Combos : row[e] \notin {Free, a} => row'[e] = row[e]
  BY <1>1, <1>4, EndedRows
<1>10. CASE UNCHANGED tables
  <2>1. Quiet /\ PlacesOK'
    BY <1>1, <1>4, <1>8, <1>9, <1>10 DEF Quiet, tables, registry, PlacesOK
  <2> QED
    BY <1>6, <1>9, <2>1, QuietStep DEF Elsewhere
<1>11. CASE Compatible(c, d) /\ A
  <2>1. Opposed(left[c], left[d]) # {}
    BY <1>11 DEF Compatible
  <2>2. MatchPair(c, d)
    BY <1>3, <1>11, <2>1 DEF MatchPair
  <2>3. LedgerOK' /\ Shrinks
    BY <1>1, <1>2, <2>2, PairKeeps
  <2>4. state' \in [Combos -> States]
    BY <1>1, <1>11, ClosingIsState DEF PlacesOK
  <2>5. PlacesOK'
    BY <1>1, <1>4, <1>8, <1>9, <2>4 DEF PlacesOK, registry
  <2>6. \A e \in Combos : row[e] \notin {Free, a} => left'[e] = left[e]
    <3>1. \A e \in Combos : e # c /\ e # d => left'[e] = left[e]
      BY <1>1, <1>11 DEF LedgerOK, BooksOK
    <3> QED
      BY <1>3, <1>4, <3>1
  <2>7. OthersKept(a)
    BY <1>9, <2>6 DEF OthersKept
  <2> QED
    BY <1>6, <1>7, <2>3, <2>5, <2>7 DEF StepOK
<1> QED
  BY <1>5, <1>10, <1>11

LEMMA NetUnlockStep ==
  ASSUME ComboInv, NEW a \in Accepts, NetUnlock(a)
  PROVE  StepOK(a)
<1>1. CallsOK /\ PlacesOK /\ UnlockAll(a) /\ UNCHANGED <<tables, row, registry, external, faults>>
  BY DEF ComboInv, NetUnlock
<1>2. Quiet /\ PlacesOK' /\ row' = row
  BY <1>1, UnlockedPlaces DEF Quiet, PlacesOK, tables, registry
<1>3. CallMoves(a) /\ call'[a].at \in Elsewhere
  <2> DEFINE place == IF At(a, "unlock") THEN "next" ELSE "failed"
  <2>1. place \in Elsewhere /\ place \in Places
    BY DEF Places, Elsewhere
  <2>2. call' = [call EXCEPT ![a].at = place, ![a].group = {}, ![a].seen = Zero]
    BY DEF NetUnlock
  <2> HIDE DEF place
  <2> QED
    BY <1>1, <2>1, <2>2, ZeroIsVector DEF CallsOK, CallMoves, CallType
<1> QED
  BY <1>2, <1>3, QuietStep

LEMMA NettedStep ==
  ASSUME ComboInv, NEW a \in Accepts, Netted(a)
  PROVE  StepOK(a)
<1>1. CallsOK /\ OnlyCalls /\ At(a, "netted") /\ DoneIsDone(a) /\ left' = left
  BY DEF ComboInv, Netted, OnlyCalls, tables
<1>2. \/ call[a].want = Zero /\ Enter(a, "filled")
      \/ Enter(a, "register")
      \/ Enter(a, "route")
  BY DEF Netted
<1>3. CASE call[a].want = Zero /\ Enter(a, "filled")
  <2>1. CallMoves(a) /\ call'[a].at = "filled"
    BY <1>1, <1>3, EnterCall DEF Places
  <2>2. left[ComboOf[a]] = Zero
    BY <1>1, <1>3 DEF DoneIsDone, Finished
  <2>3. RowsHeld(a)' /\ DoneIsDone(a)'
    BY <1>1, <2>1, <2>2 DEF RowsHeld, DoneIsDone, At
  <2> QED
    BY <1>1, <2>1, <2>3, OnlyCallsStep
<1>4. CASE Enter(a, "register") \/ Enter(a, "route")
  <2>1. CallMoves(a) /\ call'[a].at \in {"register", "route"}
    BY <1>1, <1>4, EnterCall DEF Places, Elsewhere
  <2> QED
    BY <1>1, <2>1, OnlyCallsStep DEF Elsewhere
<1> QED
  BY <1>2, <1>3, <1>4

LEMMA RegisterStep ==
  ASSUME ComboInv, NEW a \in Accepts, Register(a)
  PROVE  StepOK(a)
<1>1. /\ CallsOK /\ PlacesOK /\ ComboOf[a] \in Combos /\ Goto(a, "list")
      /\ snapshot' = [snapshot EXCEPT ![ComboOf[a]] = call[a].want]
      /\ bucket' = bucket \cup {ComboOf[a]}
      /\ UNCHANGED <<tables, row, lock, external, faults>>
  BY CallsAssumption DEF ComboInv, Register
<1>2. call[a].want \in Vectors
  BY <1>1, CallFields
<1>3. Quiet /\ PlacesOK' /\ row' = row
  BY <1>1, <1>2 DEF Quiet, PlacesOK, Snapshots, tables
<1>4. CallMoves(a) /\ call'[a].at = "list"
  BY <1>1, GotoCall DEF Places, Elsewhere
<1> QED
  BY <1>3, <1>4, QuietStep DEF Elsewhere

LEMMA ListBucketStep ==
  ASSUME ComboInv, NEW a \in Accepts, ListBucket(a)
  PROVE  StepOK(a)
<1>1. CallsOK /\ OnlyCalls /\ bucket \subseteq Combos
  BY DEF ComboInv, PlacesOK, ListBucket, OnlyCalls
<1>2. CallMoves(a) /\ call'[a].at \in Elsewhere
  <2> DEFINE place == IF bucket = {} THEN "withdraw" ELSE "plan"
  <2>1. place \in Elsewhere /\ place \in Places
    BY DEF Places, Elsewhere
  <2>2. call' = [call EXCEPT ![a].at = place, ![a].todo = bucket]
    BY DEF ListBucket
  <2> HIDE DEF place
  <2> QED
    BY <1>1, <2>1, <2>2 DEF CallsOK, CallMoves, CallType
<1> QED
  BY <1>1, <1>2, OnlyCallsStep

\* The group is made of combos of the page, and all its rows are still to be locked.
LEMMA PlanRoundStep ==
  ASSUME ComboInv, NEW a \in Accepts, PlanRound(a)
  PROVE  StepOK(a)
<1>1. CallsOK /\ OnlyCalls /\ snapshot \in Snapshots /\ call[a].todo \in SUBSET Combos
  BY CallFields DEF ComboInv, PlacesOK, PlanRound, OnlyCalls
<1>2. \/ Goto(a, "failed")
      \/ Goto(a, "withdraw")
      \/ \E G \in BestGroups(call[a].todo, snapshot) :
            call' = [call EXCEPT ![a].at = IF ComboOf[a] \in G THEN "roundLock" ELSE "withdraw",
                                 ![a].group = G, ![a].plan = Signature(G, snapshot),
                                 ![a].todo = G]
  BY DEF PlanRound
<1>3. CASE Goto(a, "failed") \/ Goto(a, "withdraw")
  <2>1. CallMoves(a) /\ call'[a].at \in {"failed", "withdraw"}
    BY <1>1, <1>3, GotoCall DEF Places, Elsewhere
  <2> QED
    BY <1>1, <2>1, OnlyCallsStep DEF Elsewhere
<1>4. ASSUME NEW G \in BestGroups(call[a].todo, snapshot),
             call' = [call EXCEPT ![a].at = IF ComboOf[a] \in G THEN "roundLock" ELSE "withdraw",
                                  ![a].group = G, ![a].plan = Signature(G, snapshot),
                                  ![a].todo = G]
      PROVE  StepOK(a)
  <2> DEFINE place == IF ComboOf[a] \in G THEN "roundLock" ELSE "withdraw"
             plan == Signature(G, snapshot)
  <2>1. G \in SUBSET Combos
    BY <1>1 DEF BestGroups
  <2>2. plan \in Plans
    <3>1. <<G, snapshot>> \in (SUBSET Combos) \X Snapshots
      BY <1>1, <2>1
    <3> QED
      BY <3>1 DEF Plans
  <2>3. place \in {"roundLock", "withdraw"} /\ place \in Places
    BY DEF Places, Elsewhere
  <2> HIDE DEF place, plan
  <2>4. call' = [call EXCEPT ![a].at = place, ![a].group = G, ![a].plan = plan, ![a].todo = G]
    BY <1>4 DEF place, plan
  <2> DEFINE r == [call[a] EXCEPT !.at = place, !.group = G, !.plan = plan, !.todo = G]
  <2>5. CallMoves(a) /\ call'[a].at = place /\ call'[a].group = G /\ call'[a].todo = G
    <3>1. r \in CallType /\ r.at = place /\ r.group = G /\ r.todo = G
      BY <1>1, <2>1, <2>2, <2>3, CallFields DEF CallType
    <3>2. call' = [call EXCEPT ![a] = r]
      BY <2>4
    <3> HIDE DEF r
    <3> QED
      BY <1>1, <3>1, <3>2, CallUpdate
  <2>6. RowsHeld(a)' /\ DoneIsDone(a)'
    BY <2>3, <2>5 DEF RowsHeld, DoneIsDone, Finished, At
  <2> QED
    BY <1>1, <2>5, <2>6, OnlyCallsStep
<1> QED
  BY <1>2, <1>3, <1>4

LEMMA WithdrawStep ==
  ASSUME ComboInv, NEW a \in Accepts, Withdraw(a)
  PROVE  StepOK(a)
<1>1. /\ CallsOK /\ PlacesOK /\ Enter(a, "route")
      /\ snapshot' = [snapshot EXCEPT ![ComboOf[a]] = NotListed]
      /\ bucket' = bucket \ {ComboOf[a]}
      /\ UNCHANGED <<tables, row, lock, external, faults>>
  BY DEF ComboInv, Withdraw
<1>2. Quiet /\ PlacesOK' /\ row' = row
  BY <1>1 DEF Quiet, PlacesOK, Snapshots, tables
<1>3. CallMoves(a) /\ call'[a].at = "route"
  BY <1>1, EnterCall DEF Places, Elsewhere
<1> QED
  BY <1>2, <1>3, QuietStep DEF Elsewhere

LEMMA RoundLockStep ==
  ASSUME ComboInv, NEW a \in Accepts, RoundLock(a)
  PROVE  StepOK(a)
<1>1. /\ CallsOK /\ PlacesOK /\ At(a, "roundLock") /\ RowsHeld(a)
      /\ LockAll(a, call[a].group, "roundRows")
      /\ UNCHANGED <<tables, row, registry, external, faults>>
  BY DEF ComboInv, RoundLock
<1>2. lock' \in [Combos -> Accepts \cup {Free}] /\ (Goto(a, "roundRows") \/ Goto(a, "failed"))
  BY <1>1, LockedPlaces
<1>3. Quiet /\ PlacesOK' /\ row' = row
  BY <1>1, <1>2 DEF PlacesOK, Quiet, tables, registry
<1>4. CASE Goto(a, "roundRows")
  <2>1. /\ CallMoves(a) /\ call'[a].at = "roundRows"
        /\ call'[a].group = call[a].group /\ call'[a].todo = call[a].todo
    BY <1>1, <1>4, GotoCall DEF Places
  <2>2. RowsHeld(a)' /\ DoneIsDone(a)'
    BY <1>1, <2>1 DEF RowsHeld, DoneIsDone, Finished, At
  <2> QED
    BY <1>3, <2>1, <2>2, QuietStep
<1>5. CASE Goto(a, "failed")
  <2>1. CallMoves(a) /\ call'[a].at = "failed"
    BY <1>1, <1>5, GotoCall DEF Places, Elsewhere
  <2> QED
    BY <1>3, <2>1, QuietStep DEF Elsewhere
<1> QED
  BY <1>2, <1>4, <1>5

LEMMA RoundRowStep ==
  ASSUME ComboInv, NEW a \in Accepts, RoundRow(a)
  PROVE  StepOK(a)
<1> DEFINE c == Min(call[a].todo)
           T == call[a].todo \ {c}
<1>1. /\ CallsOK /\ PlacesOK /\ At(a, "roundRows") /\ RowsHeld(a) /\ row[c] = Free
      /\ row' = [row EXCEPT ![c] = a]
      /\ call' = [call EXCEPT ![a].todo = T]
      /\ UNCHANGED <<tables, lock, registry, external, faults>>
  BY DEF ComboInv, RoundRow
<1>2. call[a].group \subseteq Combos /\ T \in SUBSET Combos
  BY <1>1, CallFields
<1>3. T = call[a].todo \ {c}
  OBVIOUS
<1> HIDE DEF c, T
<1>4. /\ Quiet /\ PlacesOK'
      /\ \A e \in Combos : row[e] \notin {Free, a} => row'[e] = row[e]
      /\ \A e \in Combos : e = c => row'[e] = a
      /\ \A e \in Combos : row[e] = a => row'[e] = a
  BY <1>1 DEF PlacesOK, Quiet, tables, registry
<1>5. CallMoves(a) /\ call'[a].at = "roundRows" /\ call'[a].group = call[a].group /\ call'[a].todo = T
  BY <1>1, <1>2 DEF CallsOK, CallMoves, CallType, At
<1>6. \A e \in call[a].group \ T : row'[e] = a
  BY <1>1, <1>2, <1>3, <1>4 DEF RowsHeld
<1>7. RowsHeld(a)' /\ DoneIsDone(a)'
  BY <1>5, <1>6 DEF RowsHeld, DoneIsDone, Finished, At
<1> QED
  BY <1>4, <1>5, <1>7, QuietStep

\* Every row of the group is locked by the call that writes them.
LEMMA ApplyRoundStep ==
  ASSUME ComboInv, NEW a \in Accepts, ApplyRound(a)
  PROVE  StepOK(a)
<1> DEFINE S == call[a].group
           kept == [c \in S |-> [k \in Keys |-> Kept(S, left, c, k)]]
           A == /\ left' = [c \in Combos |-> IF c \in S THEN kept[c] ELSE left[c]]
                /\ matched' = [c \in Combos |->
                     IF c \in S THEN [k \in Keys |-> matched[c][k] + left[c][k] - kept[c][k]]
                     ELSE matched[c]]
                /\ state' = [c \in Combos |-> IF c \in S THEN Closing(kept[c]) ELSE state[c]]
                /\ rounds' = rounds \cup {Signature(S, left)}
                /\ UNCHANGED attempts
           R == call' = [call EXCEPT ![a].at = "refresh", ![a].todo = S]
<1>1. CallsOK /\ PlacesOK /\ LedgerOK /\ RowsHeld(a) /\ At(a, "roundRows") /\ call[a].todo = {}
  BY DEF ComboInv, ApplyRound
<1>2. S \in SUBSET Combos /\ \A c \in S : row[c] = a
  BY <1>1, CallFields DEF RowsHeld
<1>3. EndTransaction(a) /\ UNCHANGED <<lock, registry, external>>
  BY DEF ApplyRound
<1>4. /\ UNCHANGED tables \/ A
      /\ Goto(a, "replay") \/ R
      /\ UNCHANGED faults \/ Fault
  BY DEF ApplyRound
<1>5. CallMoves(a) /\ call'[a].at \in {"replay", "refresh"}
  <2>1. CASE Goto(a, "replay")
    BY <1>1, <2>1, GotoCall DEF Places, Elsewhere
  <2>2. ASSUME R, NEW T, T = S
        PROVE  CallMoves(a) /\ call'[a].at = "refresh"
    <3>1. T \in SUBSET Combos /\ call' = [call EXCEPT ![a].at = "refresh", ![a].todo = T]
      BY <1>2, <2>2
    <3> QED
      BY ONLY <1>1, <3>1, a \in Accepts, TodoCall DEF Places, Elsewhere
  <2> QED
    BY <1>4, <2>1, <2>2
<1>6. RowsHeld(a)' /\ DoneIsDone(a)'
  BY <1>5, ElsewhereOK DEF Elsewhere
<1>7. faults' \in 0..MaxFaults
  BY <1>1, <1>4, FaultAssumption DEF PlacesOK, Fault
<1>8. /\ row' \in [Combos -> Accepts \cup {Free}]
      /\ \A e \in Combos : row[e] \notin {Free, a} => row'[e] = row[e]
  BY <1>1, <1>3, EndedRows
<1>9. CASE UNCHANGED tables
  <2>1. Quiet /\ PlacesOK'
    BY <1>1, <1>3, <1>7, <1>8, <1>9 DEF Quiet, tables, registry, PlacesOK
  <2> QED
    BY <1>5, <1>8, <2>1, QuietStep DEF Elsewhere
<1>10. CASE A
  <2>1. MatchRound(S)
    BY <1>10 DEF MatchRound
  <2>2. LedgerOK' /\ Shrinks
    <3> HIDE DEF S
    <3> QED
      BY <1>1, <1>2, <2>1, RoundKeeps
  <2>3. state' \in [Combos -> States]
    <3>1. state' = [c \in Combos |-> IF c \in S THEN Closing(kept[c]) ELSE state[c]]
      BY <1>10
    <3> HIDE DEF kept, S
    <3> QED
      BY <1>1, <3>1, ClosingIsState DEF PlacesOK
  <2>4. PlacesOK'
    BY <1>1, <1>3, <1>7, <1>8, <2>3 DEF PlacesOK, registry
  <2>5. \A e \in Combos : row[e] \notin {Free, a} => left'[e] = left[e]
    <3>1. \A e \in Combos \ S : left'[e] = left[e]
      BY <1>10
    <3> QED
      BY <1>2, <3>1
  <2>6. OthersKept(a)
    BY <1>8, <2>5 DEF OthersKept
  <2> QED
    BY <1>5, <1>6, <2>2, <2>4, <2>6 DEF StepOK
<1> QED
  BY <1>4, <1>9, <1>10

LEMMA ReplayStep ==
  ASSUME ComboInv, NEW a \in Accepts, Replay(a)
  PROVE  StepOK(a)
<1>1. /\ CallsOK /\ PlacesOK /\ UnlockAll(a) /\ (Enter(a, "cleared") \/ Enter(a, "failed"))
      /\ UNCHANGED <<tables, row, registry, external, faults>>
  BY DEF ComboInv, Replay
<1>2. Quiet /\ PlacesOK' /\ row' = row
  BY <1>1, UnlockedPlaces DEF Quiet, PlacesOK, tables, registry
<1>3. CallMoves(a) /\ call'[a].at \in {"cleared", "failed"}
  BY <1>1, EnterCall DEF Places, Elsewhere
<1> QED
  BY <1>2, <1>3, QuietStep DEF Elsewhere

LEMMA RefreshOutStep ==
  ASSUME ComboInv, NEW a \in Accepts, RefreshOut(a)
  PROVE  StepOK(a)
<1>1. /\ CallsOK /\ PlacesOK /\ Goto(a, "refreshIn")
      /\ snapshot' = [snapshot EXCEPT ![Oldest(a)] = NotListed]
      /\ bucket' = bucket \ {Oldest(a)}
      /\ UNCHANGED <<tables, row, lock, external, faults>>
  BY DEF ComboInv, RefreshOut
<1>2. Quiet /\ PlacesOK' /\ row' = row
  BY <1>1 DEF Quiet, PlacesOK, Snapshots, tables
<1>3. CallMoves(a) /\ call'[a].at = "refreshIn" /\ call'[a].todo # {}
  BY <1>1, GotoCall DEF Places, RefreshOut
<1>4. RowsHeld(a)' /\ DoneIsDone(a)'
  BY <1>3 DEF RowsHeld, DoneIsDone, Finished, At
<1> QED
  BY <1>2, <1>3, <1>4, QuietStep

\* What is put back into the bucket are participants that are still to be refreshed.
LEMMA RefreshInStep ==
  ASSUME ComboInv, NEW a \in Accepts, RefreshIn(a)
  PROVE  StepOK(a)
<1> DEFINE c == Oldest(a)
           T == call[a].todo \ {c}
<1>0. c \in Combos
  <2>1. call[a].todo # {} /\ call[a].todo \subseteq Combos /\ Combos \subseteq Int
    BY CallFields, CombosAssumption DEF ComboInv, RowsHeld, RefreshIn
  <2>2. IsFiniteSet(call[a].todo) /\ call[a].todo \subseteq Int
    BY <2>1, CombosAssumption, FS_Subset
  <2> QED
    BY <2>1, <2>2, FiniteHasLeast, LeastIsMin DEF Oldest
<1>1. /\ CallsOK /\ PlacesOK /\ left[c] \in Vectors
      /\ UNCHANGED <<tables, row, lock, external>>
      /\ \/ /\ bucket' = bucket \cup {c}
            /\ snapshot' = [snapshot EXCEPT ![c] = left[c]]
            /\ UNCHANGED faults
         \/ UNCHANGED <<registry, faults>>
         \/ Fault /\ UNCHANGED registry
  BY <1>0 DEF ComboInv, RefreshIn, LedgerOK, BooksOK
<1>2. call' = [call EXCEPT ![a].at = "refresh", ![a].todo = T] /\ T \in SUBSET Combos
  BY <1>1, CallFields DEF RefreshIn
<1> HIDE DEF T
<1>3. faults' \in 0..MaxFaults
  BY <1>1, FaultAssumption DEF PlacesOK, Fault
<1>4. bucket' \subseteq Combos /\ snapshot' \in Snapshots
  BY <1>0, <1>1 DEF PlacesOK, Snapshots, registry
<1>5. Quiet /\ PlacesOK' /\ row' = row
  BY <1>1, <1>3, <1>4 DEF Quiet, PlacesOK, tables
<1>6. CallMoves(a) /\ call'[a].at = "refresh"
  BY <1>1, <1>2, TodoCall DEF Places, Elsewhere
<1> QED
  BY <1>5, <1>6, QuietStep DEF Elsewhere

LEMMA RoundUnlockStep ==
  ASSUME ComboInv, NEW a \in Accepts, RoundUnlock(a)
  PROVE  StepOK(a)
<1>1. /\ CallsOK /\ PlacesOK /\ UnlockAll(a) /\ Enter(a, "cleared")
      /\ UNCHANGED <<tables, row, registry, external, faults>>
  BY DEF ComboInv, RoundUnlock
<1>2. Quiet /\ PlacesOK' /\ row' = row
  BY <1>1, UnlockedPlaces DEF Quiet, PlacesOK, tables, registry
<1>3. CallMoves(a) /\ call'[a].at = "cleared"
  BY <1>1, EnterCall DEF Places, Elsewhere
<1> QED
  BY <1>2, <1>3, QuietStep DEF Elsewhere

\* After a round the call looks at what there is, not at what it planned.
LEMMA ClearedStep ==
  ASSUME ComboInv, NEW a \in Accepts, Cleared(a)
  PROVE  StepOK(a)
<1> DEFINE c == ComboOf[a]
           place == IF left[c] = Zero THEN "filled" ELSE "withdraw"
<1>1. CallsOK /\ OnlyCalls /\ left' = left /\ left[c] \in Vectors
  BY CallsAssumption DEF ComboInv, LedgerOK, BooksOK, Cleared, OnlyCalls, tables
<1>2. /\ place \in {"filled", "withdraw"} /\ place \in Places
      /\ place = "filled" => left[c] = Zero
  BY DEF Places, Elsewhere
<1>3. call' = [call EXCEPT ![a].want = left[c], ![a].at = place]
  BY DEF Cleared
<1> HIDE DEF place
<1>4. CallMoves(a) /\ call'[a].at = place
  BY <1>1, <1>2, <1>3 DEF CallsOK, CallMoves, CallType
<1>5. RowsHeld(a)' /\ DoneIsDone(a)'
  BY <1>1, <1>2, <1>4 DEF RowsHeld, DoneIsDone, Finished, At
<1> QED
  BY <1>1, <1>4, <1>5, OnlyCallsStep

\* The state that acceptCombo writes last says nothing of the sizes; only a call
\* that found nothing left reports an internal fill.
LEMMA ConcludeStep ==
  ASSUME ComboInv, NEW a \in Accepts, NEW place, NEW value \in States, NEW result,
         Conclude(a, place, value, result),
         result \in Elsewhere \/ (place = "filled" /\ result = "internal")
  PROVE  StepOK(a)
<1>1. /\ CallsOK /\ PlacesOK /\ DoneIsDone(a) /\ At(a, place)
      /\ state' = [state EXCEPT ![ComboOf[a]] = value]
      /\ Quiet /\ UNCHANGED <<row, lock, registry, external, faults>>
      /\ Goto(a, result) \/ call' = [call EXCEPT ![a] = [Idle EXCEPT !.at = result]]
  BY DEF ComboInv, Conclude, WriteState, Quiet
<1>2. PlacesOK' /\ row' = row /\ left' = left
  BY <1>1 DEF PlacesOK, registry, Quiet
<1>3. result \in Places
  BY DEF Places
<1>4. CallMoves(a) /\ call'[a].at = result
  <2>1. CASE Goto(a, result)
    BY <1>1, <1>3, <2>1, GotoCall
  <2>2. CASE call' = [call EXCEPT ![a] = [Idle EXCEPT !.at = result]]
    <3> DEFINE r == [Idle EXCEPT !.at = result]
    <3>1. r \in CallType /\ r.at = result
      BY <1>3, ZeroIsVector DEF Idle, CallType, Plans
    <3>2. call' = [call EXCEPT ![a] = r]
      BY <2>2
    <3> HIDE DEF r
    <3> QED
      BY <1>1, <3>1, <3>2, CallUpdate
  <2> QED
    BY <1>1, <2>1, <2>2
<1>5. CASE result \in Elsewhere
  BY <1>1, <1>2, <1>4, <1>5, QuietStep
<1>6. CASE place = "filled" /\ result = "internal"
  <2>1. left[ComboOf[a]] = Zero
    BY <1>1, <1>6 DEF DoneIsDone, Finished
  <2>2. RowsHeld(a)' /\ DoneIsDone(a)'
    BY <1>2, <1>4, <1>6, <2>1 DEF RowsHeld, DoneIsDone, At
  <2> QED
    BY <1>1, <1>2, <1>4, <2>2, QuietStep
<1> QED
  BY <1>5, <1>6

LEMMA RouteStep ==
  ASSUME ComboInv, NEW a \in Accepts, Route(a)
  PROVE  StepOK(a)
<1>1. Conclude(a, "route", "ACCEPTED", "venues") /\ "ACCEPTED" \in States
  BY DEF Route, States
<1> QED
  BY <1>1, ConcludeStep DEF Elsewhere

LEMMA EndStep ==
  ASSUME ComboInv, NEW a \in Accepts, End(a)
  PROVE  StepOK(a)
<1>1. {"EXPIRED", "EXECUTED", "FAILED"} \subseteq States
  BY DEF States
<1>2. {"refused", "external", "lost", "threw"} \subseteq Elsewhere
  BY DEF Elsewhere
<1>3. CASE Conclude(a, "expired", "EXPIRED", "refused")
  BY <1>1, <1>2, <1>3, ConcludeStep
<1>4. CASE Conclude(a, "filled", "EXECUTED", "internal")
  BY <1>1, <1>4, ConcludeStep
<1>5. CASE Conclude(a, "completed", "EXECUTED", "external")
  BY <1>1, <1>2, <1>5, ConcludeStep
<1>6. CASE Conclude(a, "rejected", "FAILED", "lost")
  BY <1>1, <1>2, <1>6, ConcludeStep
<1>7. CASE Conclude(a, "failed", "FAILED", "threw")
  BY <1>1, <1>2, <1>7, ConcludeStep
<1> QED
  BY <1>3, <1>4, <1>5, <1>6, <1>7 DEF End

LEMMA VenuesStep ==
  ASSUME ComboInv, NEW a \in Accepts, Venues(a)
  PROVE  StepOK(a)
<1>1. /\ CallsOK /\ PlacesOK /\ (Goto(a, "completed") \/ Goto(a, "rejected"))
      /\ UNCHANGED <<tables, row, lock, registry, faults>>
  BY DEF ComboInv, Venues
<1>2. Quiet /\ PlacesOK' /\ row' = row
  BY <1>1 DEF Quiet, PlacesOK, tables, registry
<1>3. CallMoves(a) /\ call'[a].at \in {"completed", "rejected"}
  BY <1>1, GotoCall DEF Places, Elsewhere
<1> QED
  BY <1>2, <1>3, QuietStep DEF Elsewhere

LEMMA AcceptStep ==
  ASSUME ComboInv, NEW a \in Accepts, Accept(a)
  PROVE  ComboInv'
<1>1. StepOK(a)
  BY BeginStep, FindCandidatesStep, NextCandidateStep, NetLockStep, SelectIncomingStep,
     NetPairStep, NetUnlockStep, NettedStep, RegisterStep, ListBucketStep, PlanRoundStep,
     WithdrawStep, RoundLockStep, RoundRowStep, ApplyRoundStep, ReplayStep, RefreshOutStep,
     RefreshInStep, RoundUnlockStep, ClearedStep, RouteStep, VenuesStep, EndStep, DeadlockStep
     DEF Accept
<1> QED
  BY <1>1, StepKeeps

----------------------------------------------------------------------------
(* What happens beside the calls, the start, and the theorems.             *)

\* A step of no call that writes no sizes and no rows.
LEMMA BesideStep ==
  ASSUME ComboInv, Quiet, PlacesOK', UNCHANGED <<row, call>>
  PROVE  ComboInv'
<1>1. LedgerOK' /\ left' = left
  BY QuietLedger DEF ComboInv, Quiet
<1>2. CallsOK' /\ \A a \in Accepts : RowsHeld(a)' /\ DoneIsDone(a)'
  BY <1>1 DEF ComboInv, CallsOK, RowsHeld, DoneIsDone, Finished, At
<1> QED
  BY <1>1, <1>2 DEF ComboInv

LEMMA ExpireKeeps ==
  ASSUME ComboInv, NEW c \in Combos, Expire(c)
  PROVE  ComboInv'
<1>1. Quiet /\ PlacesOK' /\ UNCHANGED <<row, call>>
  BY DEF ComboInv, Expire, Quiet, PlacesOK, tables, registry
<1> QED
  BY <1>1, BesideStep

LEMMA ReconcileKeeps ==
  ASSUME ComboInv, NEW c \in Combos, Reconcile(c)
  PROVE  ComboInv'
<1>1. left[c] \in Vectors
  BY DEF ComboInv, LedgerOK, BooksOK
<1>2. Quiet /\ PlacesOK' /\ UNCHANGED <<row, call>>
  BY <1>1 DEF ComboInv, Reconcile, Quiet, PlacesOK, Snapshots, tables
<1> QED
  BY <1>2, BesideStep

LEMMA NextComboInv == ComboInv /\ [Next]_vars => ComboInv'
<1> SUFFICES ASSUME ComboInv, [Next]_vars PROVE ComboInv'
  OBVIOUS
<1>1. CASE UNCHANGED vars
  <2>1. Quiet /\ PlacesOK' /\ UNCHANGED <<row, call>>
    BY <1>1 DEF ComboInv, vars, tables, registry, Quiet, PlacesOK
  <2> QED
    BY <2>1, BesideStep
<1>2. ASSUME NEW a \in Accepts, Accept(a) PROVE ComboInv'
  BY <1>2, AcceptStep
<1>3. ASSUME NEW c \in Combos, Expire(c) \/ Reconcile(c) PROVE ComboInv'
  BY <1>3, ExpireKeeps, ReconcileKeeps
<1> QED
  BY <1>1, <1>2, <1>3 DEF Next

LEMMA InitComboInv == Init => ComboInv
<1> SUFFICES ASSUME Init PROVE ComboInv
  OBVIOUS
<1>1. /\ left = Size /\ matched = [c \in Combos |-> Zero] /\ attempts = {} /\ rounds = {}
      /\ call = [a \in Accepts |-> Idle]
  BY DEF Init
<1>2. PlacesOK
  BY FaultAssumption DEF Init, PlacesOK, States, Snapshots
<1>3. CallsOK
  <2>1. Idle \in CallType
    BY ZeroIsVector DEF Idle, CallType, Places, Elsewhere, Plans
  <2> QED
    BY <1>1, <2>1 DEF CallsOK
<1>4. BooksOK
  BY <1>1, SizeAssumption, ZeroIsVector DEF BooksOK
<1>5. LegsOK /\ Balanced
  <2>1. \A c \in Combos, k \in Keys :
          Size[c][k] \in Int /\ left[c][k] = Size[c][k] /\ matched[c][k] = 0
    BY <1>1, SizeAssumption DEF Vectors, Zero
  <2>2. LegsOK
    BY <2>1 DEF LegsOK, Within
  <2>3. Balanced
    BY <2>1 DEF Balanced
  <2> QED
    BY <2>2, <2>3
<1>6. RecordsOK
  BY <1>1 DEF RecordsOK
<1>7. MatchesBalance
  <2> SUFFICES ASSUME NEW k \in Keys PROVE Total(Combos, matched, k) = 0
    BY DEF MatchesBalance
  <2> DEFINE f == [c \in Combos |-> matched[c][k]]
  <2>1. \A c \in Combos : f[c] = 0
    BY <1>1 DEF Zero
  <2>2. Total(Combos, matched, k) = SumFunctionOnSet(f, Combos)
    BY DEF Total
  <2> HIDE DEF f
  <2> QED
    BY <2>1, <2>2, CombosAssumption, SumOfZeros
<1>8. \A a \in Accepts : RowsHeld(a) /\ DoneIsDone(a)
  <2>1. \A a \in Accepts : call[a].at = "idle"
    BY <1>1 DEF Idle
  <2> QED
    BY <2>1 DEF RowsHeld, DoneIsDone, Finished, At
<1> QED
  BY <1>2, <1>3, <1>4, <1>5, <1>6, <1>7, <1>8 DEF ComboInv, LedgerOK

\* The invariant that the others follow from, for any combos, keys, sizes, takers,
\* calls and samples, with locks that outlast their use or not.
THEOREM ComboInvariant == Spec => []ComboInv
BY InitComboInv, NextComboInv, PTL DEF Spec

\* Legs never change sides and never exceed their orders.
LEMMA InvIsType == ComboInv => TypeOK
<1> SUFFICES ASSUME ComboInv PROVE TypeOK
  OBVIOUS
<1>1. ASSUME NEW c \in Combos, NEW k \in Keys
      PROVE  left[c][k] * Size[c][k] >= 0 /\ Abs(left[c][k]) <= Abs(Size[c][k])
  <2>1. left[c][k] \in Int /\ Size[c][k] \in Int
    BY LegType DEF ComboInv, LedgerOK
  <2>2. Within(left[c][k], Size[c][k])
    BY DEF ComboInv, LedgerOK, LegsOK
  <2> QED
    BY <2>1, <2>2, WithinIsType
<1> QED
  BY <1>1 DEF ComboInv, PlacesOK, LedgerOK, BooksOK, TypeOK

\* BooksAgree: whatever nettings and rounds interleave, remaining_size and the
\* match rows add up to the order (updateLegRemaining,
\* insertRoundLegMatchesAndUpdateLegs).
THEOREM BooksAgreeAlways == Spec => []BooksAgree
<1>1. ComboInv => BooksAgree
  BY InvIsType DEF BooksAgree, ComboInv, LedgerOK, Balanced
<1> QED
  BY <1>1, ComboInvariant, PTL

\* MatchesBalance: over all combos, what was matched of a key adds up to zero
\* (allocateParticipantResiduals, executeNettingTransaction).
THEOREM MatchesBalanceAlways == Spec => []MatchesBalance
<1>1. ComboInv => MatchesBalance
  BY DEF ComboInv, LedgerOK
<1> QED
  BY <1>1, ComboInvariant, PTL

\* No match that is still to be made has the id of an attempt in the table: one of
\* the legs of that attempt is used up, and the pairs of the new one are not.
LEMMA InvHasNoFalseAttempt ==
  ASSUME ComboInv, NEW c \in Combos, NEW d \in Combos
  PROVE  LET pairs == Opposed(left[c], left[d]) IN
         AttemptId(c, d, pairs, Nettable(left[c], left[d])) \notin attempts
<1> DEFINE P == Opposed(left[c], left[d])
           t == AttemptId(c, d, P, Nettable(left[c], left[d]))
<1> SUFFICES ASSUME t \in attempts PROVE FALSE
  OBVIOUS
<1>1. UsedUp(t)
  BY DEF ComboInv, LedgerOK, RecordsOK
<1>2. t[1] = c /\ t[2] = d /\ t[3] = P
  BY DEF AttemptId
<1>3. PICK k \in P : left[c][k] = 0 \/ left[d][k] = 0
  BY <1>1, <1>2 DEF UsedUp
<1>4. left[c][k] * left[d][k] < 0 /\ k \in Keys
  BY DEF Opposed
<1>5. left[c][k] \in Int /\ left[d][k] \in Int
  BY <1>4, LegType DEF ComboInv, LedgerOK
<1> QED
  BY ONLY <1>3, <1>4, <1>5, OppositeSigns

\* NoFalseReplay: an id met again in combo_netting_attempts or clearing_rounds is a
\* repetition (buildAttemptSnapshot, loadExistingRoundId).
THEOREM NoFalseReplayEver == Spec => []NoFalseReplay
<1>1. ASSUME ComboInv PROVE NoFalseReplay
  <2>1. ASSUME NEW r \in rounds, NEW c \in r.group, NEW d \in r.group
        PROVE  Opposed(left[c], left[d]) = {}
    <3>1. OneSided(r)
      BY <1>1 DEF ComboInv, LedgerOK, RecordsOK
    <3> QED
      BY <3>1 DEF OneSided, Opposed
  <2> QED
    BY <1>1, <2>1, InvHasNoFalseAttempt DEF NoFalseReplay
<1> QED
  BY <1>1, ComboInvariant, PTL

\* InternalMeansFilled: an acceptance that reports an internal fill has left nothing
\* of its combo (combo-engine.ts:353-448).
THEOREM InternalMeansFilledAlways == Spec => []InternalMeansFilled
<1>1. ComboInv => InternalMeansFilled
  BY DEF ComboInv, DoneIsDone, Finished, InternalMeansFilled
<1> QED
  BY <1>1, ComboInvariant, PTL
=============================================================================
