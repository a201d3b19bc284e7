-------------------------------- MODULE Sums --------------------------------
(***************************************************************************)
(* What the models compute with SumFunctionOnSet and SumFunction of the    *)
(* community module Functions: a sum over a finite set starts at 0, grows  *)
(* by the value of each element added, in whatever order, and is bounded   *)
(* by its parts.                                                           *)
(*                                                                         *)
(* Induction over finite sets is the existence of a smallest               *)
(* counterexample (WFMin), which takes no operator as a parameter.         *)
(***************************************************************************)
EXTENDS Functions, Integers, FiniteSetTheorems, TLAPS

\* The element a fold takes next, and the function it is defined by.
Pick(s) == CHOOSE x \in s : TRUE
SumsUp(f, S, g) ==
  g = [s \in SUBSET S |-> IF s = {} THEN 0 ELSE f[Pick(s)] + g[s \ {Pick(s)}]]

LEMMA SumUnfolds ==
  ASSUME NEW f, NEW S
  PROVE  SumFunctionOnSet(f, S) = (CHOOSE g : SumsUp(f, S, g))[S]
BY DEF SumFunctionOnSet, FoldFunctionOnSet, MapThenFoldSet, SumsUp, Pick

\* Among sets of subsets of a finite set there is a smallest one.
LEMMA SmallestSet ==
  ASSUME NEW S, IsFiniteSet(S), NEW Bad, Bad \subseteq SUBSET S, Bad # {}
  PROVE  \E T \in Bad : \A U \in Bad : U \subseteq T => U = T
<1>1. IsWellFoundedOn(StrictSubsetOrdering(S), SUBSET S)
  BY FS_StrictSubsetOrderingWellFounded, FS_FiniteSubsetsOfFinite
<1>2. PICK T \in Bad : \A U \in Bad : <<U, T>> \notin StrictSubsetOrdering(S)
  BY <1>1, WFMin
<1> QED
  BY <1>2 DEF StrictSubsetOrdering

LEMMA PickIsIn == \A s : s # {} => Pick(s) \in s
BY DEF Pick

\* Two tables of partial sums agree where both have a value.
LEMMA SumsAgree ==
  ASSUME NEW f, NEW S, IsFiniteSet(S), NEW g, SumsUp(f, S, g), NEW T \in SUBSET S, NEW h, SumsUp(f, T, h)
  PROVE  \A u \in SUBSET T : g[u] = h[u]
<1> DEFINE Bad == {u \in SUBSET T : g[u] # h[u]}
<1> SUFFICES ASSUME Bad # {} PROVE FALSE
  OBVIOUS
<1>1. PICK u \in Bad : \A v \in Bad : v \subseteq u => v = u
  <2>1. Bad \subseteq SUBSET S
    OBVIOUS
  <2> HIDE DEF Bad
  <2> QED
    BY <2>1, SmallestSet
<1>2. u # {}
  BY <1>1 DEF SumsUp
<1>3. Pick(u) \in u
  BY <1>2, PickIsIn
<1>4. g[u \ {Pick(u)}] = h[u \ {Pick(u)}]
  BY <1>1, <1>3
<1>5. g[u] = f[Pick(u)] + g[u \ {Pick(u)}] /\ h[u] = f[Pick(u)] + h[u \ {Pick(u)}]
  BY <1>1, <1>2 DEF SumsUp
<1> QED
  BY <1>1, <1>4, <1>5

\* There is such a table for every finite set.
LEMMA SumsExist ==
  ASSUME NEW f, NEW S, IsFiniteSet(S)
  PROVE  \A T \in SUBSET S : \E g : SumsUp(f, T, g)
<1> DEFINE Bad == {T \in SUBSET S : ~ \E g : SumsUp(f, T, g)}
           Val(s) == (CHOOSE g : SumsUp(f, s, g))[s]
<1> SUFFICES ASSUME Bad # {} PROVE FALSE
  OBVIOUS
<1>1. PICK T \in Bad : \A U \in Bad : U \subseteq T => U = T
  <2>1. Bad \subseteq SUBSET S
    OBVIOUS
  <2> HIDE DEF Bad
  <2> QED
    BY <2>1, SmallestSet
<1>2. \A U \in SUBSET T : U # T => SumsUp(f, U, CHOOSE g : SumsUp(f, U, g)) /\ IsFiniteSet(U)
  <2>1. \A U \in SUBSET T : U # T => (\E g : SumsUp(f, U, g)) /\ U \in SUBSET S
    BY <1>1
  <2> QED
    BY <2>1, FS_Subset
<1> DEFINE G == [u \in SUBSET T |-> IF u = {} THEN 0 ELSE f[Pick(u)] + Val(u \ {Pick(u)})]
<1>3. ASSUME NEW w \in SUBSET T, w # T
      PROVE  G[w] = Val(w)
  <2> DEFINE h == CHOOSE g : SumsUp(f, w, g)
  <2>1. SumsUp(f, w, h) /\ IsFiniteSet(w)
    BY <1>2, <1>3
  <2>2. CASE w = {}
    <3>1. h[w] = 0
      BY <2>1, <2>2 DEF SumsUp
    <3> QED
      BY <2>2, <3>1
  <2>3. CASE w # {}
    <3> DEFINE x == w \ {Pick(w)}
    <3>1. x \in SUBSET w /\ x \in SUBSET T /\ x # T
      BY <1>3, <2>3, PickIsIn
    <3>2. h[w] = f[Pick(w)] + h[x]
      BY <2>1, <2>3 DEF SumsUp
    <3>3. h[x] = Val(x)
      <4>1. SumsUp(f, x, CHOOSE g : SumsUp(f, x, g))
        BY <1>2, <3>1
      <4> HIDE DEF h, x
      <4> QED
        BY <2>1, <3>1, <4>1, SumsAgree
    <3>4. G[w] = f[Pick(w)] + Val(x)
      BY <2>3
    <3> QED
      BY <3>2, <3>3, <3>4
  <2> QED
    BY <2>2, <2>3
<1>4. ASSUME NEW u \in SUBSET T
      PROVE  G[u] = IF u = {} THEN 0 ELSE f[Pick(u)] + G[u \ {Pick(u)}]
  <2>1. CASE u # {}
    <3>1. u \ {Pick(u)} \in SUBSET T /\ u \ {Pick(u)} # T
      BY <2>1, PickIsIn
    <3>2. G[u \ {Pick(u)}] = Val(u \ {Pick(u)})
      BY <1>3, <3>1
    <3> QED
      BY <2>1, <3>2
  <2> QED
    BY <2>1
<1>5. SumsUp(f, T, G)
  <2>1. G = [u \in SUBSET T |-> G[u]]
    OBVIOUS
  <2> HIDE DEF G
  <2> QED
    BY <1>4, <2>1 DEF SumsUp
<1> QED
  BY <1>1, <1>5

\* The recursion a sum obeys.
LEMMA SumRecursion ==
  ASSUME NEW f, NEW S, IsFiniteSet(S)
  PROVE  SumFunctionOnSet(f, S) =
           IF S = {} THEN 0 ELSE f[Pick(S)] + SumFunctionOnSet(f, S \ {Pick(S)})
<1> DEFINE g == CHOOSE g : SumsUp(f, S, g)
           T == S \ {Pick(S)}
           h == CHOOSE h : SumsUp(f, T, h)
<1>1. T \in SUBSET S /\ S \in SUBSET S
  OBVIOUS
<1>2. SumsUp(f, S, g) /\ SumsUp(f, T, h)
  BY <1>1, SumsExist
<1>3. SumFunctionOnSet(f, S) = g[S] /\ SumFunctionOnSet(f, T) = h[T]
  BY SumUnfolds
<1>4. g[S] = IF S = {} THEN 0 ELSE f[Pick(S)] + g[T]
  BY <1>2 DEF SumsUp
<1>5. g[T] = h[T]
  <2> HIDE DEF g, h, T
  <2> QED
    BY <1>1, <1>2, SumsAgree
<1> QED
  BY <1>3, <1>4, <1>5

----------------------------------------------------------------------------
(* What the proofs use.                                                    *)

LEMMA SumOfNothing == \A f : SumFunctionOnSet(f, {}) = 0
BY SumRecursion, FS_EmptySet

LEMMA SumIsInteger ==
  ASSUME NEW f, NEW S, IsFiniteSet(S), \A x \in S : f[x] \in Int
  PROVE  SumFunctionOnSet(f, S) \in Int
<1> DEFINE Bad == {T \in SUBSET S : SumFunctionOnSet(f, T) \notin Int}
<1> SUFFICES ASSUME Bad # {} PROVE FALSE
  OBVIOUS
<1>1. PICK T \in Bad : \A U \in Bad : U \subseteq T => U = T
  <2>1. Bad \subseteq SUBSET S
    OBVIOUS
  <2> HIDE DEF Bad
  <2> QED
    BY <2>1, SmallestSet
<1>2. T # {} /\ IsFiniteSet(T)
  <2>1. SumFunctionOnSet(f, {}) = 0 /\ 0 \in Int
    BY SumOfNothing
  <2>2. IsFiniteSet(T)
    BY <1>1, FS_Subset
  <2> QED
    BY <1>1, <2>1, <2>2
<1>3. Pick(T) \in T /\ SumFunctionOnSet(f, T) = f[Pick(T)] + SumFunctionOnSet(f, T \ {Pick(T)})
  BY <1>2, PickIsIn, SumRecursion
<1>4. SumFunctionOnSet(f, T \ {Pick(T)}) \in Int
  BY <1>1, <1>3
<1> QED
  BY <1>1, <1>3, <1>4

\* In whatever order the elements are taken.
LEMMA SumWithout ==
  ASSUME NEW f, NEW S, IsFiniteSet(S), \A x \in S : f[x] \in Int, NEW x \in S
  PROVE  SumFunctionOnSet(f, S) = f[x] + SumFunctionOnSet(f, S \ {x})
<1> DEFINE OK(T) == \A y \in T : SumFunctionOnSet(f, T) = f[y] + SumFunctionOnSet(f, T \ {y})
           Bad == {T \in SUBSET S : ~OK(T)}
<1> SUFFICES ASSUME Bad # {} PROVE FALSE
  OBVIOUS
<1>1. PICK T \in Bad : \A U \in Bad : U \subseteq T => U = T
  <2>1. Bad \subseteq SUBSET S
    OBVIOUS
  <2> HIDE DEF Bad
  <2> QED
    BY <2>1, SmallestSet
<1>2. PICK y \in T : SumFunctionOnSet(f, T) # f[y] + SumFunctionOnSet(f, T \ {y})
  BY <1>1
<1> DEFINE z == Pick(T)
           A == T \ {z}
           B == T \ {y}
           C == T \ {y, z}
<1>3. IsFiniteSet(T) /\ z \in T /\ SumFunctionOnSet(f, T) = f[z] + SumFunctionOnSet(f, A)
  BY <1>1, <1>2, FS_Subset, PickIsIn, SumRecursion
<1>4. y # z /\ f[y] \in Int /\ f[z] \in Int
  BY <1>1, <1>2, <1>3
<1>5. SumFunctionOnSet(f, C) \in Int
  <2>1. C \in SUBSET S
    BY <1>1
  <2> HIDE DEF C
  <2> QED
    BY <2>1, FS_Subset, SumIsInteger
<1>6. SumFunctionOnSet(f, A) = f[y] + SumFunctionOnSet(f, C)
  <2>1. OK(A) /\ y \in A
    BY <1>1, <1>2, <1>3, <1>4
  <2>2. A \ {y} = C
    OBVIOUS
  <2> QED
    BY <2>1, <2>2
<1>7. SumFunctionOnSet(f, B) = f[z] + SumFunctionOnSet(f, C)
  <2>1. OK(B) /\ z \in B
    BY <1>1, <1>2, <1>3, <1>4
  <2>2. B \ {z} = C
    OBVIOUS
  <2> QED
    BY <2>1, <2>2
<1> HIDE DEF A, B, C, z
<1>8. SumFunctionOnSet(f, T) = f[y] + SumFunctionOnSet(f, B)
  BY <1>3, <1>4, <1>5, <1>6, <1>7
<1> QED
  BY <1>2, <1>8 DEF B

LEMMA SumWithOneMore ==
  ASSUME NEW f, NEW S, IsFiniteSet(S), NEW x, x \notin S, \A y \in S \cup {x} : f[y] \in Int
  PROVE  SumFunctionOnSet(f, S \cup {x}) = f[x] + SumFunctionOnSet(f, S)
<1>1. IsFiniteSet(S \cup {x}) /\ (S \cup {x}) \ {x} = S
  BY FS_AddElement
<1> DEFINE T == S \cup {x}
<1>2. x \in T /\ \A y \in T : f[y] \in Int
  OBVIOUS
<1> HIDE DEF T
<1>3. IsFiniteSet(T) => SumFunctionOnSet(f, T) = f[x] + SumFunctionOnSet(f, T \ {x})
  BY <1>2, SumWithout
<1> QED
  BY <1>1, <1>3 DEF T

\* A sum depends only on the values it adds.
LEMMA SumOfEquals ==
  ASSUME NEW f, NEW g, NEW S, IsFiniteSet(S), \A x \in S : f[x] = g[x]
  PROVE  SumFunctionOnSet(f, S) = SumFunctionOnSet(g, S)
<1> DEFINE Bad == {T \in SUBSET S : SumFunctionOnSet(f, T) # SumFunctionOnSet(g, T)}
<1> SUFFICES ASSUME Bad # {} PROVE FALSE
  OBVIOUS
<1>1. PICK T \in Bad : \A U \in Bad : U \subseteq T => U = T
  <2>1. Bad \subseteq SUBSET S
    OBVIOUS
  <2> HIDE DEF Bad
  <2> QED
    BY <2>1, SmallestSet
<1>2. T # {} /\ IsFiniteSet(T)
  BY <1>1, SumOfNothing, FS_Subset
<1> DEFINE U == T \ {Pick(T)}
<1>3. Pick(T) \in T /\ SumFunctionOnSet(f, T) = f[Pick(T)] + SumFunctionOnSet(f, U)
      /\ SumFunctionOnSet(g, T) = g[Pick(T)] + SumFunctionOnSet(g, U)
  BY <1>2, PickIsIn, SumRecursion
<1>4. U \in SUBSET S /\ U \subseteq T /\ U # T
  BY <1>1, <1>3
<1>5. SumFunctionOnSet(f, U) = SumFunctionOnSet(g, U)
  BY <1>1, <1>4
<1> QED
  BY <1>1, <1>3, <1>5

\* One value changes: the sum changes by as much.
LEMMA SumAfterChange ==
  ASSUME NEW f, NEW g, NEW S, IsFiniteSet(S), NEW x \in S,
         \A y \in S : f[y] \in Int /\ g[y] \in Int, \A y \in S \ {x} : g[y] = f[y]
  PROVE  SumFunctionOnSet(g, S) = SumFunctionOnSet(f, S) - f[x] + g[x]
<1> DEFINE T == S \ {x}
<1>1. IsFiniteSet(T) /\ T \subseteq S
  BY FS_Subset
<1>2. SumFunctionOnSet(g, T) = SumFunctionOnSet(f, T)
  BY <1>1, SumOfEquals
<1>3. SumFunctionOnSet(f, T) \in Int
  BY <1>1, SumIsInteger
<1>4. SumFunctionOnSet(f, S) = f[x] + SumFunctionOnSet(f, T) /\ SumFunctionOnSet(g, S) = g[x] + SumFunctionOnSet(g, T)
  BY SumWithout
<1> HIDE DEF T
<1> QED
  BY <1>2, <1>3, <1>4

\* Nothing added to nothing.
LEMMA SumOfZeros ==
  ASSUME NEW f, NEW S, IsFiniteSet(S), \A x \in S : f[x] = 0
  PROVE  SumFunctionOnSet(f, S) = 0
<1> DEFINE Bad == {T \in SUBSET S : SumFunctionOnSet(f, T) # 0}
<1> SUFFICES ASSUME Bad # {} PROVE FALSE
  OBVIOUS
<1>1. PICK T \in Bad : \A U \in Bad : U \subseteq T => U = T
  <2>1. Bad \subseteq SUBSET S
    OBVIOUS
  <2> HIDE DEF Bad
  <2> QED
    BY <2>1, SmallestSet
<1>2. T # {} /\ IsFiniteSet(T)
  BY <1>1, SumOfNothing, FS_Subset
<1>3. Pick(T) \in T /\ SumFunctionOnSet(f, T) = f[Pick(T)] + SumFunctionOnSet(f, T \ {Pick(T)})
  BY <1>2, PickIsIn, SumRecursion
<1> QED
  BY <1>1, <1>3

\* The sum of natural numbers is one, and none of them exceeds it.
LEMMA SumOfNaturals ==
  ASSUME NEW f, NEW S, IsFiniteSet(S), \A x \in S : f[x] \in Nat
  PROVE  /\ SumFunctionOnSet(f, S) \in Nat
         /\ \A x \in S : f[x] <= SumFunctionOnSet(f, S)
<1> DEFINE Bad == {T \in SUBSET S : SumFunctionOnSet(f, T) \notin Nat}
<1>1. Bad = {}
  <2> SUFFICES ASSUME Bad # {} PROVE FALSE
    OBVIOUS
  <2>1. PICK T \in Bad : \A U \in Bad : U \subseteq T => U = T
    <3>1. Bad \subseteq SUBSET S
      OBVIOUS
    <3> HIDE DEF Bad
    <3> QED
      BY <3>1, SmallestSet
  <2>2. T # {} /\ IsFiniteSet(T)
    <3>1. SumFunctionOnSet(f, {}) = 0 /\ 0 \in Nat
      BY SumOfNothing
    <3>2. IsFiniteSet(T)
      BY <2>1, FS_Subset
    <3> QED
      BY <2>1, <3>1, <3>2
  <2>3. Pick(T) \in T /\ SumFunctionOnSet(f, T) = f[Pick(T)] + SumFunctionOnSet(f, T \ {Pick(T)})
    BY <2>2, PickIsIn, SumRecursion
  <2>4. SumFunctionOnSet(f, T \ {Pick(T)}) \in Nat
    BY <2>1, <2>3
  <2> QED
    BY <2>1, <2>3, <2>4
<1>2. \A T \in SUBSET S : SumFunctionOnSet(f, T) \in Nat
  BY <1>1
<1>3. ASSUME NEW x \in S
      PROVE  f[x] <= SumFunctionOnSet(f, S)
  <2>1. SumFunctionOnSet(f, S) = f[x] + SumFunctionOnSet(f, S \ {x})
    BY SumWithout
  <2>2. SumFunctionOnSet(f, S \ {x}) \in Nat
    BY <1>2
  <2> QED
    BY <2>1, <2>2
<1> QED
  BY <1>2, <1>3

\* More natural numbers sum to no less.
LEMMA SumOfFewer ==
  ASSUME NEW f, NEW S, IsFiniteSet(S), \A x \in S : f[x] \in Nat, NEW T \in SUBSET S
  PROVE  SumFunctionOnSet(f, T) <= SumFunctionOnSet(f, S)
<1> DEFINE Bad == {U \in SUBSET S : T \subseteq U /\ ~(SumFunctionOnSet(f, T) <= SumFunctionOnSet(f, U))}
<1> SUFFICES ASSUME Bad # {} PROVE FALSE
  OBVIOUS
<1>1. PICK U \in Bad : \A V \in Bad : V \subseteq U => V = U
  <2>1. Bad \subseteq SUBSET S
    OBVIOUS
  <2> HIDE DEF Bad
  <2> QED
    BY <2>1, SmallestSet
<1>2. IsFiniteSet(T) /\ IsFiniteSet(U) /\ U \subseteq S /\ T \subseteq U
  BY <1>1, FS_Subset
<1>3. SumFunctionOnSet(f, T) \in Nat
  BY <1>2, SumOfNaturals
<1>4. PICK x \in U : x \notin T
  <2>1. ~(SumFunctionOnSet(f, T) <= SumFunctionOnSet(f, U))
    BY <1>1
  <2>2. U # T
    BY <1>3, <2>1
  <2> QED
    BY <1>2, <2>2
<1> DEFINE V == U \ {x}
<1>5. IsFiniteSet(V) /\ V \in SUBSET S /\ T \subseteq V /\ V \subseteq U /\ V # U
  BY <1>2, <1>4, FS_Subset
<1>6. SumFunctionOnSet(f, V) \in Nat /\ SumFunctionOnSet(f, T) <= SumFunctionOnSet(f, V)
  BY <1>1, <1>5, SumOfNaturals
<1>7. SumFunctionOnSet(f, U) = f[x] + SumFunctionOnSet(f, V) /\ f[x] \in Nat
  BY <1>2, SumWithout
<1> QED
  BY <1>1, <1>3, <1>6, <1>7

LEMMA SumIsOverDomain == \A f : SumFunction(f) = SumFunctionOnSet(f, DOMAIN f)
BY DEF SumFunction

\* Sums add up.
LEMMA SumOfSums ==
  ASSUME NEW f, NEW g, NEW h, NEW S, IsFiniteSet(S),
         \A x \in S : f[x] \in Int /\ g[x] \in Int /\ h[x] = f[x] + g[x]
  PROVE  SumFunctionOnSet(h, S) = SumFunctionOnSet(f, S) + SumFunctionOnSet(g, S)
<1> DEFINE Bad == {T \in SUBSET S : SumFunctionOnSet(h, T) # SumFunctionOnSet(f, T) + SumFunctionOnSet(g, T)}
<1> SUFFICES ASSUME Bad # {} PROVE FALSE
  OBVIOUS
<1>1. PICK T \in Bad : \A U \in Bad : U \subseteq T => U = T
  <2>1. Bad \subseteq SUBSET S
    OBVIOUS
  <2> HIDE DEF Bad
  <2> QED
    BY <2>1, SmallestSet
<1>2. T # {} /\ IsFiniteSet(T)
  <2>1. SumFunctionOnSet(f, {}) = 0 /\ SumFunctionOnSet(g, {}) = 0 /\ SumFunctionOnSet(h, {}) = 0
    BY SumOfNothing
  <2>2. SumFunctionOnSet(h, {}) = SumFunctionOnSet(f, {}) + SumFunctionOnSet(g, {})
    BY <2>1
  <2>3. IsFiniteSet(T)
    BY <1>1, FS_Subset
  <2> QED
    BY <1>1, <2>2, <2>3
<1> DEFINE U == T \ {Pick(T)}
<1>3. /\ Pick(T) \in T
      /\ SumFunctionOnSet(f, T) = f[Pick(T)] + SumFunctionOnSet(f, U)
      /\ SumFunctionOnSet(g, T) = g[Pick(T)] + SumFunctionOnSet(g, U)
      /\ SumFunctionOnSet(h, T) = h[Pick(T)] + SumFunctionOnSet(h, U)
  BY <1>2, PickIsIn, SumRecursion
<1>4. U \in SUBSET S /\ U \subseteq T /\ U # T
  BY <1>1, <1>3
<1>5. SumFunctionOnSet(h, U) = SumFunctionOnSet(f, U) + SumFunctionOnSet(g, U)
  BY <1>1, <1>4
<1>6. SumFunctionOnSet(f, U) \in Int /\ SumFunctionOnSet(g, U) \in Int
  BY <1>4, FS_Subset, SumIsInteger
<1> HIDE DEF U
<1>7. f[Pick(T)] \in Int /\ g[Pick(T)] \in Int /\ h[Pick(T)] = f[Pick(T)] + g[Pick(T)]
  BY <1>1, <1>3
<1> QED
  BY <1>1, <1>3, <1>5, <1>6, <1>7

\* The sum of the negated values is the negated sum.
LEMMA SumOfNegated ==
  ASSUME NEW f, NEW g, NEW S, IsFiniteSet(S), \A x \in S : f[x] \in Int /\ g[x] = -f[x]
  PROVE  SumFunctionOnSet(g, S) = -SumFunctionOnSet(f, S)
<1> DEFINE z == [x \in S |-> 0]
<1>1. \A x \in S : f[x] \in Int /\ g[x] \in Int /\ z[x] = f[x] + g[x]
  OBVIOUS
<1>2. SumFunctionOnSet(z, S) = 0
  BY SumOfZeros
<1> HIDE DEF z
<1>3. SumFunctionOnSet(z, S) = SumFunctionOnSet(f, S) + SumFunctionOnSet(g, S)
  BY <1>1, SumOfSums
<1>4. SumFunctionOnSet(f, S) \in Int /\ SumFunctionOnSet(g, S) \in Int
  BY <1>1, SumIsInteger
<1> QED
  BY <1>2, <1>3, <1>4

\* What lies outside adds nothing if it is zero.
LEMMA SumBeyond ==
  ASSUME NEW f, NEW S, IsFiniteSet(S), \A x \in S : f[x] \in Int,
         NEW T \in SUBSET S, \A x \in S \ T : f[x] = 0
  PROVE  SumFunctionOnSet(f, S) = SumFunctionOnSet(f, T)
<1> DEFINE Bad == {U \in SUBSET S : T \subseteq U /\ SumFunctionOnSet(f, U) # SumFunctionOnSet(f, T)}
<1> SUFFICES ASSUME Bad # {} PROVE FALSE
  OBVIOUS
<1>1. PICK U \in Bad : \A V \in Bad : V \subseteq U => V = U
  <2>1. Bad \subseteq SUBSET S
    OBVIOUS
  <2> HIDE DEF Bad
  <2> QED
    BY <2>1, SmallestSet
<1>2. PICK x \in U : x \notin T
  BY <1>1
<1>3. IsFiniteSet(U) /\ U \subseteq S
  BY <1>1, FS_Subset
<1>4. SumFunctionOnSet(f, U) = f[x] + SumFunctionOnSet(f, U \ {x})
  BY <1>3, SumWithout
<1>5. SumFunctionOnSet(f, U \ {x}) = SumFunctionOnSet(f, T)
  BY <1>1, <1>2
<1>6. f[x] = 0 /\ SumFunctionOnSet(f, T) \in Int
  BY <1>2, <1>3, FS_Subset, SumIsInteger
<1> QED
  BY <1>1, <1>4, <1>5, <1>6

----------------------------------------------------------------------------
(* The ends of a finite set of integers.                                   *)

LEMMA FiniteHasLeast ==
  ASSUME NEW S, IsFiniteSet(S)
  PROVE  S # {} /\ S \subseteq Int => \E x \in S : \A y \in S : x <= y
<1> DEFINE Bad == {T \in SUBSET S : T \subseteq Int /\ T # {} /\ ~ \E x \in T : \A y \in T : x <= y}
<1> SUFFICES ASSUME Bad # {} PROVE FALSE
  OBVIOUS
<1>1. PICK T \in Bad : \A U \in Bad : U \subseteq T => U = T
  <2>1. Bad \subseteq SUBSET S
    OBVIOUS
  <2> HIDE DEF Bad
  <2> QED
    BY <2>1, SmallestSet
<1>2. PICK z \in T : TRUE
  BY <1>1
<1>3. T \ {z} # {}
  BY <1>1, <1>2
<1>4. PICK x \in T \ {z} : \A y \in T \ {z} : x <= y
  <2>1. T \ {z} \notin Bad
    BY <1>1, <1>2
  <2>2. T \ {z} \in SUBSET S
    BY <1>1
  <2> QED
    BY <1>3, <2>1, <2>2
<1>5. x \in Int /\ z \in Int /\ \A y \in T : y \in Int
  BY <1>1, <1>2, <1>4
<1>6. (\A y \in T : x <= y) \/ (\A y \in T : z <= y)
  BY <1>4, <1>5
<1> QED
  BY <1>1, <1>2, <1>4, <1>6

LEMMA FiniteHasGreatest ==
  ASSUME NEW S, IsFiniteSet(S)
  PROVE  S # {} /\ S \subseteq Int => \E x \in S : \A y \in S : y <= x
<1> DEFINE Bad == {T \in SUBSET S : T \subseteq Int /\ T # {} /\ ~ \E x \in T : \A y \in T : y <= x}
<1> SUFFICES ASSUME Bad # {} PROVE FALSE
  OBVIOUS
<1>1. PICK T \in Bad : \A U \in Bad : U \subseteq T => U = T
  <2>1. Bad \subseteq SUBSET S
    OBVIOUS
  <2> HIDE DEF Bad
  <2> QED
    BY <2>1, SmallestSet
<1>2. PICK z \in T : TRUE
  BY <1>1
<1>3. T \ {z} # {}
  BY <1>1, <1>2
<1>4. PICK x \in T \ {z} : \A y \in T \ {z} : y <= x
  <2>1. T \ {z} \notin Bad
    BY <1>1, <1>2
  <2>2. T \ {z} \in SUBSET S
    BY <1>1
  <2> QED
    BY <1>3, <2>1, <2>2
<1>5. x \in Int /\ z \in Int /\ \A y \in T : y \in Int
  BY <1>1, <1>2, <1>4
<1>6. (\A y \in T : y <= x) \/ (\A y \in T : y <= z)
  BY <1>4, <1>5
<1> QED
  BY <1>1, <1>2, <1>4, <1>6
=============================================================================
