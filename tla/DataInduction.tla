---------------------------- MODULE DataInduction ----------------------------
(***************************************************************************)
(* Induction over data for the proofs about sums, flattened sequences and  *)
(* selections.  An induction is stated with the set of numbers (or of      *)
(* subsets) that have the property, so that it can be cited without        *)
(* instantiating an operator; recursive functions are then shown to exist, *)
(* which is what their definition by CHOOSE needs.                         *)
(***************************************************************************)
EXTENDS SequencesExt, SequenceTheorems, FiniteSetTheorems, WellFoundedInduction, TLAPS

(* A set of natural numbers that is not empty has a least element. *)
LEMMA LeastNatural ==
  ASSUME NEW T, T \subseteq Nat, T # {}
  PROVE  \E x \in T : \A y \in T : x <= y
<1>1. PICK x \in T : \A y \in T : ~(<<y, x>> \in OpToRel(<, Nat))
  BY NatLessThanWellFounded, WFMin
<1>2. \A y \in T : ~(y < x)
  BY <1>1 DEF OpToRel
<1> QED BY <1>2

(* Induction over the natural numbers in the set T *)
LEMMA Induct ==
  ASSUME NEW T, 0 \in T, \A n \in Nat : n \in T => n + 1 \in T
  PROVE  \A n \in Nat : n \in T
<1> DEFINE B == {n \in Nat : n \notin T}
<1> SUFFICES ASSUME B # {} PROVE FALSE
  OBVIOUS
<1>1. PICK x \in B : \A y \in B : x <= y
  BY LeastNatural
<1>2. x # 0 /\ x - 1 \in Nat
  OBVIOUS
<1>3. x - 1 \in T
  BY <1>1, <1>2
<1>4. x - 1 + 1 = x
  BY <1>2
<1> QED BY <1>2, <1>3, <1>4

(* A nonempty bounded set of natural numbers has a greatest element. *)
LEMMA GreatestNatural ==
  ASSUME NEW n \in Nat, NEW T, T \subseteq 0..n, T # {}
  PROVE  \E x \in T : \A y \in T : x >= y
<1> DEFINE B == {m \in Nat : \A y \in T : y <= m}
<1>1. B # {}
  <2>1. n \in B
    OBVIOUS
  <2> QED BY <2>1
<1>2. PICK m \in B : \A k \in B : m <= k
  BY <1>1, LeastNatural
<1>3. m \in T
  <2> SUFFICES ASSUME m \notin T PROVE FALSE
    OBVIOUS
  <2>1. \A y \in T : y <= m /\ y # m /\ y \in Nat
    OBVIOUS
  <2> PICK y \in T : TRUE
    OBVIOUS
  <2>2. m \in Nat /\ m - 1 \in Nat
    <3>1. y \in Nat /\ y <= m /\ y # m
      BY <2>1
    <3> QED BY <3>1
  <2>3. m - 1 \in B
    BY <2>1, <2>2
  <2> QED BY <1>2, <2>2, <2>3
<1> QED BY <1>3

-----------------------------------------------------------------------------
(* Recursion over the natural numbers: the values are those of A, each one *)
(* made of the one before by step.                                         *)
IsRecursion(g, n, A, base, step) ==
  /\ g \in [0..n -> A]
  /\ g[0] = base
  /\ \A k \in 0..(n - 1) : g[k + 1] = step[k][g[k]]

LEMMA RecursionUnique ==
  ASSUME NEW A, NEW base \in A, NEW step \in [Nat -> [A -> A]],
         NEW m \in Nat, NEW n \in Nat, m <= n, NEW g, NEW h,
         IsRecursion(g, m, A, base, step), IsRecursion(h, n, A, base, step)
  PROVE  \A k \in 0..m : g[k] = h[k]
<1> DEFINE T == {k \in Nat : k <= m => g[k] = h[k]}
<1>1. 0 \in T
  BY DEF IsRecursion
<1>2. \A k \in Nat : k \in T => k + 1 \in T
  <2> SUFFICES ASSUME NEW k \in Nat, k \in T, k + 1 <= m PROVE g[k + 1] = h[k + 1]
    OBVIOUS
  <2>1. k \in 0..(m - 1) /\ k \in 0..(n - 1) /\ g[k] = h[k]
    OBVIOUS
  <2> QED BY <2>1 DEF IsRecursion
<1> HIDE DEF T
<1>3. \A k \in Nat : k \in T
  BY <1>1, <1>2, Induct
<1> QED BY <1>3 DEF T

Recursion(f, A, base, step) == /\ f \in [Nat -> A]
                               /\ f[0] = base
                               /\ \A n \in Nat : f[n + 1] = step[n][f[n]]

LEMMA RecursionExists ==
  ASSUME NEW A, NEW base \in A, NEW step \in [Nat -> [A -> A]]
  PROVE  \E f : Recursion(f, A, base, step)
<1> DEFINE Is(g, n) == IsRecursion(g, n, A, base, step)
           T == {n \in Nat : \E g : Is(g, n)}
<1>1. 0 \in T
  <2>1. Is([k \in 0..0 |-> base], 0)
    BY DEF IsRecursion
  <2> QED BY <2>1
<1>2. \A n \in Nat : n \in T => n + 1 \in T
  <2> SUFFICES ASSUME NEW n \in Nat, NEW g, Is(g, n) PROVE \E h : Is(h, n + 1)
    OBVIOUS
  <2> DEFINE h == [k \in 0..(n + 1) |-> IF k <= n THEN g[k] ELSE step[n][g[n]]]
  <2>1. g \in [0..n -> A] /\ step[n][g[n]] \in A
    BY DEF IsRecursion
  <2>2. h \in [0..(n + 1) -> A] /\ h[0] = base
    BY <2>1 DEF IsRecursion
  <2>3. ASSUME NEW k \in 0..n PROVE h[k + 1] = step[k][h[k]]
    <3>1. CASE k = n
      BY <3>1
    <3>2. CASE k < n
      BY <3>2 DEF IsRecursion
    <3> QED BY <3>1, <3>2
  <2>4. Is(h, n + 1)
    BY <2>2, <2>3 DEF IsRecursion
  <2> QED BY <2>4
<1> HIDE DEF T
<1>3. \A n \in Nat : n \in T
  BY <1>1, <1>2, Induct
<1> DEFINE G(n) == CHOOSE g : Is(g, n)
           f == [n \in Nat |-> G(n)[n]]
<1>4. \A n \in Nat : Is(G(n), n)
  BY <1>3 DEF T
<1> HIDE DEF G
<1>5. f \in [Nat -> A] /\ f[0] = base
  BY <1>4 DEF IsRecursion
<1>6. ASSUME NEW n \in Nat PROVE f[n + 1] = step[n][f[n]]
  <2>1. G(n)[n] = G(n + 1)[n]
    BY <1>4, RecursionUnique
  <2>2. G(n + 1)[n + 1] = step[n][G(n + 1)[n]]
    BY <1>4 DEF IsRecursion
  <2> QED BY <2>1, <2>2
<1>7. Recursion(f, A, base, step)
  BY <1>5, <1>6 DEF Recursion
<1> QED BY <1>7

-----------------------------------------------------------------------------
(* Induction over the subsets of a finite set, taking away the element     *)
(* CHOOSE gives, as the folds of the community modules do                  *)
Some(s) == CHOOSE x \in s : TRUE

LEMMA SomeRemoved ==
  ASSUME NEW S, IsFiniteSet(S), NEW s \in SUBSET S, s # {}
  PROVE  /\ Some(s) \in s
         /\ s \ {Some(s)} \in SUBSET S
         /\ Cardinality(s \ {Some(s)}) = Cardinality(s) - 1
         /\ Cardinality(s) \in Nat \ {0}
<1>1. Some(s) \in s
  BY DEF Some
<1>2. IsFiniteSet(s)
  BY FS_Subset
<1>3. Cardinality(s \ {Some(s)}) = Cardinality(s) - 1
  BY <1>1, <1>2, FS_RemoveElement
<1>4. Cardinality(s) \in Nat \ {0}
  BY <1>2, FS_CardinalityType, FS_EmptySet
<1> QED BY <1>1, <1>3, <1>4

LEMMA FiniteInduct ==
  ASSUME NEW S, IsFiniteSet(S), NEW G, {} \in G,
         \A s \in SUBSET S : s # {} /\ s \ {Some(s)} \in G => s \in G
  PROVE  \A s \in SUBSET S : s \in G
<1> DEFINE T == {n \in Nat : \A s \in SUBSET S : Cardinality(s) = n => s \in G}
<1>1. \A s \in SUBSET S : IsFiniteSet(s) /\ Cardinality(s) \in Nat
  BY FS_Subset, FS_CardinalityType
<1>2. 0 \in T
  BY <1>1, FS_EmptySet
<1>3. \A n \in Nat : n \in T => n + 1 \in T
  <2> SUFFICES ASSUME NEW n \in Nat, n \in T, NEW s \in SUBSET S,
                      Cardinality(s) = n + 1
               PROVE  s \in G
    OBVIOUS
  <2>1. s # {}
    BY FS_EmptySet
  <2>2. s \ {Some(s)} \in SUBSET S /\ Cardinality(s \ {Some(s)}) = n
    BY <2>1, SomeRemoved
  <2> QED BY <2>1, <2>2
<1> HIDE DEF T
<1>4. \A n \in Nat : n \in T
  BY <1>2, <1>3, Induct
<1> QED BY <1>1, <1>4 DEF T

-----------------------------------------------------------------------------
(* SumFunction, the fold of the community modules: what it computes on     *)
(* every subset of the domain                                              *)
IsSumOver(it, S, f) ==
  /\ it \in [SUBSET S -> Int]
  /\ it[{}] = 0
  /\ \A s \in SUBSET S : s # {} => it[s] = f[Some(s)] + it[s \ {Some(s)}]

LEMMA SumOverExists ==
  ASSUME NEW S, IsFiniteSet(S), NEW f \in [S -> Int]
  PROVE  \E it : IsSumOver(it, S, f)
<1> DEFINE A == [SUBSET S -> Int]
           zero == [s \in SUBSET S |-> 0]
           Add(g) == [s \in SUBSET S |-> IF s = {} THEN 0
                                         ELSE f[Some(s)] + g[s \ {Some(s)}]]
           step == [n \in Nat |-> [g \in A |-> Add(g)]]
<1>1. zero \in A
  OBVIOUS
<1>2. \A g \in A : Add(g) \in A
  <2> SUFFICES ASSUME NEW g \in A, NEW s \in SUBSET S, s # {}
               PROVE  f[Some(s)] + g[s \ {Some(s)}] \in Int
    OBVIOUS
  <2>1. Some(s) \in S /\ s \ {Some(s)} \in SUBSET S
    BY SomeRemoved
  <2>2. f[Some(s)] \in Int /\ g[s \ {Some(s)}] \in Int
    BY <2>1
  <2> QED BY <2>2
<1>3. step \in [Nat -> [A -> A]]
  BY <1>2
<1> HIDE DEF A, zero, step
<1>4. PICK h : Recursion(h, A, zero, step)
  BY <1>1, <1>3, RecursionExists
<1>5. /\ h \in [Nat -> A] /\ h[0] = zero
      /\ \A n \in Nat : h[n + 1] = Add(h[n])
  BY <1>4 DEF step, Recursion
<1> DEFINE it == [s \in SUBSET S |-> h[Cardinality(s)][s]]
<1>6. \A s \in SUBSET S : Cardinality(s) \in Nat
  BY FS_Subset, FS_CardinalityType
<1>7. it \in [SUBSET S -> Int]
  BY <1>5, <1>6 DEF A
<1>8. it[{}] = 0
  BY <1>5, FS_EmptySet DEF zero
<1>9. ASSUME NEW s \in SUBSET S, s # {}
      PROVE  it[s] = f[Some(s)] + it[s \ {Some(s)}]
  <2> DEFINE t == s \ {Some(s)}
             n == Cardinality(t)
  <2>1. t \in SUBSET S /\ n \in Nat /\ Cardinality(s) = n + 1
    BY <1>6, <1>9, SomeRemoved
  <2>2. h[n + 1][s] = f[Some(s)] + h[n][t]
    BY <1>5, <1>9, <2>1
  <2> QED BY <2>1, <2>2
<1> HIDE DEF it
<1> QED BY <1>7, <1>8, <1>9 DEF IsSumOver

LEMMA SumFunctionIs ==
  ASSUME NEW S, IsFiniteSet(S), NEW f \in [S -> Int]
  PROVE  \E it : IsSumOver(it, S, f) /\ SumFunction(f) = it[S]
<1> DEFINE Body(g) == [s \in SUBSET S |-> IF s = {} THEN 0
                                          ELSE f[Some(s)] + g[s \ {Some(s)}]]
           it == CHOOSE g : g = Body(g)
<1>1. DOMAIN f = S
  OBVIOUS
<1>2. SumFunction(f) = it[S]
  BY <1>1 DEF SumFunction, SumFunctionOnSet, FoldFunctionOnSet, MapThenFoldSet, Some
<1>3. PICK g : IsSumOver(g, S, f)
  BY SumOverExists
<1>4. g = Body(g)
  BY <1>3 DEF IsSumOver
<1>5. it = Body(it)
  BY <1>4
<1> HIDE DEF it
<1> DEFINE G == {s \in SUBSET S : it[s] \in Int}
<1>6. it[{}] = 0 /\ \A s \in SUBSET S : s # {} => it[s] = f[Some(s)] + it[s \ {Some(s)}]
  BY <1>5
<1>7. {} \in G
  BY <1>6
<1>8. \A s \in SUBSET S : s # {} /\ s \ {Some(s)} \in G => s \in G
  <2> SUFFICES ASSUME NEW s \in SUBSET S, s # {}, it[s \ {Some(s)}] \in Int
               PROVE  it[s] \in Int
    OBVIOUS
  <2>1. Some(s) \in S
    BY SomeRemoved
  <2> QED BY <1>6, <2>1
<1> HIDE DEF G
<1>9. \A s \in SUBSET S : s \in G
  BY <1>7, <1>8, FiniteInduct
<1>10. it \in [SUBSET S -> Int]
  <2>1. \A s \in SUBSET S : it[s] \in Int
    BY <1>9 DEF G
  <2> QED BY <1>5, <2>1
<1> QED BY <1>2, <1>6, <1>10 DEF IsSumOver

(* Two sums over the same set are computed along the same elements, so     *)
(* they can be compared element by element.                                *)
LEMMA SumInt ==
  ASSUME NEW S, IsFiniteSet(S), NEW f \in [S -> Int]
  PROVE  SumFunction(f) \in Int
<1>1. PICK it : IsSumOver(it, S, f) /\ SumFunction(f) = it[S]
  BY SumFunctionIs
<1> QED BY <1>1 DEF IsSumOver

LEMMA SumMonotone ==
  ASSUME NEW S, IsFiniteSet(S), NEW f \in [S -> Int], NEW g \in [S -> Int],
         \A i \in S : f[i] <= g[i]
  PROVE  SumFunction(f) <= SumFunction(g)
<1>1. PICK F : IsSumOver(F, S, f) /\ SumFunction(f) = F[S]
  BY SumFunctionIs
<1>2. PICK G : IsSumOver(G, S, g) /\ SumFunction(g) = G[S]
  BY SumFunctionIs
<1> DEFINE T == {s \in SUBSET S : F[s] <= G[s]}
<1>3. {} \in T
  BY <1>1, <1>2 DEF IsSumOver
<1>4. \A s \in SUBSET S : s # {} /\ s \ {Some(s)} \in T => s \in T
  <2> SUFFICES ASSUME NEW s \in SUBSET S, s # {}, s \ {Some(s)} \in T PROVE s \in T
    OBVIOUS
  <2> DEFINE t == s \ {Some(s)}
  <2>1. Some(s) \in S /\ t \in SUBSET S /\ F[t] <= G[t]
    BY SomeRemoved
  <2>2. /\ F[s] = f[Some(s)] + F[t] /\ F[t] \in Int
        /\ G[s] = g[Some(s)] + G[t] /\ G[t] \in Int
    BY <1>1, <1>2, <2>1 DEF IsSumOver
  <2>3. f[Some(s)] \in Int /\ g[Some(s)] \in Int /\ f[Some(s)] <= g[Some(s)]
    BY <2>1
  <2> QED BY <2>1, <2>2, <2>3
<1> HIDE DEF T
<1>5. S \in T
  BY <1>3, <1>4, FiniteInduct
<1> QED BY <1>1, <1>2, <1>5 DEF T

LEMMA SumScaled ==
  ASSUME NEW S, IsFiniteSet(S), NEW f \in [S -> Int], NEW a \in Int
  PROVE  SumFunction([i \in S |-> a * f[i]]) = a * SumFunction(f)
<1> DEFINE g == [i \in S |-> a * f[i]]
<1>0. g \in [S -> Int]
  OBVIOUS
<1>1. PICK F : IsSumOver(F, S, f) /\ SumFunction(f) = F[S]
  BY SumFunctionIs
<1>2. PICK G : IsSumOver(G, S, g) /\ SumFunction(g) = G[S]
  <2> HIDE DEF g
  <2> QED BY <1>0, SumFunctionIs
<1> DEFINE T == {s \in SUBSET S : G[s] = a * F[s]}
<1>3. {} \in T
  BY <1>1, <1>2 DEF IsSumOver
<1>4. \A s \in SUBSET S : s # {} /\ s \ {Some(s)} \in T => s \in T
  <2> SUFFICES ASSUME NEW s \in SUBSET S, s # {}, s \ {Some(s)} \in T PROVE s \in T
    OBVIOUS
  <2> DEFINE t == s \ {Some(s)}
             x == Some(s)
  <2>1. x \in S /\ t \in SUBSET S /\ G[t] = a * F[t]
    BY SomeRemoved
  <2>2. /\ F[s] = f[x] + F[t] /\ F[t] \in Int /\ G[s] = g[x] + G[t]
    BY <1>1, <1>2, <2>1 DEF IsSumOver
  <2>3. f[x] \in Int /\ g[x] = a * f[x]
    BY <2>1
  <2> HIDE DEF t, x, g
  <2>4. \A u, v \in Int : a * (u + v) = a * u + a * v
    OBVIOUS
  <2>5. a * F[s] = a * f[x] + a * F[t]
    BY <2>2, <2>3, <2>4
  <2> QED BY <2>1, <2>2, <2>3, <2>5
<1> HIDE DEF T
<1>5. S \in T
  BY <1>3, <1>4, FiniteInduct
<1> QED BY <1>1, <1>2, <1>5 DEF T

LEMMA SumChanged ==
  ASSUME NEW S, IsFiniteSet(S), NEW f \in [S -> Int], NEW g \in [S -> Int],
         NEW j \in S, \A i \in S \ {j} : g[i] = f[i]
  PROVE  SumFunction(g) = SumFunction(f) + g[j] - f[j]
<1>1. PICK F : IsSumOver(F, S, f) /\ SumFunction(f) = F[S]
  BY SumFunctionIs
<1>2. PICK G : IsSumOver(G, S, g) /\ SumFunction(g) = G[S]
  BY SumFunctionIs
<1> DEFINE c == g[j] - f[j]
           T == {s \in SUBSET S : G[s] = F[s] + IF j \in s THEN c ELSE 0}
<1>0. c \in Int /\ f[j] \in Int /\ g[j] \in Int
  OBVIOUS
<1>3. {} \in T
  BY <1>1, <1>2 DEF IsSumOver
<1>4. \A s \in SUBSET S : s # {} /\ s \ {Some(s)} \in T => s \in T
  <2> SUFFICES ASSUME NEW s \in SUBSET S, s # {}, s \ {Some(s)} \in T PROVE s \in T
    OBVIOUS
  <2> DEFINE t == s \ {Some(s)}
             x == Some(s)
  <2>1. x \in s /\ t \in SUBSET S /\ G[t] = F[t] + IF j \in t THEN c ELSE 0
    BY SomeRemoved
  <2>2. /\ F[s] = f[x] + F[t] /\ F[t] \in Int /\ F[s] \in Int
        /\ G[s] = g[x] + G[t] /\ G[t] \in Int /\ G[s] \in Int
    BY <1>1, <1>2 DEF IsSumOver
  <2>3. f[x] \in Int /\ g[x] \in Int
    BY <2>1
  <2>4. CASE x = j
    <3>1. j \notin t /\ j \in s
      BY <2>1, <2>4
    <3> HIDE DEF t, x
    <3>2. G[s] = F[s] + c
      BY <1>0, <2>1, <2>2, <2>3, <2>4, <3>1
    <3> QED BY <3>1, <3>2
  <2>5. CASE x # j
    <3>1. (j \in t) = (j \in s) /\ g[x] = f[x]
      BY <2>1, <2>5
    <3> HIDE DEF t, x, c
    <3>2. G[s] = F[s] + IF j \in s THEN c ELSE 0
      BY <1>0, <2>1, <2>2, <2>3, <3>1
    <3> QED BY <3>2
  <2> QED BY <2>4, <2>5
<1> HIDE DEF T
<1>5. S \in T
  BY <1>3, <1>4, FiniteInduct
<1>6. F[S] \in Int
  BY <1>1 DEF IsSumOver
<1>7. SumFunction(g) = SumFunction(f) + c
  BY <1>1, <1>2, <1>5 DEF T
<1> QED BY <1>0, <1>1, <1>6, <1>7

-----------------------------------------------------------------------------
(* Running sums over the natural numbers *)
LEMMA RunningSumExists ==
  ASSUME NEW d \in [Nat -> Int]
  PROVE  \E f : f = [k \in Nat |-> IF k = 0 THEN 0 ELSE f[k - 1] + d[k - 1]]
<1> DEFINE step == [n \in Nat |-> [a \in Int |-> a + d[n]]]
<1>1. step \in [Nat -> [Int -> Int]] /\ 0 \in Int
  OBVIOUS
<1> HIDE DEF step
<1>2. PICK f : Recursion(f, Int, 0, step)
  BY <1>1, RecursionExists
<1>3. /\ f \in [Nat -> Int] /\ f[0] = 0
      /\ \A n \in Nat : f[n + 1] = f[n] + d[n]
  BY <1>2 DEF step, Recursion
<1>4. ASSUME NEW k \in Nat, k # 0 PROVE f[k] = f[k - 1] + d[k - 1]
  <2>1. k - 1 \in Nat /\ (k - 1) + 1 = k
    BY <1>4
  <2> QED BY <1>3, <2>1
<1> QED BY <1>3, <1>4

-----------------------------------------------------------------------------
(* FlattenSeq: the concatenation of the first i sequences, for every i *)
IsFlattening(F, s, X) ==
  /\ F \in [1..Len(s) -> Seq(X)]
  /\ F[1] = s[1]
  /\ \A i \in 2..Len(s) : F[i] = F[i - 1] \o s[i]

LEMMA FlatteningExists ==
  ASSUME NEW X, NEW s \in Seq(Seq(X)), s # <<>>
  PROVE  \E F : IsFlattening(F, s, X)
<1> DEFINE At(n) == IF n + 2 <= Len(s) THEN s[n + 2] ELSE <<>>
           step == [n \in Nat |-> [a \in Seq(X) |-> a \o At(n)]]
<1>1. Len(s) \in Nat \ {0} /\ s[1] \in Seq(X) /\ \A i \in 1..Len(s) : s[i] \in Seq(X)
  OBVIOUS
<1>2. \A n \in Nat : At(n) \in Seq(X)
  BY <1>1
<1> HIDE DEF At
<1>3. step \in [Nat -> [Seq(X) -> Seq(X)]]
  <2>1. \A n \in Nat, a \in Seq(X) : a \o At(n) \in Seq(X)
    BY <1>2
  <2> QED BY <2>1
<1> HIDE DEF step
<1>4. PICK f : Recursion(f, Seq(X), s[1], step)
  BY <1>1, <1>3, RecursionExists
<1>5. /\ f \in [Nat -> Seq(X)] /\ f[0] = s[1]
      /\ \A n \in Nat : f[n + 1] = f[n] \o At(n)
  BY <1>4 DEF Recursion, step
<1> DEFINE F == [i \in 1..Len(s) |-> f[i - 1]]
<1>6. F \in [1..Len(s) -> Seq(X)] /\ F[1] = s[1]
  <2>1. \A i \in 1..Len(s) : i - 1 \in Nat
    BY <1>1
  <2>2. \A i \in 1..Len(s) : f[i - 1] \in Seq(X)
    BY <1>5, <2>1
  <2>3. 1 \in 1..Len(s) /\ 1 - 1 = 0
    BY <1>1
  <2>4. F[1] = s[1]
    BY <1>5, <2>3
  <2> QED BY <2>2, <2>4
<1>7. ASSUME NEW i \in 2..Len(s) PROVE F[i] = F[i - 1] \o s[i]
  <2>1. /\ i - 2 \in Nat /\ (i - 2) + 1 = i - 1 /\ (i - 2) + 2 = i
        /\ i - 1 \in 1..Len(s) /\ (i - 1) - 1 = i - 2 /\ i \in 1..Len(s)
    BY <1>1
  <2>2. At(i - 2) = s[i]
    BY <1>1, <2>1 DEF At
  <2>3. f[i - 1] = f[i - 2] \o s[i]
    BY <1>5, <2>1, <2>2
  <2> QED BY <2>1, <2>3
<1> HIDE DEF F
<1>8. IsFlattening(F, s, X)
  BY <1>6, <1>7 DEF IsFlattening
<1> QED BY <1>8

LEMMA FlattenIs ==
  ASSUME NEW X, NEW s \in Seq(Seq(X)), s # <<>>
  PROVE  \E F : IsFlattening(F, s, X) /\ FlattenSeq(s) = F[Len(s)]
<1> DEFINE Body(g) == [i \in 1..Len(s) |-> IF i = 1 THEN s[i] ELSE g[i - 1] \o s[i]]
           F == CHOOSE g : g = Body(g)
<1>1. Len(s) \in Nat \ {0} /\ \A i \in 1..Len(s) : s[i] \in Seq(X)
  OBVIOUS
<1>2. FlattenSeq(s) = F[Len(s)]
  BY <1>1 DEF FlattenSeq
<1>3. PICK g : IsFlattening(g, s, X)
  BY FlatteningExists
<1>4. g = Body(g)
  <2>1. g \in [1..Len(s) -> Seq(X)]
    BY <1>3 DEF IsFlattening
  <2>2. \A i \in 1..Len(s) : g[i] = IF i = 1 THEN s[i] ELSE g[i - 1] \o s[i]
    <3>1. \A i \in 1..Len(s) : i = 1 \/ i \in 2..Len(s)
      BY <1>1
    <3> QED BY <1>3, <3>1 DEF IsFlattening
  <2> QED BY <2>1, <2>2
<1>5. F = Body(F)
  BY <1>4
<1> HIDE DEF F
<1>6. /\ F[1] = s[1]
      /\ \A i \in 2..Len(s) : F[i] = F[i - 1] \o s[i]
  <2>1. 1 \in 1..Len(s) /\ \A i \in 2..Len(s) : i \in 1..Len(s) /\ i # 1
    BY <1>1
  <2> QED BY <1>5, <2>1
<1> DEFINE T == {n \in Nat : n + 1 <= Len(s) => F[n + 1] \in Seq(X)}
<1>7. 0 \in T
  BY <1>1, <1>6
<1>8. \A n \in Nat : n \in T => n + 1 \in T
  <2> SUFFICES ASSUME NEW n \in Nat, n \in T, (n + 1) + 1 <= Len(s)
               PROVE  F[(n + 1) + 1] \in Seq(X)
    OBVIOUS
  <2>1. /\ (n + 1) + 1 \in 2..Len(s) /\ ((n + 1) + 1) - 1 = n + 1
        /\ (n + 1) + 1 \in 1..Len(s) /\ n + 1 <= Len(s)
    BY <1>1
  <2>2. F[n + 1] \in Seq(X) /\ s[(n + 1) + 1] \in Seq(X)
    BY <1>1, <2>1
  <2>3. F[(n + 1) + 1] = F[n + 1] \o s[(n + 1) + 1]
    BY <1>6, <2>1
  <2> QED BY <2>2, <2>3
<1> HIDE DEF T
<1>9. \A n \in Nat : n \in T
  BY <1>7, <1>8, Induct
<1>10. \A i \in 1..Len(s) : F[i] \in Seq(X)
  <2> SUFFICES ASSUME NEW i \in 1..Len(s) PROVE F[i] \in Seq(X)
    OBVIOUS
  <2>1. i - 1 \in Nat /\ (i - 1) + 1 = i /\ i <= Len(s)
    BY <1>1
  <2> QED BY <1>9, <2>1 DEF T
<1>11. F \in [1..Len(s) -> Seq(X)]
  BY <1>5, <1>10
<1>12. IsFlattening(F, s, X)
  BY <1>6, <1>11 DEF IsFlattening
<1> QED BY <1>2, <1>12

(* What the proofs use of FlattenSeq: nothing gives nothing, and one more  *)
(* sequence adds itself at the end.                                        *)
LEMMA FlattenEmpty == FlattenSeq(<<>>) = <<>>
<1>1. Len(<<>>) = 0
  OBVIOUS
<1> QED BY <1>1 DEF FlattenSeq

LEMMA FlattenType ==
  ASSUME NEW X, NEW s \in Seq(Seq(X))
  PROVE  FlattenSeq(s) \in Seq(X)
<1>1. CASE s = <<>>
  <2>1. <<>> \in Seq(X)
    OBVIOUS
  <2> QED BY <1>1, <2>1, FlattenEmpty
<1>2. CASE s # <<>>
  <2>1. PICK F : IsFlattening(F, s, X) /\ FlattenSeq(s) = F[Len(s)]
    BY <1>2, FlattenIs
  <2>2. Len(s) \in 1..Len(s)
    BY <1>2
  <2> QED BY <2>1, <2>2 DEF IsFlattening
<1> QED BY <1>1, <1>2

LEMMA FlattenAppend ==
  ASSUME NEW X, NEW s \in Seq(Seq(X)), NEW x \in Seq(X)
  PROVE  FlattenSeq(Append(s, x)) = FlattenSeq(s) \o x
<1> DEFINE t == Append(s, x)
<1>1. /\ t \in Seq(Seq(X)) /\ t # <<>> /\ Len(t) = Len(s) + 1 /\ Len(s) \in Nat
      /\ t[Len(s) + 1] = x /\ \A i \in 1..Len(s) : t[i] = s[i]
  BY AppendProperties
<1> HIDE DEF t
<1>2. PICK G : IsFlattening(G, t, X) /\ FlattenSeq(t) = G[Len(t)]
  BY <1>1, FlattenIs
<1>3. CASE s = <<>>
  <2>1. Len(s) = 0 /\ t[1] = x /\ Len(t) = 1
    BY <1>1, <1>3
  <2>2. FlattenSeq(t) = x
    BY <1>2, <2>1 DEF IsFlattening
  <2>3. <<>> \o x = x
    OBVIOUS
  <2> QED BY <1>3, <2>2, <2>3, FlattenEmpty DEF t
<1>4. CASE s # <<>>
  <2>1. PICK F : IsFlattening(F, s, X) /\ FlattenSeq(s) = F[Len(s)]
    BY <1>4, FlattenIs
  <2>2. Len(s) >= 1
    BY <1>4
  <2> DEFINE N == Len(s)
             T == {n \in Nat : n + 1 <= N => F[n + 1] = G[n + 1]}
  <2>3. 0 \in T
    <3>1. 1 \in 1..Len(s)
      BY <1>1, <2>2
    <3> QED BY <1>1, <1>2, <2>1, <3>1 DEF IsFlattening
  <2> HIDE DEF N
  <2>4. \A n \in Nat : n \in T => n + 1 \in T
    <3> SUFFICES ASSUME NEW n \in Nat, n \in T, (n + 1) + 1 <= N
                 PROVE  F[(n + 1) + 1] = G[(n + 1) + 1]
      OBVIOUS
    <3>0. (n + 1) + 1 <= Len(s) /\ (n + 1 <= Len(s) => F[n + 1] = G[n + 1])
      BY DEF N
    <3>1. /\ (n + 1) + 1 \in 2..Len(s) /\ ((n + 1) + 1) - 1 = n + 1
          /\ (n + 1) + 1 \in 2..Len(t) /\ (n + 1) + 1 \in 1..Len(s) /\ n + 1 <= Len(s)
      BY <1>1, <3>0
    <3>2. F[n + 1] = G[n + 1] /\ t[(n + 1) + 1] = s[(n + 1) + 1]
      BY <1>1, <3>0, <3>1
    <3> QED BY <1>2, <2>1, <3>1, <3>2 DEF IsFlattening
  <2> HIDE DEF T
  <2>5. \A n \in Nat : n \in T
    BY <2>3, <2>4, Induct
  <2>6. F[Len(s)] = G[Len(s)]
    <3>1. N - 1 \in Nat /\ (N - 1) + 1 = N /\ N <= N
      BY <1>1, <2>2 DEF N
    <3>2. F[N] = G[N]
      BY <2>5, <3>1 DEF T
    <3> QED BY <3>2 DEF N
  <2>7. G[Len(s) + 1] = G[Len(s)] \o x
    <3>1. Len(s) + 1 \in 2..Len(t) /\ (Len(s) + 1) - 1 = Len(s)
      BY <1>1, <2>2
    <3> QED BY <1>1, <1>2, <3>1 DEF IsFlattening
  <2> QED BY <1>1, <1>2, <2>1, <2>6, <2>7 DEF t
<1> QED BY <1>3, <1>4

-----------------------------------------------------------------------------
(* Induction over the sequences in the set G, appending one element        *)
LEMMA SeqInduct ==
  ASSUME NEW X, NEW G, <<>> \in G,
         \A s \in Seq(X), x \in X : s \in G => Append(s, x) \in G
  PROVE  \A s \in Seq(X) : s \in G
<1> DEFINE T == {n \in Nat : \A s \in Seq(X) : Len(s) = n => s \in G}
<1>1. 0 \in T
  <2>1. \A s \in Seq(X) : Len(s) = 0 => s = <<>>
    BY EmptySeq
  <2> QED BY <2>1
<1>2. \A n \in Nat : n \in T => n + 1 \in T
  <2> SUFFICES ASSUME NEW n \in Nat, n \in T, NEW s \in Seq(X), Len(s) = n + 1
               PROVE  s \in G
    OBVIOUS
  <2>1. s # <<>>
    BY EmptySeq
  <2>2. PICK t \in Seq(X), x \in X : s = Append(t, x)
    BY <2>1, SequenceEmptyOrAppend
  <2>3. Len(s) = Len(t) + 1 /\ Len(t) \in Nat
    BY <2>2, AppendProperties, LenProperties
  <2>4. t \in G
    BY <2>3
  <2> QED BY <2>2, <2>4
<1> HIDE DEF T
<1>3. \A n \in Nat : n \in T
  BY <1>1, <1>2, Induct
<1> QED BY <1>3, LenProperties DEF T

(* One more element behind two sequences                                   *)
LEMMA AppendConcat ==
  ASSUME NEW S, NEW a \in Seq(S), NEW b \in Seq(S), NEW x \in S
  PROVE  a \o Append(b, x) = Append(a \o b, x)
<1> DEFINE c == a \o b
           o == <<x>>
<1>1. c \in Seq(S) /\ o \in Seq(S)
  BY ConcatProperties
<1>2. Append(b, x) = b \o o /\ Append(c, x) = c \o o
  BY <1>1, AppendIsConcat
<1> HIDE DEF o
<1>3. (a \o b) \o o = a \o (b \o o)
  BY <1>1, ConcatAssociative
<1> QED BY <1>2, <1>3

(* Flattening two lists one after the other                                *)
LEMMA FlattenConcat ==
  ASSUME NEW X, NEW s \in Seq(Seq(X)), NEW t \in Seq(Seq(X))
  PROVE  FlattenSeq(s \o t) = FlattenSeq(s) \o FlattenSeq(t)
<1> DEFINE G == {u \in Seq(Seq(X)) : FlattenSeq(s \o u) = FlattenSeq(s) \o FlattenSeq(u)}
           Y == Seq(X)
<1>0. s \in Seq(Y) /\ <<>> \in Seq(Y) /\ FlattenSeq(s) \in Seq(X)
  BY FlattenType, EmptySeq
<1>1. <<>> \in G
  <2>1. s \o <<>> = s /\ FlattenSeq(s) \o <<>> = FlattenSeq(s)
    BY <1>0, ConcatEmptySeq
  <2> QED BY <1>0, <2>1, FlattenEmpty
<1>2. ASSUME NEW u \in Seq(Y), NEW x \in Y, u \in G
      PROVE  Append(u, x) \in G
  <2>1. Append(u, x) \in Seq(Y)
    BY AppendProperties
  <2>2. s \o Append(u, x) = Append(s \o u, x)
    BY <1>0, AppendConcat
  <2>3. FlattenSeq(Append(s \o u, x)) = FlattenSeq(s \o u) \o x
    BY <1>0, FlattenAppend, ConcatProperties
  <2>4. FlattenSeq(Append(u, x)) = FlattenSeq(u) \o x
    BY FlattenAppend
  <2>5. FlattenSeq(u) \in Seq(X) /\ x \in Seq(X)
    BY FlattenType
  <2>6. (FlattenSeq(s) \o FlattenSeq(u)) \o x = FlattenSeq(s) \o (FlattenSeq(u) \o x)
    <3> DEFINE a == FlattenSeq(s)
               b == FlattenSeq(u)
    <3>1. a \in Seq(X) /\ b \in Seq(X) /\ x \in Seq(X)
      BY <1>0, <2>5
    <3> HIDE DEF a, b
    <3>2. (a \o b) \o x = a \o (b \o x)
      BY <3>1, ConcatAssociative
    <3> QED BY <3>2 DEF a, b
  <2> QED BY <1>2, <2>1, <2>2, <2>3, <2>4, <2>6
<1> HIDE DEF G
<1>3. \A u \in Seq(Y) : u \in G
  BY <1>1, <1>2, SeqInduct
<1> QED BY <1>3 DEF G

(* Flattening sequences no longer than M                                   *)
LEMMA FlattenLength ==
  ASSUME NEW X, NEW M \in Nat, NEW s \in Seq(Seq(X)),
         \A k \in DOMAIN s : Len(s[k]) <= M
  PROVE  Len(FlattenSeq(s)) <= Len(s) * M
<1> DEFINE Y == Seq(X)
           G == {u \in Seq(Y) : (\A k \in DOMAIN u : Len(u[k]) <= M)
                                   => Len(FlattenSeq(u)) <= Len(u) * M}
<1>1. <<>> \in G
  <2>1. <<>> \in Seq(Y) /\ Len(<<>>) = 0 /\ 0 * M = 0
    OBVIOUS
  <2> QED BY <2>1, FlattenEmpty
<1>2. ASSUME NEW u \in Seq(Y), NEW x \in Y, u \in G
      PROVE  Append(u, x) \in G
  <2> SUFFICES ASSUME \A k \in DOMAIN Append(u, x) : Len(Append(u, x)[k]) <= M
               PROVE  Len(FlattenSeq(Append(u, x))) <= Len(Append(u, x)) * M
    BY AppendProperties
  <2>1. /\ Len(Append(u, x)) = Len(u) + 1 /\ Len(u) \in Nat /\ DOMAIN u = 1..Len(u)
        /\ DOMAIN Append(u, x) = 1..(Len(u) + 1)
        /\ \A k \in 1..Len(u) : Append(u, x)[k] = u[k]
        /\ Append(u, x)[Len(u) + 1] = x
    BY AppendProperties, LenProperties
  <2>2. (\A k \in DOMAIN u : Len(u[k]) <= M) /\ Len(x) <= M
    <3>1. Len(u) + 1 \in DOMAIN Append(u, x) /\ \A k \in 1..Len(u) : k \in DOMAIN Append(u, x)
      BY <2>1
    <3> QED BY <2>1, <3>1
  <2>3. Len(FlattenSeq(u)) <= Len(u) * M
    BY <1>2, <2>2
  <2>4. FlattenSeq(Append(u, x)) = FlattenSeq(u) \o x /\ FlattenSeq(u) \in Seq(X)
    BY FlattenAppend, FlattenType
  <2>5. /\ Len(FlattenSeq(Append(u, x))) = Len(FlattenSeq(u)) + Len(x)
        /\ Len(FlattenSeq(u)) \in Nat /\ Len(x) \in Nat
    BY <2>4, ConcatProperties, LenProperties
  <2>6. (Len(u) + 1) * M = Len(u) * M + M /\ Len(u) * M \in Nat
    BY <2>1
  <2> QED BY <2>1, <2>2, <2>3, <2>5, <2>6
<1> HIDE DEF G
<1>3. s \in G
  BY <1>1, <1>2, SeqInduct
<1> QED BY <1>3 DEF G

(* Flattening a single sequence                                            *)
LEMMA FlattenOne ==
  ASSUME NEW X, NEW x \in Seq(X)
  PROVE  FlattenSeq(<<x>>) = x
<1>1. <<>> \in Seq(Seq(X)) /\ Append(<<>>, x) = <<x>> /\ <<>> \o x = x
  BY ConcatEmptySeq
<1> QED BY <1>1, FlattenAppend, FlattenEmpty

-----------------------------------------------------------------------------
(* The elements of s that are in S, in order                               *)
Kept(s, S) == FlattenSeq([k \in DOMAIN s |-> IF s[k] \in S THEN <<s[k]>> ELSE <<>>])

(* Nothing is kept of nothing *)
LEMMA KeptEmpty == ASSUME NEW S PROVE Kept(<<>>, S) = <<>>
<1>1. [k \in DOMAIN <<>> |-> IF <<>>[k] \in S THEN <<<<>>[k]>> ELSE <<>>] = <<>>
  OBVIOUS
<1> QED BY <1>1, FlattenEmpty DEF Kept

(* What is kept comes from the sequence and from S                         *)
LEMMA PiecesType ==
  ASSUME NEW X, NEW S, NEW s \in Seq(X)
  PROVE  [k \in DOMAIN s |-> IF s[k] \in S THEN <<s[k]>> ELSE <<>>] \in Seq(Seq(X \cap S))
<1> DEFINE N == Len(s)
           Y == Seq(X \cap S)
           P(k) == IF s[k] \in S THEN <<s[k]>> ELSE <<>>
           p == [k \in 1..N |-> P(k)]
<1>1. N \in Nat /\ DOMAIN s = 1..N /\ \A k \in 1..N : s[k] \in X
  BY LenProperties, ElementOfSeq
<1>2. ASSUME NEW k \in 1..N PROVE P(k) \in Y
  <2>1. CASE s[k] \in S
    BY <1>1, <2>1
  <2>2. CASE s[k] \notin S
    BY <2>2
  <2> QED BY <2>1, <2>2
<1> HIDE DEF N, P, Y
<1>3. p \in Seq(Y)
  BY <1>1, <1>2
<1>4. [k \in DOMAIN s |-> P(k)] = p
  BY <1>1
<1> QED BY <1>3, <1>4 DEF P, Y

LEMMA KeptType ==
  ASSUME NEW X, NEW S, NEW s \in Seq(X)
  PROVE  Kept(s, S) \in Seq(X \cap S) /\ Kept(s, S) \in Seq(X)
<1>1. Kept(s, S) \in Seq(X \cap S)
  BY PiecesType, FlattenType DEF Kept
<1> QED BY <1>1, SeqMonotonic

(* One more element is kept after the others, or not at all                *)
LEMMA KeptAppend ==
  ASSUME NEW X, NEW S, NEW s \in Seq(X), NEW x \in X
  PROVE  Kept(Append(s, x), S) = IF x \in S THEN Append(Kept(s, S), x) ELSE Kept(s, S)
<1> DEFINE N == Len(s)
           t == Append(s, x)
           Y == Seq(X \cap S)
           P(u, k) == IF u[k] \in S THEN <<u[k]>> ELSE <<>>
           e == IF x \in S THEN <<x>> ELSE <<>>
           p == [k \in 1..N |-> P(s, k)]
           q == [k \in 1..(N + 1) |-> P(t, k)]
<1>1. /\ N \in Nat /\ DOMAIN s = 1..N
      /\ t \in Seq(X) /\ Len(t) = N + 1 /\ DOMAIN t = 1..(N + 1)
      /\ \A k \in 1..N : t[k] = s[k]
      /\ t[N + 1] = x
  BY AppendProperties, LenProperties
<1>2. e \in Y
  <2>1. CASE x \in S
    BY <2>1
  <2>2. CASE x \notin S
    BY <2>2
  <2> QED BY <2>1, <2>2
<1> HIDE DEF N, t, Y, e
<1>3. p \in Seq(Y) /\ q \in Seq(Y)
  <2>1. [k \in DOMAIN s |-> P(s, k)] \in Seq(Y)
    BY PiecesType DEF Y
  <2>2. [k \in DOMAIN t |-> P(t, k)] \in Seq(Y)
    BY <1>1, PiecesType DEF Y
  <2> HIDE DEF P
  <2> QED BY <1>1, <2>1, <2>2
<1>4. Kept(s, S) = FlattenSeq(p) /\ Kept(t, S) = FlattenSeq(q)
  BY <1>1 DEF Kept
<1>5. \A k \in 1..N : P(t, k) = P(s, k)
  BY <1>1
<1>6. P(t, N + 1) = e
  BY <1>1 DEF e
<1> HIDE DEF P, p, q
<1>7. q = Append(p, e)
  <2>1. Append(p, e) \in Seq(Y) /\ Len(Append(p, e)) = Len(p) + 1
        /\ (\A k \in 1..Len(p) : Append(p, e)[k] = p[k]) /\ Append(p, e)[Len(p) + 1] = e
    BY <1>2, <1>3, AppendProperties
  <2>2. Len(p) = N /\ Len(q) = N + 1
    BY <1>1, <1>3, LenProperties DEF p, q
  <2>3. \A k \in 1..(N + 1) : Append(p, e)[k] = q[k]
    BY <1>1, <1>5, <1>6, <2>1, <2>2 DEF p, q
  <2> QED BY <1>3, <2>1, <2>2, <2>3, SeqEqual
<1>8. Kept(t, S) = Kept(s, S) \o e
  BY <1>2, <1>3, <1>4, <1>7, FlattenAppend DEF Y
<1>9. Kept(s, S) \in Seq(X)
  BY KeptType
<1>10. CASE x \in S
  BY <1>8, <1>9, <1>10, AppendIsConcat DEF e, t
<1>11. CASE x \notin S
  BY <1>8, <1>9, <1>11, ConcatEmptySeq DEF e, t
<1> QED BY <1>10, <1>11 DEF t

(* What is kept of two sequences one after the other                       *)
LEMMA KeptConcat ==
  ASSUME NEW X, NEW S, NEW s \in Seq(X), NEW t \in Seq(X)
  PROVE  Kept(s \o t, S) = Kept(s, S) \o Kept(t, S)
<1> DEFINE G == {u \in Seq(X) : Kept(s \o u, S) = Kept(s, S) \o Kept(u, S)}
<1>0. Kept(s, S) \in Seq(X)
  BY KeptType
<1>1. <<>> \in G
  <2>1. s \o <<>> = s /\ Kept(s, S) \o <<>> = Kept(s, S) /\ <<>> \in Seq(X)
    BY <1>0, ConcatEmptySeq, EmptySeq
  <2> QED BY <2>1, KeptEmpty
<1>2. ASSUME NEW u \in Seq(X), NEW x \in X, u \in G
      PROVE  Append(u, x) \in G
  <2>1. Append(u, x) \in Seq(X) /\ s \o u \in Seq(X) /\ <<x>> \in Seq(X)
        /\ Kept(u, S) \in Seq(X)
    <3>1. Append(u, x) \in Seq(X) /\ <<x>> \in Seq(X)
      BY AppendProperties
    <3>2. s \o u \in Seq(X)
      BY ConcatProperties
    <3>3. Kept(u, S) \in Seq(X)
      BY KeptType
    <3> QED BY <3>1, <3>2, <3>3
  <2>2. s \o Append(u, x) = Append(s \o u, x)
    BY AppendConcat
  <2>3. Kept(s \o u, S) = Kept(s, S) \o Kept(u, S)
    BY <1>2
  <2>4. CASE x \in S
    <3>1. Kept(s \o Append(u, x), S) = Append(Kept(s, S) \o Kept(u, S), x)
      BY <2>1, <2>2, <2>3, <2>4, KeptAppend
    <3>2. Kept(Append(u, x), S) = Append(Kept(u, S), x)
      BY <2>4, KeptAppend
    <3>3. Append(Kept(s, S) \o Kept(u, S), x) = Kept(s, S) \o Append(Kept(u, S), x)
      <4> DEFINE a == Kept(s, S)
                 b == Kept(u, S)
      <4>1. a \in Seq(X) /\ b \in Seq(X)
        BY <1>0, <2>1
      <4> HIDE DEF a, b
      <4>2. a \o Append(b, x) = Append(a \o b, x)
        BY <4>1, AppendConcat
      <4> QED BY <4>2 DEF a, b
    <3> QED BY <2>1, <3>1, <3>2, <3>3
  <2>5. CASE x \notin S
    <3>1. Kept(Append(u, x), S) = Kept(u, S)
      BY <2>5, KeptAppend
    <3> DEFINE v == s \o u
    <3> HIDE DEF v
    <3>0. v \in Seq(X)
      BY <2>1 DEF v
    <3>2. Kept(Append(v, x), S) = Kept(v, S)
      BY <2>5, <3>0, KeptAppend
    <3> QED BY <2>1, <2>2, <2>3, <3>1, <3>2 DEF v
  <2> QED BY <2>4, <2>5
<1> HIDE DEF G
<1>3. \A u \in Seq(X) : u \in G
  BY <1>1, <1>2, SeqInduct
<1> QED BY <1>3 DEF G

(* The element at position k is kept after those kept of the ones before.  *)
LEMMA KeptAt ==
  ASSUME NEW X, NEW S, NEW s \in Seq(X), NEW k \in 1..Len(s), s[k] \in S
  PROVE  LET r == Len(Kept(SubSeq(s, 1, k - 1), S))
         IN  /\ r \in 0..(Len(Kept(s, S)) - 1)
             /\ Kept(s, S)[r + 1] = s[k]
<1> DEFINE a == SubSeq(s, 1, k - 1)
           b == SubSeq(s, k + 1, Len(s))
           r == Len(Kept(a, S))
           n == Len(Kept(b, S))
<1>1. a \in Seq(X) /\ b \in Seq(X) /\ s[k] \in X
  <2>1. k \in Int /\ k - 1 \in Int /\ k + 1 \in Int /\ Len(s) \in Int
    BY LenProperties
  <2>2. \A i \in 1..Len(s) : s[i] \in X
    BY ElementOfSeq
  <2>3. (\A i \in 1..(k - 1) : s[i] \in X) /\ (\A i \in (k + 1)..Len(s) : s[i] \in X)
    BY <2>1, <2>2
  <2> QED BY <2>1, <2>2, <2>3, SubSeqProperties
<1>2. s = Append(a, s[k]) \o b
  <2>1. SubSeq(s, 1, k) = a \o <<s[k]>>
    BY SubSeqRecursiveSecond
  <2>2. Append(a, s[k]) = a \o <<s[k]>>
    BY <1>1, AppendIsConcat
  <2>3. SubSeq(s, 1, k) \o b = SubSeq(s, 1, Len(s))
    <3>1. 1 \in 1..(Len(s) + 1) /\ k \in (1 - 1)..Len(s) /\ Len(s) \in k..Len(s)
      OBVIOUS
    <3> QED BY <3>1, ConcatAdjacentSubSeq
  <2> QED BY <2>1, <2>2, <2>3, SubSeqFull
<1>3. Kept(s, S) = Append(Kept(a, S), s[k]) \o Kept(b, S)
  <2>1. Append(a, s[k]) \in Seq(X)
    BY <1>1, AppendProperties
  <2>2. Kept(Append(a, s[k]), S) = Append(Kept(a, S), s[k])
    <3> DEFINE x == s[k]
    <3> HIDE DEF x
    <3>1. a \in Seq(X) /\ x \in X /\ x \in S
      BY <1>1 DEF x
    <3> HIDE DEF a
    <3>2. Kept(Append(a, x), S) = Append(Kept(a, S), x)
      BY <3>1, KeptAppend
    <3> QED BY <3>2 DEF x
  <2> DEFINE c == Append(a, s[k])
  <2> HIDE DEF a, b, c
  <2>3. Kept(c \o b, S) = Kept(c, S) \o Kept(b, S)
    BY <1>1, <2>1, KeptConcat DEF c
  <2> QED BY <1>2, <2>2, <2>3 DEF c
<1>4. Kept(a, S) \in Seq(X) /\ Kept(b, S) \in Seq(X)
  BY <1>1, KeptType
<1>5. /\ Append(Kept(a, S), s[k]) \in Seq(X)
      /\ Len(Append(Kept(a, S), s[k])) = r + 1
      /\ Append(Kept(a, S), s[k])[r + 1] = s[k]
      /\ r \in Nat /\ n \in Nat
  BY <1>1, <1>4, AppendProperties, LenProperties
<1>6. /\ Len(Kept(s, S)) = r + 1 + n
      /\ \A i \in 1..(r + 1 + n) : Kept(s, S)[i] =
            IF i <= r + 1 THEN Append(Kept(a, S), s[k])[i]
            ELSE Kept(b, S)[i - (r + 1)]
  BY <1>3, <1>4, <1>5, ConcatProperties
<1> QED BY <1>5, <1>6

(* Everything in S is kept, and nothing is added.                          *)
LEMMA KeptElements ==
  ASSUME NEW X, NEW S, NEW s \in Seq(X)
  PROVE  \A x : Contains(Kept(s, S), x) <=> x \in S /\ Contains(s, x)
<1> DEFINE G == {u \in Seq(X) : \A x : Contains(Kept(u, S), x) => Contains(u, x)}
<1>1. <<>> \in G
  BY EmptySeq, KeptEmpty DEF Contains
<1>2. ASSUME NEW u \in Seq(X), NEW e \in X, u \in G
      PROVE  Append(u, e) \in G
  <2> SUFFICES ASSUME NEW x, Contains(Kept(Append(u, e), S), x)
               PROVE  Contains(Append(u, e), x)
    BY AppendProperties
  <2>1. /\ Append(u, e) \in Seq(X) /\ Len(Append(u, e)) = Len(u) + 1 /\ Len(u) \in Nat
        /\ \A i \in 1..Len(u) : Append(u, e)[i] = u[i]
        /\ Append(u, e)[Len(u) + 1] = e
    BY AppendProperties, LenProperties
  <2>2. CASE Contains(Kept(u, S), x)
    <3>1. PICK i \in 1..Len(u) : u[i] = x
      BY <1>2, <2>2 DEF Contains
    <3> QED BY <2>1, <3>1 DEF Contains
  <2>3. CASE x = e
    BY <2>1, <2>3 DEF Contains
  <2>4. ASSUME e \in S, x # e PROVE Contains(Kept(u, S), x)
    <3>1. Kept(Append(u, e), S) = Append(Kept(u, S), e) /\ Kept(u, S) \in Seq(X)
      BY <2>4, KeptAppend, KeptType
    <3> DEFINE v == Kept(u, S)
    <3> HIDE DEF v
    <3>2. /\ Len(Append(v, e)) = Len(v) + 1 /\ Len(v) \in Nat
          /\ \A i \in 1..Len(v) : Append(v, e)[i] = v[i]
          /\ Append(v, e)[Len(v) + 1] = e
      BY <3>1, AppendProperties, LenProperties DEF v
    <3>3. PICK i \in 1..Len(Append(v, e)) : Append(v, e)[i] = x
      BY <3>1 DEF Contains, v
    <3>4. i \in 1..Len(v) /\ v[i] = x
      BY <2>4, <3>2, <3>3
    <3> QED BY <3>4 DEF Contains, v
  <2>5. ASSUME e \notin S PROVE Contains(Kept(u, S), x)
    BY <2>5, KeptAppend
  <2> QED BY <2>2, <2>3, <2>4, <2>5
<1> HIDE DEF G
<1>3. s \in G
  BY <1>1, <1>2, SeqInduct
<1>4. ASSUME NEW x, Contains(Kept(s, S), x) PROVE x \in S /\ Contains(s, x)
  <2>1. Contains(s, x)
    BY <1>3, <1>4 DEF G
  <2>2. Kept(s, S) \in Seq(X \cap S)
    BY KeptType
  <2>3. PICK i \in 1..Len(Kept(s, S)) : Kept(s, S)[i] = x
    BY <1>4 DEF Contains
  <2>4. x \in X \cap S
    BY <2>2, <2>3, ElementOfSeq
  <2> QED BY <2>1, <2>4
<1>5. ASSUME NEW x, x \in S, Contains(s, x) PROVE Contains(Kept(s, S), x)
  <2>1. PICK k \in 1..Len(s) : s[k] = x
    BY <1>5 DEF Contains
  <2> DEFINE r == Len(Kept(SubSeq(s, 1, k - 1), S))
  <2>2. r \in 0..(Len(Kept(s, S)) - 1) /\ Kept(s, S)[r + 1] = x
    BY <1>5, <2>1, KeptAt
  <2>3. Len(Kept(s, S)) \in Nat
    BY KeptType, LenProperties
  <2> HIDE DEF r
  <2>4. r + 1 \in 1..Len(Kept(s, S))
    BY <2>2, <2>3
  <2> QED BY <2>2, <2>4 DEF Contains
<1> QED BY <1>4, <1>5

(* No more is kept than there is.                                          *)
LEMMA KeptLength ==
  ASSUME NEW X, NEW S, NEW s \in Seq(X)
  PROVE  Len(Kept(s, S)) \in 0..Len(s)
<1> DEFINE G == {u \in Seq(X) : Len(Kept(u, S)) \in 0..Len(u)}
<1>1. <<>> \in G
  BY KeptEmpty
<1>2. ASSUME NEW u \in Seq(X), NEW x \in X, u \in G
      PROVE  Append(u, x) \in G
  <2>1. Append(u, x) \in Seq(X) /\ Len(Append(u, x)) = Len(u) + 1 /\ Len(u) \in Nat
    BY AppendProperties, LenProperties
  <2>2. Kept(u, S) \in Seq(X)
    BY KeptType
  <2>3. Len(Append(Kept(u, S), x)) = Len(Kept(u, S)) + 1
    BY <2>2, AppendProperties
  <2>4. Kept(Append(u, x), S) = IF x \in S THEN Append(Kept(u, S), x) ELSE Kept(u, S)
    BY KeptAppend
  <2> QED BY <1>2, <2>1, <2>3, <2>4
<1> HIDE DEF G
<1>3. s \in G
  BY <1>1, <1>2, SeqInduct
<1> QED BY <1>3 DEF G

-----------------------------------------------------------------------------
(* A function with no arguments is the empty sequence.                     *)
LEMMA NoElements ==
  ASSUME NEW f, f = [k \in 1..0 |-> f[k]]
  PROVE  f = <<>>
<1>1. f \in Seq({1}) /\ DOMAIN f = 1..0
  <2>1. f \in [1..0 -> {1}]
    OBVIOUS
  <2> QED BY <2>1, SeqDef
<1>2. Len(f) \in Nat /\ DOMAIN f = 1..Len(f)
  BY <1>1, LenProperties
<1>3. Len(f) = 0
  BY <1>1, <1>2
<1> QED BY <1>1, <1>3, EmptySeq

(* The smaller of two numbers                                              *)
LEMMA MinOfTwo ==
  ASSUME NEW a \in Int, NEW b \in Int
  PROVE  Min({a, b}) = IF a <= b THEN a ELSE b
<1> DEFINE m == IF a <= b THEN a ELSE b
<1>1. m \in {a, b} /\ \A y \in {a, b} : m <= y
  OBVIOUS
<1>2. \A x \in {a, b} : (\A y \in {a, b} : x <= y) => x = m
  OBVIOUS
<1> QED BY <1>1, <1>2 DEF Min

-----------------------------------------------------------------------------
(* How many elements of P are not above k                                  *)
Rank(P, k) == Cardinality({j \in P : j <= k})

(* No element, or all of them, up to k                                     *)
LEMMA RankEnds ==
  ASSUME NEW P, IsFiniteSet(P), NEW k
  PROVE  /\ Rank(P, k) \in 0..Cardinality(P) /\ Cardinality(P) \in Nat
         /\ (\A j \in P : ~(j <= k)) => Rank(P, k) = 0
         /\ (\A j \in P : j <= k) <=> Rank(P, k) = Cardinality(P)
<1> DEFINE Q == {j \in P : j <= k}
<1>1. Q \in SUBSET P
  OBVIOUS
<1> HIDE DEF Q
<1>2. /\ IsFiniteSet(Q) /\ Cardinality(Q) <= Cardinality(P)
      /\ Cardinality(Q) = Cardinality(P) => P = Q
      /\ Cardinality(P) \in Nat /\ Cardinality(Q) \in Nat
  BY <1>1, FS_Subset, FS_CardinalityType
<1>3. (\A j \in P : ~(j <= k)) => Cardinality(Q) = 0
  BY FS_EmptySet DEF Q
<1>4. (\A j \in P : j <= k) <=> P = Q
  BY DEF Q
<1>5. Rank(P, k) = Cardinality(Q)
  BY DEF Rank, Q
<1> QED BY <1>2, <1>3, <1>4, <1>5

(* The next element of P has the next rank.                                *)
LEMMA RankNext ==
  ASSUME NEW P, P \subseteq Nat, IsFiniteSet(P), NEW c \in Nat, NEW m \in P, c < m,
         \A j \in P : j > c => j >= m
  PROVE  Rank(P, m) = Rank(P, c) + 1
<1> DEFINE Q == {j \in P : j <= c}
<1>1. {j \in P : j <= m} = Q \cup {m}
  <2>1. \A j \in P : j \in Nat /\ (j <= m <=> j <= c \/ j = m)
    OBVIOUS
  <2> QED BY <2>1
<1>2. IsFiniteSet(Q) /\ m \notin Q
  <2>1. Q \in SUBSET P
    OBVIOUS
  <2>2. m \notin Q
    OBVIOUS
  <2> QED BY <2>1, <2>2, FS_Subset
<1> HIDE DEF Q
<1>3. Cardinality(Q \cup {m}) = Cardinality(Q) + 1
  BY <1>2, FS_AddElement
<1> QED BY <1>1, <1>3 DEF Rank, Q

(* Elements of P are told apart by their ranks.                            *)
LEMMA RankStrict ==
  ASSUME NEW P, P \subseteq Nat, IsFiniteSet(P), NEW k \in P, NEW l \in P, k < l
  PROVE  Rank(P, k) # Rank(P, l)
<1> DEFINE A == {j \in P : j <= k}
           B == {j \in P : j <= l}
<1>1. A \in SUBSET B /\ B \in SUBSET P /\ l \in B /\ l \notin A
  <2>1. \A j \in P : j \in Nat /\ (j <= k => j <= l)
    OBVIOUS
  <2>2. l <= l /\ ~(l <= k)
    OBVIOUS
  <2> QED BY <2>1, <2>2
<1> HIDE DEF A, B
<1>2. IsFiniteSet(B)
  BY <1>1, FS_Subset
<1>3. Cardinality(A) = Cardinality(B) => B = A
  BY <1>1, <1>2, FS_Subset
<1> QED BY <1>1, <1>3 DEF Rank, A, B

(* ... so a rank chooses the element.                                      *)
LEMMA RankChosen ==
  ASSUME NEW P, P \subseteq Nat, IsFiniteSet(P), NEW k \in P
  PROVE  (CHOOSE x \in P : Rank(P, x) = Rank(P, k)) = k
<1>1. \A x \in P : Rank(P, x) = Rank(P, k) => x = k
  <2> SUFFICES ASSUME NEW x \in P, Rank(P, x) = Rank(P, k), x # k PROVE FALSE
    OBVIOUS
  <2>1. x \in Nat /\ k \in Nat
    OBVIOUS
  <2>2. x < k \/ k < x
    BY <2>1
  <2> QED BY <2>2, RankStrict
<1> QED BY <1>1

(* The larger of two numbers                                               *)
LEMMA MaxOfTwo ==
  ASSUME NEW a \in Int, NEW b \in Int
  PROVE  Max({a, b}) = IF a >= b THEN a ELSE b
<1> DEFINE m == IF a >= b THEN a ELSE b
<1>1. m \in {a, b} /\ \A y \in {a, b} : m >= y
  OBVIOUS
<1>2. \A x \in {a, b} : (\A y \in {a, b} : x >= y) => x = m
  OBVIOUS
<1> QED BY <1>1, <1>2 DEF Max

(* A sequence of one element                                               *)
LEMMA OneElement ==
  ASSUME NEW S, NEW a \in S
  PROVE  <<a>> \in Seq(S) /\ Len(<<a>>) = 1 /\ <<a>>[1] = a
<1> QED OBVIOUS

(* ... of two elements                                                     *)
LEMMA TwoElements ==
  ASSUME NEW S, NEW a \in S, NEW b \in S
  PROVE  <<a, b>> \in Seq(S)
<1> QED OBVIOUS

(* InsertAt puts one element among the others.                             *)
LEMMA Inserted ==
  ASSUME NEW X, NEW s \in Seq(X), NEW i \in 1..(Len(s) + 1), NEW e \in X
  PROVE  /\ InsertAt(s, i, e) \in Seq(X) /\ Len(InsertAt(s, i, e)) = Len(s) + 1
         /\ \A a \in 1..(Len(s) + 1) : a # i =>
               \E b \in 1..Len(s) : InsertAt(s, i, e)[a] = s[b]
<1> DEFINE N == Len(s)
           u == SubSeq(s, 1, i - 1)
           v == SubSeq(s, i, N)
           w == u \o <<e>>
<1>1. N \in Nat /\ \A k \in 1..N : s[k] \in X
  BY LenProperties, ElementOfSeq
<1>2. /\ u \in Seq(X) /\ Len(u) = i - 1 /\ \A k \in 1..(i - 1) : u[k] = s[k]
      /\ v \in Seq(X) /\ Len(v) = N - i + 1 /\ \A k \in 1..(N - i + 1) : v[k] = s[i + k - 1]
  <2>1. /\ 1 \in Int /\ i - 1 \in Int /\ i \in Int /\ N \in Int
        /\ (\A k \in 1..(i - 1) : s[k] \in X) /\ (\A k \in i..N : s[k] \in X)
    BY <1>1
  <2> HIDE DEF N
  <2>2. /\ u \in Seq(X) /\ Len(u) = IF 1 <= i - 1 THEN (i - 1) - 1 + 1 ELSE 0
        /\ \A k \in 1..((i - 1) - 1 + 1) : u[k] = s[1 + k - 1]
    BY <2>1, SubSeqProperties
  <2>3. /\ v \in Seq(X) /\ Len(v) = IF i <= N THEN N - i + 1 ELSE 0
        /\ \A k \in 1..(N - i + 1) : v[k] = s[i + k - 1]
    BY <2>1, SubSeqProperties
  <2>4. i \in Nat \ {0} /\ i <= N + 1
    BY <1>1 DEF N
  <2> HIDE DEF u, v
  <2>5. Len(u) = i - 1 /\ Len(v) = N - i + 1
    BY <1>1, <2>2, <2>3, <2>4
  <2>6. \A k \in 1..(i - 1) : u[k] = s[k]
    <3>1. \A k \in 1..(i - 1) : k \in 1..((i - 1) - 1 + 1) /\ 1 + k - 1 = k
      BY <2>4
    <3> QED BY <2>2, <3>1
  <2> QED BY <2>2, <2>3, <2>5, <2>6
<1> HIDE DEF u, v
<1>3. <<e>> \in Seq(X) /\ Len(<<e>>) = 1 /\ <<e>>[1] = e
  BY OneElement
<1>4. /\ w \in Seq(X) /\ Len(w) = i
      /\ \A k \in 1..(i - 1) : w[k] = s[k]
  <2> DEFINE o == <<e>>
  <2> HIDE DEF o
  <2>0. o \in Seq(X) /\ Len(o) = 1 /\ w = u \o o
    BY <1>3 DEF o
  <2> HIDE DEF w
  <2>1. /\ w \in Seq(X) /\ Len(w) = Len(u) + Len(o)
        /\ \A k \in 1..(Len(u) + Len(o)) : w[k] = IF k <= Len(u) THEN u[k] ELSE o[k - Len(u)]
    BY <1>2, <2>0, ConcatProperties
  <2>2. i \in Nat \ {0}
    BY <1>1
  <2>3. Len(w) = i
    BY <1>2, <2>0, <2>1, <2>2
  <2>4. \A k \in 1..(i - 1) : k \in 1..(Len(u) + Len(o)) /\ k <= Len(u)
    BY <1>2, <2>0, <2>2
  <2> QED BY <1>2, <2>1, <2>3, <2>4
<1>5. InsertAt(s, i, e) = w \o v
  BY DEF InsertAt, u, v
<1> DEFINE r == InsertAt(s, i, e)
<1> HIDE DEF w, r
<1>6. /\ r \in Seq(X) /\ Len(r) = Len(w) + Len(v)
      /\ \A k \in 1..(Len(w) + Len(v)) : r[k] = IF k <= Len(w) THEN w[k] ELSE v[k - Len(w)]
  <2>1. v \in Seq(X) /\ w \in Seq(X) /\ r = w \o v
    BY <1>2, <1>4, <1>5 DEF r
  <2> QED BY <2>1, ConcatProperties
<1>7. i \in Nat \ {0} /\ i <= N + 1
  BY <1>1
<1> HIDE DEF N
<1>8. Len(r) = N + 1
  BY <1>1, <1>2, <1>4, <1>6, <1>7
<1>9. ASSUME NEW a \in 1..(N + 1), a # i PROVE \E b \in 1..N : r[a] = s[b]
  <2>1. CASE a < i
    <3>1. a \in 1..(i - 1) /\ a \in 1..N /\ a \in 1..(Len(w) + Len(v)) /\ a <= Len(w)
      BY <1>1, <1>2, <1>4, <1>7, <2>1
    <3> QED BY <1>4, <1>6, <3>1
  <2>2. CASE a > i
    <3>1. a - 1 \in 1..N /\ a \in 1..(Len(w) + Len(v)) /\ ~(a <= Len(w))
          /\ a - Len(w) \in 1..(N - i + 1) /\ i + (a - Len(w)) - 1 = a - 1
      BY <1>1, <1>2, <1>4, <1>7, <2>2
    <3>2. r[a] = s[a - 1]
      BY <1>2, <1>6, <3>1
    <3> QED BY <3>1, <3>2
  <2> QED BY <1>1, <1>7, <1>9, <2>1, <2>2
<1> QED BY <1>6, <1>8, <1>9 DEF r, N

(* RemoveAt adds none.                                                     *)
LEMMA Removed ==
  ASSUME NEW X, NEW s \in Seq(X), NEW i \in 1..Len(s)
  PROVE  RemoveAt(s, i) \in Seq(X)
<1> DEFINE N == Len(s)
           u == SubSeq(s, 1, i - 1)
           v == SubSeq(s, i + 1, N)
<1>1. N \in Nat /\ \A k \in 1..N : s[k] \in X
  BY LenProperties, ElementOfSeq
<1>2. /\ 1 \in Int /\ i - 1 \in Int /\ i + 1 \in Int /\ N \in Int
      /\ (\A k \in 1..(i - 1) : s[k] \in X) /\ (\A k \in (i + 1)..N : s[k] \in X)
  BY <1>1
<1> HIDE DEF N
<1>3. u \in Seq(X) /\ v \in Seq(X)
  BY <1>2, SubSeqProperties
<1> HIDE DEF u, v
<1>4. u \o v \in Seq(X)
  BY <1>3, ConcatProperties
<1> QED BY <1>4 DEF RemoveAt, u, v, N

(* SetToSeq of a finite set is a sequence of its elements.                 *)
LEMMA SetToSeqType ==
  ASSUME NEW S, IsFiniteSet(S)
  PROVE  /\ Cardinality(S) \in Nat
         /\ SetToSeq(S) \in [1..Cardinality(S) -> S]
<1>1. PICK n \in Nat : ExistsBijection(1..n, S)
  BY FS_NatBijection
<1>2. Cardinality(S) = n
  BY <1>1, FS_CountingElements
<1>3. PICK f \in Bijection(1..n, S) : TRUE
  BY <1>1 DEF ExistsBijection
<1>4. f \in [1..n -> S] /\ IsInjective(f)
  BY <1>3 DEF Bijection, Injection, IsInjective
<1>5. SetToSeq(S) = CHOOSE g \in [1..n -> S] : IsInjective(g)
  BY <1>2 DEF SetToSeq
<1> QED BY <1>2, <1>4, <1>5

-----------------------------------------------------------------------------
(* The pieces of a flattened sequence: piece j + 1 of s starts behind      *)
(* Offset(s, j).                                                           *)
Offset(s, j) == Len(FlattenSeq(SubSeq(s, 1, j)))

(* One more piece                                                          *)
LEMMA PrefixNext ==
  ASSUME NEW X, NEW s \in Seq(X), NEW j \in Nat, j < Len(s)
  PROVE  /\ SubSeq(s, 1, j) \in Seq(X) /\ s[j + 1] \in X
         /\ SubSeq(s, 1, j + 1) = Append(SubSeq(s, 1, j), s[j + 1])
         /\ SubSeq(s, j + 2, Len(s)) \in Seq(X)
         /\ s = Append(SubSeq(s, 1, j), s[j + 1]) \o SubSeq(s, j + 2, Len(s))
<1> DEFINE a == SubSeq(s, 1, j)
           N == Len(s)
           k == j + 1
<1>1. N \in Nat /\ k \in 1..N /\ k - 1 = j /\ k + 1 = j + 2
  BY LenProperties
<1>2. \A i \in 1..N : s[i] \in X
  BY ElementOfSeq
<1>3. a \in Seq(X) /\ SubSeq(s, j + 2, N) \in Seq(X) /\ s[k] \in X
  <2>1. /\ (\A i \in 1..j : s[i] \in X) /\ (\A i \in (j + 2)..N : s[i] \in X)
        /\ 1 \in Int /\ j \in Int /\ j + 2 \in Int /\ N \in Int
    BY <1>1, <1>2
  <2> HIDE DEF N
  <2> QED BY <1>1, <1>2, <2>1, SubSeqProperties
<1>4. SubSeq(s, 1, k) = a \o <<s[k]>>
  BY <1>1, SubSeqRecursiveSecond
<1>5. Append(a, s[k]) = a \o <<s[k]>>
  BY <1>3, AppendIsConcat
<1>6. SubSeq(s, 1, k) \o SubSeq(s, k + 1, N) = s
  <2>1. 1 \in 1..(N + 1) /\ k \in (1 - 1)..N /\ N \in k..N
    BY <1>1
  <2>2. SubSeq(s, 1, k) \o SubSeq(s, k + 1, N) = SubSeq(s, 1, N)
    BY <2>1, ConcatAdjacentSubSeq
  <2> QED BY <2>2, SubSeqFull
<1> QED BY <1>1, <1>3, <1>4, <1>5, <1>6

(* Where the pieces start and end, and what they hold                      *)
LEMMA PieceAt ==
  ASSUME NEW X, NEW s \in Seq(Seq(X)), NEW j \in Nat, j < Len(s)
  PROVE  /\ Offset(s, j) \in Nat /\ Len(s[j + 1]) \in Nat
         /\ Offset(s, j + 1) = Offset(s, j) + Len(s[j + 1])
         /\ Offset(s, j + 1) <= Len(FlattenSeq(s))
         /\ \A i \in 1..Len(s[j + 1]) : FlattenSeq(s)[Offset(s, j) + i] = s[j + 1][i]
<1> DEFINE Y == Seq(X)
           a == SubSeq(s, 1, j)
           x == s[j + 1]
           b == SubSeq(s, j + 2, Len(s))
           c == Append(a, x)
<1>1. a \in Seq(Y) /\ x \in Y /\ SubSeq(s, 1, j + 1) = c /\ b \in Seq(Y) /\ s = c \o b
  BY PrefixNext
<1>2. c \in Seq(Y)
  BY <1>1, AppendProperties
<1> HIDE DEF a, x, b, c
<1> DEFINE A == FlattenSeq(a)
           B == FlattenSeq(b)
           C == FlattenSeq(c)
<1>3. A \in Seq(X) /\ B \in Seq(X) /\ C = A \o x /\ FlattenSeq(s) = C \o B
  <2>1. a \in Seq(Seq(X)) /\ b \in Seq(Seq(X)) /\ c \in Seq(Seq(X)) /\ x \in Seq(X)
    BY <1>1, <1>2 DEF Y
  <2>2. A \in Seq(X) /\ B \in Seq(X)
    BY <2>1, FlattenType
  <2>3. C = A \o x
    BY <2>1, FlattenAppend DEF c
  <2>4. FlattenSeq(c \o b) = C \o B
    BY <2>1, FlattenConcat
  <2> QED BY <1>1, <2>2, <2>3, <2>4
<1> HIDE DEF A, B, C
<1>4. /\ x \in Seq(X) /\ C \in Seq(X) /\ Len(C) = Len(A) + Len(x)
      /\ Len(A) \in Nat /\ Len(x) \in Nat /\ Len(B) \in Nat
      /\ \A i \in 1..(Len(A) + Len(x)) : C[i] = IF i <= Len(A) THEN A[i] ELSE x[i - Len(A)]
  <2>1. x \in Seq(X)
    BY <1>1 DEF Y
  <2> QED BY <1>3, <2>1, ConcatProperties, LenProperties
<1>5. /\ Len(FlattenSeq(s)) = Len(C) + Len(B)
      /\ \A i \in 1..(Len(C) + Len(B)) : FlattenSeq(s)[i] =
            IF i <= Len(C) THEN C[i] ELSE B[i - Len(C)]
  BY <1>3, <1>4, ConcatProperties
<1>6. Offset(s, j) = Len(A) /\ Offset(s, j + 1) = Len(C)
  BY <1>1 DEF Offset, A, C, a
<1>7. \A i \in 1..Len(x) : FlattenSeq(s)[Len(A) + i] = x[i]
  <2> SUFFICES ASSUME NEW i \in 1..Len(x) PROVE FlattenSeq(s)[Len(A) + i] = x[i]
    OBVIOUS
  <2> DEFINE m == Len(A) + i
  <2>1. /\ m \in 1..(Len(A) + Len(x)) /\ m \in 1..(Len(C) + Len(B)) /\ m <= Len(C)
        /\ ~(m <= Len(A)) /\ m - Len(A) = i
    BY <1>4
  <2> HIDE DEF m
  <2>2. FlattenSeq(s)[m] = x[i]
    BY <1>4, <1>5, <2>1
  <2> QED BY <2>2 DEF m
<1>8. Len(C) <= Len(FlattenSeq(s))
  BY <1>4, <1>5
<1> QED BY <1>4, <1>6, <1>7, <1>8 DEF x

(* The first piece starts at the start, the last one ends at the end.      *)
LEMMA PieceEnds ==
  ASSUME NEW X, NEW s \in Seq(Seq(X))
  PROVE  /\ Offset(s, 0) = 0 /\ Offset(s, Len(s)) = Len(FlattenSeq(s))
         /\ \A j \in 0..Len(s) : Offset(s, j) \in Nat /\ Offset(s, j) <= Len(FlattenSeq(s))
         /\ Len(FlattenSeq(s)) \in Nat
<1>1. SubSeq(s, 1, 0) = <<>> /\ Len(<<>>) = 0
  BY SubSeqEmpty
<1>2. Offset(s, 0) = 0
  BY <1>1, FlattenEmpty DEF Offset
<1>3. Offset(s, Len(s)) = Len(FlattenSeq(s))
  BY SubSeqFull DEF Offset
<1>4. Len(s) \in Nat /\ Len(FlattenSeq(s)) \in Nat
  BY LenProperties, FlattenType
<1>5. \A j \in 0..Len(s) : Offset(s, j) \in Nat /\ Offset(s, j) <= Len(FlattenSeq(s))
  <2> SUFFICES ASSUME NEW j \in 0..Len(s)
               PROVE  Offset(s, j) \in Nat /\ Offset(s, j) <= Len(FlattenSeq(s))
    OBVIOUS
  <2>1. CASE j = Len(s)
    BY <1>3, <1>4, <2>1
  <2>2. CASE j # Len(s)
    <3>1. j \in Nat /\ j < Len(s)
      BY <1>4, <2>2
    <3>2. /\ Offset(s, j) \in Nat /\ Len(s[j + 1]) \in Nat
          /\ Offset(s, j + 1) = Offset(s, j) + Len(s[j + 1])
          /\ Offset(s, j + 1) <= Len(FlattenSeq(s))
      BY <3>1, PieceAt
    <3> QED BY <1>4, <3>2
  <2> QED BY <2>1, <2>2
<1> QED BY <1>2, <1>3, <1>4, <1>5

(* Every place of the flattened sequence is a place of a piece.            *)
LEMMA PieceOf ==
  ASSUME NEW X, NEW s \in Seq(Seq(X)), NEW a \in 1..Len(FlattenSeq(s))
  PROVE  \E j \in Nat : /\ j < Len(s)
                        /\ a > Offset(s, j) /\ a <= Offset(s, j + 1)
<1> DEFINE N == Len(s)
           T == {j \in 0..N : Offset(s, j) < a}
<1>1. N \in Nat /\ Offset(s, 0) = 0 /\ Offset(s, N) = Len(FlattenSeq(s)) /\ a \in Nat
      /\ Len(FlattenSeq(s)) \in Nat /\ (\A j \in 0..N : Offset(s, j) \in Nat)
  BY PieceEnds, LenProperties
<1> HIDE DEF N
<1>2. 0 \in T /\ T \subseteq 0..N
  BY <1>1
<1>3. PICK j \in T : \A i \in T : j >= i
  BY <1>1, <1>2, GreatestNatural
<1>4. j # N
  BY <1>1
<1>5. j + 1 \notin T /\ j + 1 \in 0..N
  BY <1>1, <1>3, <1>4
<1>6. ~(Offset(s, j + 1) < a)
  BY <1>5
<1> QED BY <1>1, <1>4, <1>5, <1>6 DEF N
=============================================================================
