----------------------------- MODULE FoldLemmas ------------------------------
(***************************************************************************)
(* What the folds that the specifications use compute, for data of any     *)
(* size: sums over functions and sets, and the members of a sequence that  *)
(* are kept.  A fold is a recursive function on the subsets of a finite    *)
(* set; the proofs take a smallest subset for which a claim fails.         *)
(***************************************************************************)
EXTENDS SequencesExt, FiniteSetTheorems, SequenceTheorems, TLAPS

-----------------------------------------------------------------------------
(* Smallest counterexamples *)

\* What holds of 0, and of n + 1 when it holds of n, holds of every number.
LEMMA NaturalsBySteps ==
  ASSUME NEW T, 0 \in T, \A n \in Nat : n \in T => n + 1 \in T
  PROVE  Nat \subseteq T
<1> DEFINE R == {p \in Nat \X Nat : p[1] < p[2]}
           U == {n \in Nat : n \notin T}
<1>1. IsWellFoundedOn(R, Nat)
  BY NatLessThanWellFounded DEF OpToRel
<1> SUFFICES ASSUME U # {} PROVE FALSE
  OBVIOUS
<1>2. PICK n \in U : \A m \in U : ~ (<<m, n>> \in R)
  <2>1. U \subseteq Nat
    OBVIOUS
  <2> HIDE DEF R, U
  <2> QED
    BY <1>1, <2>1, WFMin
<1>3. \A m \in U : ~ (m < n)
  BY <1>2
<1>4. n \in Nat /\ n # 0 /\ n - 1 \in Nat /\ n - 1 < n /\ n = (n - 1) + 1
  OBVIOUS
<1> QED
  BY <1>3, <1>4

\* Among some natural numbers there is a smallest.
LEMMA LeastNumber ==
  ASSUME NEW T, T \subseteq Nat, T # {}
  PROVE  \E n \in T : \A m \in T : n <= m
<1> DEFINE R == {p \in Nat \X Nat : p[1] < p[2]}
<1>1. IsWellFoundedOn(R, Nat)
  BY NatLessThanWellFounded DEF OpToRel
<1>2. PICK n \in T : \A m \in T : ~ (<<m, n>> \in R)
  <2> HIDE DEF R
  <2> QED
    BY <1>1, WFMin
<1>3. \A m \in T : ~ (m < n)
  BY <1>2
<1> QED
  BY <1>3

\* Among some subsets of a finite set there is a smallest.
LEMMA LeastSet ==
  ASSUME NEW S, IsFiniteSet(S), NEW T, T \subseteq SUBSET S, T # {}
  PROVE  \E n \in T : \A m \in T : m \subseteq n => m = n
<1> DEFINE R == StrictSubsetOrdering(S)
<1>1. IsWellFoundedOn(R, SUBSET S)
  BY FS_StrictSubsetOrderingWellFounded, FS_FiniteSubsetsOfFinite
<1>2. PICK n \in T : \A m \in T : ~ (<<m, n>> \in R)
  <2> HIDE DEF R
  <2> QED
    BY <1>1, WFMin
<1> QED
  BY <1>2 DEF StrictSubsetOrdering

\* Among finitely many integers there is a largest.
LEMMA LargestMember ==
  ASSUME NEW n \in Nat, NEW S, S \subseteq 1..n, S # {}
  PROVE  Max(S) \in S
<1> DEFINE T == {n - i : i \in S}
<1>1. PICK k \in T : \A m \in T : k <= m
  <2>1. \A i \in S : n - i \in Nat
    OBVIOUS
  <2>2. T \subseteq Nat /\ T # {}
    BY <2>1
  <2> HIDE DEF T
  <2> QED
    BY <2>2, LeastNumber
<1>2. PICK i \in S : k = n - i
  BY <1>1
<1>3. \A j \in S : n - i <= n - j /\ j \in Int
  BY <1>1, <1>2
<1>4. \A j \in S : i >= j
  BY <1>3
<1> QED
  BY <1>4 DEF Max

\* There are n numbers from 1 to n.
LEMMA CountTo ==
  ASSUME NEW n \in Nat
  PROVE  IsFiniteSet(1..n) /\ Cardinality(1..n) = n
<1>1. /\ IsFiniteSet(1..n)
      /\ Cardinality(1..n) = IF 1 > n THEN 0 ELSE n - 1 + 1
  BY FS_Interval
<1>2. (IF 1 > n THEN 0 ELSE n - 1 + 1) = n
  OBVIOUS
<1> QED
  BY <1>1, <1>2

-----------------------------------------------------------------------------
(* Folds *)

\* F folds every subset of S: it takes the member pick chooses away, folds the
\* rest, and combines both with step.
IsFold(F, S, base, pick, step) ==
  F = [s \in SUBSET S |->
         IF s = {} THEN base ELSE step[<<pick[s], F[s \ {pick[s]}]>>]]

\* A fold over a finite set exists, and has values of the type of its step.
LEMMA FoldExists ==
  ASSUME NEW S, IsFiniteSet(S), NEW V, NEW base \in V,
         NEW pick, \A s \in SUBSET S : s # {} => pick[s] \in s,
         NEW step \in [S \X V -> V]
  PROVE  \E F \in [SUBSET S -> V] : IsFold(F, S, base, pick, step)
<1> DEFINE D(n) == {s \in SUBSET S : Cardinality(s) <= n}
           Step(F, s) == IF s = {} THEN base ELSE step[<<pick[s], F[s \ {pick[s]}]>>]
           Good(n) == \E F \in [D(n) -> V] : F = [s \in D(n) |-> Step(F, s)]
           T == {n \in Nat : Good(n)}
<1>1. \A s \in SUBSET S : Cardinality(s) \in Nat /\ Cardinality(s) <= Cardinality(S)
  BY FS_Subset, FS_CardinalityType
<1>2. \A s \in SUBSET S : s # {} => Cardinality(s \ {pick[s]}) = Cardinality(s) - 1
  BY FS_Subset, FS_RemoveElement
<1>3. Good(0)
  <2>1. \A s \in D(0) : s = {}
    BY <1>1, FS_EmptySet, FS_Subset
  <2> DEFINE F == [s \in D(0) |-> base]
  <2>2. F \in [D(0) -> V] /\ F = [s \in D(0) |-> Step(F, s)]
    BY <2>1
  <2> HIDE DEF F
  <2> QED
    BY <2>2
<1>4. ASSUME NEW n \in Nat, Good(n)
      PROVE  Good(n + 1)
  <2>1. PICK F \in [D(n) -> V] : F = [s \in D(n) |-> Step(F, s)]
    BY <1>4
  <2> DEFINE G == [s \in D(n + 1) |-> Step(F, s)]
  <2>2. ASSUME NEW s \in D(n + 1), s # {}
        PROVE  s \ {pick[s]} \in D(n)
    BY <1>1, <1>2, <2>2
  <2>3. G \in [D(n + 1) -> V]
    <3>1. ASSUME NEW s \in D(n + 1) PROVE Step(F, s) \in V
      <4>1. CASE s = {}
        BY <4>1
      <4>2. CASE s # {}
        <5>1. F[s \ {pick[s]}] \in V /\ pick[s] \in S
          BY <2>1, <2>2, <4>2
        <5> QED
          BY <4>2, <5>1
      <4> QED
        BY <4>1, <4>2
    <3> QED
      BY <3>1
  <2>4. ASSUME NEW s \in D(n)
        PROVE  s \in D(n + 1) /\ G[s] = F[s]
    <3>1. s \in D(n + 1)
      BY <1>1
    <3>2. F[s] = Step(F, s)
      BY <2>1
    <3> QED
      BY <3>1, <3>2
  <2>5. ASSUME NEW s \in D(n + 1)
        PROVE  Step(G, s) = Step(F, s)
    <3>1. CASE s = {}
      BY <3>1
    <3>2. CASE s # {}
      BY <2>2, <2>4, <3>2
    <3> QED
      BY <3>1, <3>2
  <2>6. G = [s \in D(n + 1) |-> Step(G, s)]
    BY <2>5
  <2> HIDE DEF G
  <2> QED
    BY <2>3, <2>6
<1>5. D(Cardinality(S)) = SUBSET S /\ Cardinality(S) \in Nat
  BY <1>1
<1>6. Good(Cardinality(S))
  <2>1. 0 \in T /\ \A n \in Nat : n \in T => n + 1 \in T
    <3> HIDE DEF Good
    <3> QED
      BY <1>3, <1>4
  <2>2. Nat \subseteq T
    <3> HIDE DEF T
    <3> QED
      BY <2>1, NaturalsBySteps
  <2> HIDE DEF Good
  <2> QED
    BY <1>5, <2>2
<1> QED
  <2>1. PICK F \in [D(Cardinality(S)) -> V] : F = [s \in D(Cardinality(S)) |-> Step(F, s)]
    BY <1>6
  <2>2. F \in [SUBSET S -> V] /\ F = [s \in SUBSET S |-> Step(F, s)]
    <3> HIDE DEF D, Step
    <3> QED
      BY <1>5, <2>1
  <2> QED
    BY <2>2 DEF IsFold

-----------------------------------------------------------------------------
(* Sums *)

AnyOf(s) == CHOOSE x \in s : TRUE

\* F sums the weights w over every subset of the finite set S.
IsSum(F, w, S) ==
  /\ IsFiniteSet(S) /\ w \in [S -> Int]
  /\ F = [s \in SUBSET S |-> IF s = {} THEN 0 ELSE w[AnyOf(s)] + F[s \ {AnyOf(s)}]]

\* The sums over the subsets of a finite set exist.
LEMMA SumExists ==
  ASSUME NEW S, IsFiniteSet(S), NEW w \in [S -> Int]
  PROVE  \E F : IsSum(F, w, S)
<1> DEFINE pick == [s \in SUBSET S |-> AnyOf(s)]
           step == [p \in S \X Int |-> w[p[1]] + p[2]]
<1>1. \A s \in SUBSET S : s # {} => AnyOf(s) \in s
  BY DEF AnyOf
<1>2. step \in [S \X Int -> Int]
  OBVIOUS
<1>3. PICK F \in [SUBSET S -> Int] : IsFold(F, S, 0, pick, step)
  <2>1. \A s \in SUBSET S : s # {} => pick[s] \in s
    BY <1>1
  <2>2. 0 \in Int
    OBVIOUS
  <2> HIDE DEF pick, step
  <2> QED
    BY <1>2, <2>1, <2>2, FoldExists
<1>4. ASSUME NEW s \in SUBSET S, s # {}
      PROVE  step[<<pick[s], F[s \ {pick[s]}]>>] = w[AnyOf(s)] + F[s \ {AnyOf(s)}]
  <2>1. pick[s] \in S /\ F[s \ {pick[s]}] \in Int
    BY <1>1, <1>4
  <2> QED
    BY <2>1
<1>5. F = [s \in SUBSET S |-> IF s = {} THEN 0 ELSE w[AnyOf(s)] + F[s \ {AnyOf(s)}]]
  <2> HIDE DEF pick, step
  <2> QED
    BY <1>3, <1>4 DEF IsFold
<1> QED
  BY <1>5 DEF IsSum

\* They are integers, and natural numbers for natural weights.
LEMMA SumType ==
  ASSUME NEW S, NEW V \in {Int, Nat}, NEW w \in [S -> V], NEW F, IsSum(F, w, S)
  PROVE  F \in [SUBSET S -> V]
<1> DEFINE Bad == {s \in SUBSET S : F[s] \notin V}
<1>0. IsFiniteSet(S) /\ w \in [S -> Int]
  BY DEF IsSum
<1> SUFFICES ASSUME Bad # {} PROVE FALSE
  BY DEF IsSum
<1>1. PICK s \in Bad : \A t \in Bad : t \subseteq s => t = s
  <2>1. Bad \subseteq SUBSET S
    OBVIOUS
  <2> HIDE DEF Bad
  <2> QED
    BY <1>0, <2>1, LeastSet
<1>2. CASE s = {}
  BY <1>1, <1>2 DEF IsSum
<1>3. CASE s # {}
  <2> DEFINE x == AnyOf(s)
  <2>1. x \in s
    BY <1>3 DEF AnyOf
  <2>2. F[s \ {x}] \in V
    BY <1>1, <2>1
  <2>3. F[s] = w[x] + F[s \ {x}]
    BY <1>3 DEF IsSum
  <2> QED
    BY <1>1, <2>1, <2>2, <2>3
<1> QED
  BY <1>2, <1>3

\* A sum does not depend on the member that is taken away first.
LEMMA SumRemove ==
  ASSUME NEW S, NEW w, NEW F, IsSum(F, w, S)
  PROVE  \A s \in SUBSET S : \A x \in s : F[s] = w[x] + F[s \ {x}]
<1> DEFINE Fits(s) == \A x \in s : F[s] = w[x] + F[s \ {x}]
           Bad == {s \in SUBSET S : ~Fits(s)}
<1>0. IsFiniteSet(S) /\ w \in [S -> Int]
  BY DEF IsSum
<1> SUFFICES ASSUME Bad # {} PROVE FALSE
  OBVIOUS
<1>1. PICK s \in Bad : \A t \in Bad : t \subseteq s => t = s
  <2>1. Bad \subseteq SUBSET S
    OBVIOUS
  <2> HIDE DEF Bad
  <2> QED
    BY <1>0, <2>1, LeastSet
<1>2. PICK x \in s : F[s] # w[x] + F[s \ {x}]
  BY <1>1
<1> DEFINE y == AnyOf(s)
<1>3. y \in s
  BY <1>2 DEF AnyOf
<1>4. F[s] = w[y] + F[s \ {y}]
  BY <1>2 DEF IsSum
<1>5. x # y
  BY <1>2, <1>4
<1>6. Fits(s \ {x}) /\ Fits(s \ {y})
  <2>1. s \ {x} \notin Bad /\ s \ {y} \notin Bad
    <3> HIDE DEF Fits
    <3> QED
      BY <1>1, <1>2, <1>3
  <2> QED
    BY <2>1
<1>7. F[s \ {x}] = w[y] + F[(s \ {x}) \ {y}] /\ F[s \ {y}] = w[x] + F[(s \ {y}) \ {x}]
  BY <1>2, <1>3, <1>5, <1>6
<1>8. (s \ {x}) \ {y} = (s \ {y}) \ {x}
  OBVIOUS
<1>9. w[x] \in Int /\ w[y] \in Int /\ F[(s \ {x}) \ {y}] \in Int
  <2>1. F \in [SUBSET S -> Int]
    <3>1. Int \in {Int, Nat}
      OBVIOUS
    <3> QED
      BY <1>0, <3>1, SumType
  <2> QED
    BY <1>0, <1>2, <1>3, <2>1
<1>10. \A i, j, k \in Int : i + (j + k) = j + (i + k)
  OBVIOUS
<1>11. F[s] = w[y] + (w[x] + F[(s \ {x}) \ {y}])
  BY <1>4, <1>7, <1>8
<1>12. F[s] = w[x] + (w[y] + F[(s \ {x}) \ {y}])
  BY <1>9, <1>10, <1>11
<1> QED
  BY <1>2, <1>7, <1>12

\* g gives each x in S, of weight w, another name in T, of the same weight v.
Renames(g, w, S, v, T) ==
  /\ g \in [S -> T] /\ T = {g[x] : x \in S}
  /\ \A x, y \in S : g[x] = g[y] => x = y
  /\ \A x \in S : w[x] = v[g[x]]

\* A sum can be taken over other names for what is summed.
LEMMA SumRenamed ==
  ASSUME NEW S, NEW T, NEW w, NEW v, NEW g, NEW F, NEW G,
         IsSum(F, w, S), IsSum(G, v, T), Renames(g, w, S, v, T)
  PROVE  F[S] = G[T]
<1> DEFINE Image(s) == {g[x] : x \in s}
           Bad == {s \in SUBSET S : F[s] # G[Image(s)]}
<1> USE DEF Renames
<1> SUFFICES ASSUME Bad # {} PROVE FALSE
  OBVIOUS
<1>0. IsFiniteSet(S) /\ w \in [S -> Int] /\ v \in [T -> Int]
  BY DEF IsSum
<1>1. PICK s \in Bad : \A t \in Bad : t \subseteq s => t = s
  <2>1. Bad \subseteq SUBSET S
    OBVIOUS
  <2> HIDE DEF Bad
  <2> QED
    BY <1>0, <2>1, LeastSet
<1>2. CASE s = {}
  BY <1>1, <1>2 DEF IsSum
<1>3. CASE s # {}
  <2>1. PICK x \in s : TRUE
    BY <1>3
  <2>2. Image(s) \subseteq T /\ g[x] \in Image(s) /\ Image(s \ {x}) = Image(s) \ {g[x]}
    OBVIOUS
  <2>3. F[s \ {x}] = G[Image(s \ {x})]
    <3>1. s \ {x} \in SUBSET S /\ s \ {x} \subseteq s /\ s \ {x} # s
      OBVIOUS
    <3> HIDE DEF Image
    <3> QED
      BY <1>1, <3>1
  <2>4. F[s] = w[x] + F[s \ {x}]
    BY SumRemove
  <2>5. G[Image(s)] = v[g[x]] + G[Image(s) \ {g[x]}]
    <3> HIDE DEF Image
    <3> QED
      BY <2>2, SumRemove
  <2> QED
    BY <1>1, <2>2, <2>3, <2>4, <2>5
<1> QED
  BY <1>2, <1>3

\* The sum over a function is what these sums come to.
LEMMA SumFunctionValue ==
  ASSUME NEW S, IsFiniteSet(S), NEW w \in [S -> Int]
  PROVE  \E F : IsSum(F, w, S) /\ SumFunction(w) = F[S]
<1> DEFINE Sums(F) == F = [s \in SUBSET DOMAIN w |->
                             IF s = {} THEN 0
                             ELSE w[CHOOSE x \in s : TRUE] + F[s \ {CHOOSE x \in s : TRUE}]]
           G == CHOOSE F : Sums(F)
<1>1. DOMAIN w = S
  OBVIOUS
<1>2. \A F : Sums(F) <=> IsSum(F, w, S)
  BY <1>1 DEF IsSum, AnyOf
<1>3. SumFunction(w) = G[S]
  BY <1>1 DEF SumFunction, SumFunctionOnSet, FoldFunctionOnSet, MapThenFoldSet
<1>4. Sums(G)
  <2> HIDE DEF Sums
  <2>1. \E F : Sums(F)
    BY <1>2, SumExists
  <2> QED
    BY <2>1
<1> QED
  <2> HIDE DEF Sums, G
  <2> QED
    BY <1>2, <1>3, <1>4

-----------------------------------------------------------------------------
(* Loops over a sequence *)

\* A loop that appends to its result those members of a sequence that are wanted.
Wanted(s, W) == FoldLeft(LAMBDA kept, x : IF x \in W THEN Append(kept, x) ELSE kept, <<>>, s)

\* It comes to a sequence of members that are wanted.
LEMMA WantedMembers ==
  ASSUME NEW X, NEW s \in Seq(X), NEW W
  PROVE  Wanted(s, W) \in Seq({s[i] : i \in DOMAIN s} \cap W)
<1> DEFINE S == DOMAIN s
           V == Seq({s[i] : i \in S} \cap W)
           pick == [I \in SUBSET S |-> Max(I)]
           take == [p \in S \X V |-> IF s[p[1]] \in W THEN Append(p[2], s[p[1]]) ELSE p[2]]
           Keeps(F) == F = [I \in SUBSET S |->
                              IF I = {} THEN <<>>
                              ELSE IF s[Max(I)] \in W
                                   THEN Append(F[I \ {Max(I)}], s[Max(I)])
                                   ELSE F[I \ {Max(I)}]]
           G == CHOOSE F : Keeps(F)
<1>1. S = 1..Len(s) /\ Len(s) \in Nat /\ IsFiniteSet(S)
  BY FS_Interval
<1>2. \A I \in SUBSET S : I # {} => Max(I) \in I
  BY <1>1, LargestMember
<1>3. <<>> \in V /\ \A v \in V, i \in S : s[i] \in W => Append(v, s[i]) \in V
  OBVIOUS
<1>4. Wanted(s, W) = G[S]
  BY DEF Wanted, FoldLeft, MapThenFoldSet
<1>5. \E F : Keeps(F)
  <2>1. PICK F \in [SUBSET S -> V] : IsFold(F, S, <<>>, pick, take)
    <3>1. \A I \in SUBSET S : I # {} => pick[I] \in I
      BY <1>2
    <3>2. take \in [S \X V -> V]
      BY <1>3
    <3> HIDE DEF S, V, pick, take
    <3> QED
      BY <1>1, <1>3, <3>1, <3>2, FoldExists
  <2>2. ASSUME NEW I \in SUBSET S, I # {}
        PROVE  take[<<pick[I], F[I \ {pick[I]}]>>] =
                 IF s[Max(I)] \in W THEN Append(F[I \ {Max(I)}], s[Max(I)])
                 ELSE F[I \ {Max(I)}]
    <3>1. pick[I] = Max(I) /\ Max(I) \in S /\ F[I \ {Max(I)}] \in V
      BY <1>2, <2>2
    <3> HIDE DEF S, V, pick
    <3> QED
      BY <3>1
  <2>3. Keeps(F)
    <3> HIDE DEF S, V, pick, take
    <3> QED
      BY <2>1, <2>2 DEF IsFold
  <2> QED
    BY <2>3
<1>6. Keeps(G)
  <2> HIDE DEF Keeps
  <2> QED
    BY <1>5
<1>7. \A I \in SUBSET S : G[I] \in V
  <2> DEFINE Bad == {I \in SUBSET S : G[I] \notin V}
  <2> SUFFICES ASSUME Bad # {} PROVE FALSE
    OBVIOUS
  <2>1. PICK I \in Bad : \A J \in Bad : J \subseteq I => J = I
    <3>1. Bad \subseteq SUBSET S /\ IsFiniteSet(S)
      BY <1>1
    <3> HIDE DEF Bad, S, G
    <3> QED
      BY <3>1, LeastSet
  <2>2. CASE I = {}
    <3> HIDE DEF G, V, S
    <3> QED
      BY <1>3, <1>6, <2>1, <2>2
  <2>3. CASE I # {}
    <3>1. Max(I) \in I /\ G[I \ {Max(I)}] \in V
      <4> HIDE DEF G, V, S
      <4> QED
        BY <1>2, <2>1, <2>3
    <3>2. G[I] = IF s[Max(I)] \in W THEN Append(G[I \ {Max(I)}], s[Max(I)])
                 ELSE G[I \ {Max(I)}]
      <4> HIDE DEF G, V, S
      <4> QED
        BY <1>6, <2>1, <2>3
    <3> HIDE DEF G, V, S
    <3> QED
      BY <1>3, <2>1, <3>1, <3>2
  <2> QED
    BY <2>2, <2>3
<1> QED
  BY <1>4, <1>7
=============================================================================
