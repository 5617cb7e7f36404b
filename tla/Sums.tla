-------------------------------- MODULE Sums --------------------------------
(***************************************************************************)
(* What SumFunction of the community modules computes: the number of units *)
(* that the numbers of a function stand for.  The sum is defined by        *)
(* recursion over the subsets of the domain, a count is not, so that the   *)
(* facts about cardinalities carry over to sums.                           *)
(***************************************************************************)
EXTENDS FiniteSetTheorems, FunctionTheorems, TLAPS

\* q[i] units of each i in S.
Units(q, S) == UNION {{i} \X (1 .. q[i]) : i \in S}

LEMMA InUnits ==
    ASSUME NEW q, NEW S
    PROVE  \A u : u \in Units(q, S) <=> \E i \in S : \E k \in 1 .. q[i] : u = <<i, k>>
BY DEF Units

\* {x} stands for n units.
LEMMA UnitsOfOne ==
    ASSUME NEW q, NEW x, q[x] \in Nat
    PROVE  IsFiniteSet(Units(q, {x})) /\ Cardinality(Units(q, {x})) = q[x]
<1> DEFINE f == [k \in 1 .. q[x] |-> <<x, k>>]
<1>1. f \in Bijection(1 .. q[x], Units(q, {x}))
  <2>1. f \in [1 .. q[x] -> Units(q, {x})]
    BY InUnits
  <2>2. \A k, l \in 1 .. q[x] : f[k] = f[l] => k = l
    OBVIOUS
  <2>3. \A u \in Units(q, {x}) : \E k \in 1 .. q[x] : f[k] = u
    BY InUnits
  <2> HIDE DEF f
  <2> QED
    BY <2>1, <2>2, <2>3, Fun_IsBij
<1>2. ExistsBijection(1 .. q[x], Units(q, {x}))
  BY <1>1 DEF ExistsBijection
<1>3. IsFiniteSet(1 .. q[x]) /\ Cardinality(1 .. q[x]) = q[x]
  <2>1. 1 \in Int /\ q[x] \in Int
    OBVIOUS
  <2>2. /\ IsFiniteSet(1 .. q[x])
        /\ Cardinality(1 .. q[x]) = IF 1 > q[x] THEN 0 ELSE q[x] - 1 + 1
    BY <2>1, FS_Interval, Zenon
  <2> QED
    BY <2>2, SMT
<1> QED
  BY <1>2, <1>3, FS_Bijection

\* One element more has its own units.
LEMMA UnitsAdd ==
    ASSUME NEW q, NEW S, NEW x \in S, q[x] \in Nat, IsFiniteSet(Units(q, S))
    PROVE  Cardinality(Units(q, S)) = q[x] + Cardinality(Units(q, S \ {x}))
<1> DEFINE A == Units(q, S \ {x})
           B == Units(q, {x})
<1>1. Units(q, S) = A \cup B /\ A \cap B = {}
  BY InUnits
<1>2. IsFiniteSet(A)
  BY <1>1, FS_Subset
<1>3. IsFiniteSet(B) /\ Cardinality(B) = q[x]
  BY UnitsOfOne
<1> HIDE DEF A, B
<1>4. Cardinality(A \cup B) = Cardinality(A) + Cardinality(B) - Cardinality(A \cap B)
  BY <1>2, <1>3, FS_Union
<1>5. Cardinality(A \cap B) = 0 /\ Cardinality(A) \in Nat
  BY <1>1, <1>2, FS_EmptySet, FS_CardinalityType
<1> QED
  BY <1>1, <1>3, <1>4, <1>5 DEF A, B

\* Finitely many numbers have finitely many units.
LEMMA UnitsFinite ==
    ASSUME NEW q, NEW S, IsFiniteSet(S), \A i \in S : q[i] \in Nat
    PROVE  IsFiniteSet(Units(q, S))
<1> DEFINE Each == {{i} \X (1 .. q[i]) : i \in S}
           f == [i \in S |-> {i} \X (1 .. q[i])]
<1>1. f \in Surjection(S, Each)
  <2>1. f \in [S -> Each] /\ \A u \in Each : \E i \in S : f[i] = u
    OBVIOUS
  <2> HIDE DEF f, Each
  <2> QED
    BY <2>1, Fun_IsSurj
<1>2. IsFiniteSet(Each)
  <2> HIDE DEF f, Each
  <2> QED
    BY <1>1, FS_Surjection
<1>3. ASSUME NEW T \in Each
      PROVE  IsFiniteSet(T)
  <2>1. PICK i \in S : T = {i} \X (1 .. q[i])
    OBVIOUS
  <2>2. T = Units(q, {i})
    BY <2>1, InUnits
  <2> QED
    BY <2>2, UnitsOfOne
<1>4. Units(q, S) = UNION Each
  BY DEF Units
<1> HIDE DEF Each
<1> QED
  BY <1>2, <1>3, <1>4, FS_UNION

-----------------------------------------------------------------------------
(* The recursion.                                                           *)

Some(s) == CHOOSE x \in s : TRUE

\* F adds up q over each subset of S.
AddsUp(F, q, S) ==
    F = [s \in SUBSET S |-> IF s = {} THEN 0 ELSE q[Some(s)] + F[s \ {Some(s)}]]

LEMMA SumIsRecursive ==
    ASSUME NEW q
    PROVE  SumFunction(q) = (CHOOSE F : AddsUp(F, q, DOMAIN q))[DOMAIN q]
BY DEF SumFunction, SumFunctionOnSet, FoldFunctionOnSet, MapThenFoldSet, AddsUp, Some

\* The recursion has one solution.
LEMMA OneSum ==
    ASSUME NEW q, NEW S, IsFiniteSet(S), NEW F, NEW G, AddsUp(F, q, S), AddsUp(G, q, S)
    PROVE  F[S] = G[S]
<1> DEFINE Differ == {s \in SUBSET S : F[s] # G[s]}
<1>1. ASSUME Differ # {}
      PROVE  FALSE
  <2>1. IsWellFoundedOn(StrictSubsetOrdering(S), SUBSET S)
    BY FS_StrictSubsetOrderingWellFounded, FS_FiniteSubsetsOfFinite
  <2>2. PICK s \in Differ : \A t \in Differ : <<t, s>> \notin StrictSubsetOrdering(S)
    BY <1>1, <2>1, WFMin, Zenon
  <2>3. \A t \in SUBSET S : t \subseteq s /\ t # s => F[t] = G[t]
    BY <2>2 DEF StrictSubsetOrdering
  <2>4. CASE s = {}
    BY <2>2, <2>4 DEF AddsUp
  <2>5. CASE s # {}
    <3>1. Some(s) \in s
      BY <2>5 DEF Some
    <3>2. F[s \ {Some(s)}] = G[s \ {Some(s)}]
      BY <2>2, <2>3, <3>1
    <3>3. /\ F[s] = q[Some(s)] + F[s \ {Some(s)}]
          /\ G[s] = q[Some(s)] + G[s \ {Some(s)}]
      BY <2>2, <2>5 DEF AddsUp
    <3> QED
      BY <2>2, <3>2, <3>3
  <2> QED
    BY <2>4, <2>5
<1> QED
  BY <1>1

\* A sum of natural numbers is the number of units they stand for.
THEOREM SumIsCount ==
    ASSUME NEW q, IsFiniteSet(DOMAIN q), \A i \in DOMAIN q : q[i] \in Nat
    PROVE  SumFunction(q) = Cardinality(Units(q, DOMAIN q))
<1> DEFINE S == DOMAIN q
           G == [s \in SUBSET S |-> Cardinality(Units(q, s))]
<1>1. ASSUME NEW s \in SUBSET S
      PROVE  Cardinality(Units(q, s)) =
               IF s = {} THEN 0 ELSE q[Some(s)] + Cardinality(Units(q, s \ {Some(s)}))
  <2>1. IsFiniteSet(Units(q, s))
    <3>1. IsFiniteSet(s)
      BY FS_Subset
    <3> QED
      BY <3>1, UnitsFinite
  <2>2. CASE s = {}
    <3>1. Units(q, s) = {}
      BY <2>2, InUnits
    <3> QED
      BY <2>2, <3>1, FS_EmptySet
  <2>3. CASE s # {}
    <3>1. Some(s) \in s
      BY <2>3 DEF Some
    <3> QED
      BY <2>1, <2>3, <3>1, UnitsAdd
  <2> QED
    BY <2>2, <2>3
<1>2. AddsUp(G, q, S)
  <2>1. \A s \in SUBSET S : s \ {Some(s)} \in SUBSET S
    OBVIOUS
  <2>2. \A s \in SUBSET S : G[s] =
           IF s = {} THEN 0 ELSE q[Some(s)] + G[s \ {Some(s)}]
    BY <1>1, <2>1
  <2> QED
    BY <2>2 DEF AddsUp
<1>3. AddsUp(CHOOSE F : AddsUp(F, q, S), q, S)
  BY <1>2
<1>4. G[S] = (CHOOSE F : AddsUp(F, q, S))[S]
  BY <1>2, <1>3, OneSum
<1> QED
  BY <1>4, SumIsRecursive

\* A sum of no numbers and of one.
LEMMA SumOfNone == ASSUME NEW q, DOMAIN q = {} PROVE SumFunction(q) = 0
<1>1. IsFiniteSet(DOMAIN q) /\ Units(q, DOMAIN q) = {}
  BY InUnits, FS_EmptySet
<1> QED
  BY <1>1, SumIsCount, FS_EmptySet

LEMMA SumOfOne ==
    ASSUME NEW q, NEW x, DOMAIN q = {x}, q[x] \in Nat
    PROVE  SumFunction(q) = q[x]
<1>1. IsFiniteSet(DOMAIN q)
  BY FS_Singleton
<1> QED
  BY <1>1, SumIsCount, UnitsOfOne
=============================================================================
