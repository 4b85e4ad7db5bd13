----------------------------- MODULE FiniteSums -----------------------------
(***************************************************************************)
(* Lemmas about sums over finite sets, which the estimates are: a sum is   *)
(* an integer, may be taken in any order, and lies between the sum of the  *)
(* negative and that of the positive terms.  Also the least and the        *)
(* greatest of finitely many values.                                       *)
(*                                                                         *)
(* Induction over finite sets and over naturals is by a least              *)
(* counterexample (WFMin).                                                 *)
(***************************************************************************)
EXTENDS Integers, FiniteSets, FiniteSetsExt, FiniteSetTheorems, WellFoundedInduction, TLAPS

-----------------------------------------------------------------------------
(* Induction *)

\* A least element of a nonempty set of naturals
LEMMA LeastNatural ==
  ASSUME NEW T \in SUBSET Nat, T # {}
  PROVE  \E x \in T : \A y \in T : x <= y
<1> DEFINE R == OpToRel(<, Nat)
<1>1. IsWellFoundedOn(R, Nat)
  BY NatLessThanWellFounded
<1>2. \A x, y \in Nat : x < y => <<x, y>> \in R
  BY DEF OpToRel
<1> HIDE DEF R
<1>3. PICK x \in T : \A y \in T : ~ (<<y, x>> \in R)
  BY <1>1, WFMin
<1>4. \A y \in T : ~ (y < x)
  BY <1>2, <1>3
<1>5. x \in Nat /\ \A y \in T : y \in Nat /\ x <= y
  BY <1>4
<1>6. QED BY <1>5

\* The number of elements of a finite set without one of them.
LEMMA OneLess ==
  ASSUME NEW s, IsFiniteSet(s), NEW x \in s
  PROVE  /\ IsFiniteSet(s \ {x})
         /\ Cardinality(s) \in Nat /\ Cardinality(s \ {x}) \in Nat
         /\ Cardinality(s \ {x}) < Cardinality(s)
<1>1. IsFiniteSet(s \ {x}) /\ Cardinality(s \ {x}) = Cardinality(s) - 1
  BY FS_RemoveElement
<1>2. Cardinality(s) \in Nat /\ Cardinality(s \ {x}) \in Nat
  BY <1>1, FS_CardinalityType
<1>3. QED BY <1>1, <1>2

\* A family of subsets that holds s as soon as it holds s without any one of
\* its elements holds all subsets.
LEMMA SubsetInduction ==
  ASSUME NEW S, IsFiniteSet(S), NEW G,
         \A s \in SUBSET S : (\A x \in s : s \ {x} \in G) => s \in G
  PROVE  \A s \in SUBSET S : s \in G
<1> DEFINE Bad == {k \in Nat : \E s \in SUBSET S : Cardinality(s) = k /\ s \notin G}
<1>1. ASSUME Bad # {} PROVE FALSE
  <2>1. PICK k \in Bad : \A i \in Bad : k <= i
    BY <1>1, LeastNatural
  <2>2. PICK s \in SUBSET S : Cardinality(s) = k /\ s \notin G
    BY <2>1
  <2>3. PICK x \in s : s \ {x} \notin G
    BY <2>2
  <2>4. Cardinality(s \ {x}) \in Nat /\ Cardinality(s \ {x}) < k /\ s \ {x} \in SUBSET S
    <3>1. IsFiniteSet(s) /\ s \ {x} \in SUBSET S
      BY FS_Subset
    <3>2. QED BY <2>2, <3>1, OneLess
  <2>5. Cardinality(s \ {x}) \in Bad
    BY <2>3, <2>4
  <2>6. k \in Nat /\ k <= Cardinality(s \ {x})
    BY <2>1, <2>5
  <2> HIDE DEF Bad
  <2>7. QED BY <2>4, <2>6
<1>2. \A s \in SUBSET S : Cardinality(s) \in Nat
  BY FS_Subset, FS_CardinalityType
<1>3. QED BY <1>1, <1>2

\* What holds of 0 and is passed on holds up to n.
LEMMA IntervalInduction ==
  ASSUME NEW n \in Nat, NEW G, 0 \in G,
         \A i \in 1 .. n : i - 1 \in G => i \in G
  PROVE  \A i \in 0 .. n : i \in G
<1> DEFINE Bad == {i \in 0 .. n : i \notin G}
<1>1. ASSUME Bad # {} PROVE FALSE
  <2>1. Bad \in SUBSET Nat
    OBVIOUS
  <2>2. PICK i \in Bad : \A j \in Bad : i <= j
    BY <1>1, <2>1, LeastNatural
  <2>3. i \in 0 .. n /\ i \notin G /\ i # 0
    BY <2>2
  <2>4. i \in 1 .. n /\ i - 1 \in 0 .. n
    BY <2>3
  <2>5. i - 1 \in Bad
    BY <2>3, <2>4
  <2>6. i <= i - 1 /\ i \in Nat
    BY <2>2, <2>3, <2>5
  <2> HIDE DEF Bad
  <2>7. QED BY <2>6
<1>2. QED BY <1>1

-----------------------------------------------------------------------------
(* Sums *)

Summation(f, S, g) ==
  g = [s \in SUBSET S |-> IF s = {} THEN 0
                          ELSE f[CHOOSE x \in s : TRUE] + g[s \ {CHOOSE x \in s : TRUE}]]

\* A sum over the subsets of at most k elements.
Partial(f, S, k, g) ==
  \A s \in SUBSET S : Cardinality(s) <= k =>
    g[s] = IF s = {} THEN 0
           ELSE f[CHOOSE x \in s : TRUE] + g[s \ {CHOOSE x \in s : TRUE}]

LEMMA SummationExists ==
  ASSUME NEW f, NEW S, IsFiniteSet(S)
  PROVE  \E g : Summation(f, S, g)
<1> DEFINE Sized(k, g) == g = [s \in SUBSET S |-> g[s]] /\ Partial(f, S, k, g)
           Missing     == {k \in Nat : ~ \E g : Sized(k, g)}
           x(s)        == CHOOSE e \in s : TRUE
<1>1. ASSUME Missing # {} PROVE FALSE
  <2>1. PICK k \in Missing : \A i \in Missing : k <= i
    BY <1>1, LeastNatural
  <2>2. k # 0
    <3> DEFINE g == [s \in SUBSET S |-> 0]
    <3>1. Sized(0, g)
      <4>1. \A s \in SUBSET S : Cardinality(s) <= 0 => s = {}
        BY FS_Subset, FS_EmptySet, FS_CardinalityType
      <4>2. QED BY <4>1 DEF Partial
    <3> HIDE DEF g
    <3>2. QED BY <2>1, <3>1
  <2>3. k - 1 \in Nat /\ k - 1 \notin Missing
    <3>1. k \in Nat /\ k - 1 \in Nat /\ ~ (k <= k - 1)
      BY <2>1, <2>2
    <3> HIDE DEF Missing
    <3>2. QED BY <2>1, <3>1
  <2>4. PICK g : Sized(k - 1, g)
    BY <2>3
  <2> DEFINE h == [s \in SUBSET S |-> IF Cardinality(s) <= k - 1 THEN g[s] ELSE f[x(s)] + g[s \ {x(s)}]]
  <2>5. ASSUME NEW s \in SUBSET S, Cardinality(s) <= k
        PROVE  h[s] = IF s = {} THEN 0 ELSE f[x(s)] + h[s \ {x(s)}]
    <3>1. IsFiniteSet(s) /\ Cardinality(s) \in Nat
      BY FS_Subset, FS_CardinalityType
    <3>2. CASE s = {}
      <4>1. Cardinality(s) <= k - 1
        BY <2>3, <3>2, FS_EmptySet
      <4>2. h[s] = g[s]
        BY <4>1
      <4>3. g[s] = 0
        BY <2>4, <3>2, <4>1 DEF Partial
      <4>4. QED BY <3>2, <4>2, <4>3
    <3>3. CASE s # {}
      <4> DEFINE t == s \ {x(s)}
      <4>1. x(s) \in s
        BY <3>3
      <4>2. Cardinality(t) < Cardinality(s) /\ Cardinality(t) \in Nat
        BY <3>1, <4>1, OneLess
      <4>3. Cardinality(t) <= k - 1 /\ t \in SUBSET S
        BY <2>1, <2>5, <3>1, <4>2
      <4>4. h[t] = g[t]
        BY <4>3
      <4>5. CASE Cardinality(s) <= k - 1
        <5>1. g[s] = f[x(s)] + g[t]
          BY <2>4, <3>3, <4>5 DEF Partial
        <5>2. h[s] = g[s]
          BY <4>5
        <5>3. QED BY <3>3, <4>4, <5>1, <5>2
      <4>6. CASE ~ (Cardinality(s) <= k - 1)
        <5>1. h[s] = f[x(s)] + g[t]
          BY <4>6
        <5>2. QED BY <3>3, <4>4, <5>1
      <4>7. QED BY <4>5, <4>6
    <3>4. QED BY <3>2, <3>3
  <2>6. h = [s \in SUBSET S |-> h[s]]
    OBVIOUS
  <2> HIDE DEF h
  <2>7. Partial(f, S, k, h)
    BY <2>5 DEF Partial
  <2>8. QED BY <2>1, <2>6, <2>7
<1>2. Cardinality(S) \in Nat
  BY FS_CardinalityType
<1>3. PICK g : Sized(Cardinality(S), g)
  BY <1>1, <1>2
<1>4. \A s \in SUBSET S : Cardinality(s) <= Cardinality(S)
  BY FS_Subset
<1>5. Summation(f, S, g)
  <2>1. g = [s \in SUBSET S |-> g[s]]
    BY <1>3
  <2>2. \A s \in SUBSET S : g[s] = IF s = {} THEN 0 ELSE f[x(s)] + g[s \ {x(s)}]
    BY <1>3, <1>4 DEF Partial
  <2>3. QED BY <2>1, <2>2 DEF Summation
<1>6. QED BY <1>5

\* The sum of a finite set of integers is an integer.
LEMMA SummationInt ==
  ASSUME NEW S, IsFiniteSet(S), NEW f, \A j \in S : f[j] \in Int,
         NEW g, Summation(f, S, g)
  PROVE  \A s \in SUBSET S : g[s] \in Int
<1> DEFINE G    == {s \in SUBSET S : g[s] \in Int}
           x(s) == CHOOSE e \in s : TRUE
<1>1. ASSUME NEW s \in SUBSET S, \A e \in s : s \ {e} \in G
      PROVE  s \in G
  <2>1. g[s] = IF s = {} THEN 0 ELSE f[x(s)] + g[s \ {x(s)}]
    BY DEF Summation
  <2>2. CASE s = {}
    BY <2>1, <2>2
  <2>3. CASE s # {}
    <3>1. x(s) \in s
      BY <2>3
    <3>2. f[x(s)] \in Int /\ g[s \ {x(s)}] \in Int
      BY <1>1, <3>1
    <3>3. QED BY <2>1, <2>3, <3>2
  <2>4. QED BY <2>2, <2>3
<1> HIDE DEF G
<1>2. \A s \in SUBSET S : s \in G
  BY <1>1, SubsetInduction
<1>3. QED BY <1>2 DEF G

\* Summation takes the elements as CHOOSE gives them; any other comes to the
\* same.
LEMMA SummationOrder ==
  ASSUME NEW S, IsFiniteSet(S), NEW f, \A j \in S : f[j] \in Int,
         NEW g, Summation(f, S, g)
  PROVE  \A s \in SUBSET S : \A y \in s : g[s] = f[y] + g[s \ {y}]
<1> DEFINE G    == {s \in SUBSET S : \A y \in s : g[s] = f[y] + g[s \ {y}]}
           x(s) == CHOOSE e \in s : TRUE
<1>1. \A s \in SUBSET S : g[s] \in Int
  BY SummationInt
<1>2. ASSUME NEW s \in SUBSET S, \A e \in s : s \ {e} \in G, NEW y \in s
      PROVE  g[s] = f[y] + g[s \ {y}]
  <2>1. PICK e \in s : e = x(s)
    OBVIOUS
  <2>2. g[s] = f[e] + g[s \ {e}]
    BY <2>1 DEF Summation
  <2>3. CASE e = y
    BY <2>2, <2>3
  <2>4. CASE e # y
    <3>1. y \in s \ {e} /\ e \in s \ {y} /\ (s \ {e}) \ {y} = (s \ {y}) \ {e}
      BY <2>4
    <3>2. g[s \ {e}] = f[y] + g[(s \ {e}) \ {y}]
      BY <1>2, <3>1
    <3>3. g[s \ {y}] = f[e] + g[(s \ {e}) \ {y}]
      BY <1>2, <3>1
    <3>4. (s \ {e}) \ {y} \in SUBSET S
      OBVIOUS
    <3>5. g[(s \ {e}) \ {y}] \in Int /\ f[e] \in Int /\ f[y] \in Int
      BY <1>1, <3>4
    <3>6. QED BY <2>2, <3>2, <3>3, <3>5
  <2>5. QED BY <2>3, <2>4
<1>3. \A s \in SUBSET S : (\A e \in s : s \ {e} \in G) => s \in G
  BY <1>2
<1> HIDE DEF G
<1>4. \A s \in SUBSET S : s \in G
  BY <1>3, SubsetInduction
<1>5. QED BY <1>4 DEF G

SumOf(f, S) == MapThenSumSet(LAMBDA j : f[j], S)

\* Any summation over a set that holds S computes the sum of S.
LEMMA SumIsSummation ==
  ASSUME NEW T, IsFiniteSet(T), NEW f, NEW g, Summation(f, T, g), NEW S \in SUBSET T
  PROVE  SumOf(f, S) = g[S]
<1> DEFINE h    == CHOOSE k : Summation(f, S, k)
           G    == {s \in SUBSET S : h[s] = g[s]}
           x(s) == CHOOSE e \in s : TRUE
<1>1. SumOf(f, S) = h[S]
  BY DEF SumOf, MapThenSumSet, MapThenFoldSet, Summation
<1>2. IsFiniteSet(S)
  BY FS_Subset
<1>3. Summation(f, S, h)
  BY <1>2, SummationExists
<1> HIDE DEF h
<1>4. ASSUME NEW s \in SUBSET S, \A e \in s : s \ {e} \in G
      PROVE  s \in G
  <2>1. /\ h[s] = IF s = {} THEN 0 ELSE f[x(s)] + h[s \ {x(s)}]
        /\ g[s] = IF s = {} THEN 0 ELSE f[x(s)] + g[s \ {x(s)}]
    BY <1>3 DEF Summation
  <2>2. s # {} => x(s) \in s
    OBVIOUS
  <2>3. QED BY <1>4, <2>1, <2>2
<1> HIDE DEF G
<1>5. \A s \in SUBSET S : s \in G
  BY <1>2, <1>4, SubsetInduction
<1>6. S \in G
  BY <1>5
<1>7. QED BY <1>1, <1>6 DEF G

LEMMA SumType ==
  ASSUME NEW S, IsFiniteSet(S), NEW f, \A j \in S : f[j] \in Int
  PROVE  SumOf(f, S) \in Int
<1>1. PICK g : Summation(f, S, g)
  BY SummationExists
<1>2. QED BY <1>1, SumIsSummation, SummationInt

\* Nothing sums to zero.
LEMMA SumEmpty ==
  ASSUME NEW f
  PROVE  SumOf(f, {}) = 0
<1>1. IsFiniteSet({})
  BY FS_EmptySet
<1>2. PICK g : Summation(f, {}, g)
  BY <1>1, SummationExists
<1>3. g[{}] = 0
  BY <1>2 DEF Summation
<1>4. QED BY <1>1, <1>2, <1>3, SumIsSummation

\* A sum is any one of its terms and the sum of the others.
LEMMA SumWithout ==
  ASSUME NEW S, IsFiniteSet(S), NEW f, \A j \in S : f[j] \in Int, NEW x \in S
  PROVE  SumOf(f, S) = f[x] + SumOf(f, S \ {x})
<1>1. PICK g : Summation(f, S, g)
  BY SummationExists
<1>2. g[S] = f[x] + g[S \ {x}]
  BY <1>1, SummationOrder
<1>3. SumOf(f, S) = g[S] /\ SumOf(f, S \ {x}) = g[S \ {x}]
  BY <1>1, SumIsSummation
<1>4. QED BY <1>2, <1>3

\* The terms of f over S that are greater than zero, and those below it.
Positive(f, S) == {j \in S : f[j] > 0}

Negative(f, S) == {j \in S : f[j] < 0}

\* No part of a sum exceeds the sum of its positive terms.
LEMMA SumAtMostPositive ==
  ASSUME NEW S, IsFiniteSet(S), NEW f, \A j \in S : f[j] \in Int
  PROVE  \A t \in SUBSET S : SumOf(f, t) <= SumOf(f, Positive(f, S))
<1> DEFINE G == {s \in SUBSET S : \A t \in SUBSET s : SumOf(f, t) <= SumOf(f, Positive(f, s))}
<1>1. ASSUME NEW s \in SUBSET S PROVE IsFiniteSet(s) /\ SumOf(f, s) \in Int
  <2>1. IsFiniteSet(s)
    BY FS_Subset
  <2>2. QED BY <2>1, SumType
<1>2. ASSUME NEW s \in SUBSET S, \A e \in s : s \ {e} \in G, NEW t \in SUBSET s
      PROVE  SumOf(f, t) <= SumOf(f, Positive(f, s))
  <2>1. CASE s = {}
    <3>1. t = {} /\ Positive(f, s) = {}
      BY <2>1 DEF Positive
    <3>2. QED BY <3>1, SumEmpty
  <2>2. CASE s # {}
    <3>1. PICK x \in s : TRUE
      BY <2>2
    <3> DEFINE p == Positive(f, s \ {x})
               q == Positive(f, s)
    <3>2. f[x] \in Int /\ p \in SUBSET S /\ q \in SUBSET S /\ t \in SUBSET S
      BY <3>1 DEF Positive
    <3>3. SumOf(f, t) \in Int /\ SumOf(f, p) \in Int /\ SumOf(f, q) \in Int
          /\ SumOf(f, t \ {x}) \in Int
      BY <1>1, <3>2
    <3>4. SumOf(f, t \ {x}) <= SumOf(f, p)
      BY <1>2
    <3>5. \/ f[x] > 0 /\ SumOf(f, q) = f[x] + SumOf(f, p)
          \/ f[x] <= 0 /\ SumOf(f, q) = SumOf(f, p)
      <4>1. CASE f[x] > 0
        <5>1. x \in q /\ q \ {x} = p
          BY <4>1 DEF Positive
        <5>2. SumOf(f, q) = f[x] + SumOf(f, q \ {x})
          BY <1>1, <3>2, <5>1, SumWithout
        <5>3. QED BY <4>1, <5>1, <5>2
      <4>2. CASE f[x] <= 0
        <5>1. q = p
          BY <3>2, <4>2 DEF Positive
        <5>2. QED BY <4>2, <5>1
      <4>3. QED BY <3>2, <4>1, <4>2
    <3>6. CASE x \in t
      <4>1. SumOf(f, t) = f[x] + SumOf(f, t \ {x})
        BY <1>1, <3>2, <3>6, SumWithout
      <4>2. QED BY <3>2, <3>3, <3>4, <3>5, <4>1
    <3>7. CASE x \notin t
      <4>1. t \ {x} = t
        BY <3>7
      <4>2. QED BY <3>2, <3>3, <3>4, <3>5, <4>1
    <3>8. QED BY <3>6, <3>7
  <2>3. QED BY <2>1, <2>2
<1>3. \A s \in SUBSET S : (\A e \in s : s \ {e} \in G) => s \in G
  BY <1>2
<1> HIDE DEF G
<1>4. \A s \in SUBSET S : s \in G
  BY <1>3, SubsetInduction
<1>5. S \in G
  BY <1>4
<1>6. QED BY <1>5 DEF G

\* A sum of negated terms.
LEMMA SumNegated ==
  ASSUME NEW S, IsFiniteSet(S), NEW f, \A j \in S : f[j] \in Int
  PROVE  \A s \in SUBSET S : SumOf([j \in S |-> -f[j]], s) = -SumOf(f, s)
<1> DEFINE g == [j \in S |-> -f[j]]
           G == {s \in SUBSET S : SumOf(g, s) = -SumOf(f, s)}
<1>1. \A j \in S : g[j] = -f[j] /\ g[j] \in Int
  OBVIOUS
<1> HIDE DEF g
<1>2. ASSUME NEW s \in SUBSET S, \A e \in s : s \ {e} \in G
      PROVE  SumOf(g, s) = -SumOf(f, s)
  <2>1. IsFiniteSet(s) /\ (\A j \in s : f[j] \in Int) /\ (\A j \in s : g[j] \in Int)
    BY <1>1, FS_Subset
  <2>2. CASE s = {}
    BY <2>2, SumEmpty
  <2>3. CASE s # {}
    <3>1. PICK x \in s : TRUE
      BY <2>3
    <3>2. SumOf(f, s) = f[x] + SumOf(f, s \ {x}) /\ SumOf(g, s) = g[x] + SumOf(g, s \ {x})
      BY <2>1, SumWithout
    <3>3. SumOf(g, s \ {x}) = -SumOf(f, s \ {x})
      BY <1>2
    <3>4. IsFiniteSet(s \ {x})
      BY <2>1, FS_Subset
    <3>5. SumOf(f, s \ {x}) \in Int
      BY <2>1, <3>4, SumType
    <3>6. f[x] \in Int /\ g[x] = -f[x]
      BY <1>1, <2>1
    <3>7. QED BY <3>2, <3>3, <3>5, <3>6
  <2>4. QED BY <2>2, <2>3
<1>3. \A s \in SUBSET S : (\A e \in s : s \ {e} \in G) => s \in G
  BY <1>2
<1> HIDE DEF G
<1>4. \A s \in SUBSET S : s \in G
  BY <1>3, SubsetInduction
<1>5. QED BY <1>4 DEF G, g

\* No part of a sum is below the sum of its negative terms.
LEMMA SumAtLeastNegative ==
  ASSUME NEW S, IsFiniteSet(S), NEW f, \A j \in S : f[j] \in Int
  PROVE  \A t \in SUBSET S : SumOf(f, Negative(f, S)) <= SumOf(f, t)
<1> DEFINE g == [j \in S |-> -f[j]]
<1>1. \A j \in S : g[j] = -f[j] /\ g[j] \in Int
  OBVIOUS
<1>2. \A t \in SUBSET S : SumOf(g, t) = -SumOf(f, t)
  BY SumNegated
<1> HIDE DEF g
<1>3. Positive(g, S) = Negative(f, S)
  BY <1>1 DEF Positive, Negative
<1>4. \A t \in SUBSET S : SumOf(g, t) <= SumOf(g, Negative(f, S))
  BY <1>1, <1>3, SumAtMostPositive
<1>5. \A t \in SUBSET S : SumOf(f, t) \in Int
  <2>1. \A t \in SUBSET S : IsFiniteSet(t)
    BY FS_Subset
  <2>2. QED BY <2>1, SumType
<1>6. Negative(f, S) \in SUBSET S
  BY DEF Negative
<1>7. QED BY <1>2, <1>4, <1>5, <1>6

\* Running totals, of the terms a[1], a[2], ..., a[n].
RunningTotals(a, n, g) == g = [i \in 0 .. n |-> IF i = 0 THEN 0 ELSE g[i - 1] + a[i]]

\* A recursive definition of them defines them.
LEMMA RunningTotalsExist ==
  ASSUME NEW a, NEW n \in Nat
  PROVE  \E g : RunningTotals(a, n, g)
<1> DEFINE Upto(k, g) == /\ g = [i \in 0 .. n |-> g[i]]
                         /\ \A i \in 0 .. k : g[i] = IF i = 0 THEN 0 ELSE g[i - 1] + a[i]
           G == {k \in 0 .. n : \E g : Upto(k, g)}
<1>1. 0 \in G
  <2> DEFINE z == [i \in 0 .. n |-> 0]
  <2>1. Upto(0, z)
    OBVIOUS
  <2> HIDE DEF z
  <2>2. QED BY <2>1
<1>2. ASSUME NEW k \in 1 .. n, k - 1 \in G
      PROVE  k \in G
  <2>1. PICK g : Upto(k - 1, g)
    BY <1>2
  <2> DEFINE h == [i \in 0 .. n |-> IF i = k THEN g[k - 1] + a[k] ELSE g[i]]
  <2>2. h = [i \in 0 .. n |-> h[i]]
    OBVIOUS
  <2>3. ASSUME NEW i \in 0 .. k
        PROVE  h[i] = IF i = 0 THEN 0 ELSE h[i - 1] + a[i]
    <3>1. i \in 0 .. n /\ k \in Int /\ k # 0
      OBVIOUS
    <3>2. CASE i = k
      <4>1. k - 1 \in 0 .. n /\ k - 1 # k
        BY <3>1
      <4>2. h[k - 1] = g[k - 1] /\ h[i] = g[k - 1] + a[k]
        BY <3>1, <3>2, <4>1
      <4>3. QED BY <3>1, <3>2, <4>2
    <3>3. CASE i # k
      <4>1. i \in 0 .. k - 1
        BY <3>1, <3>3
      <4>2. h[i] = g[i]
        BY <3>1, <3>3
      <4>3. i # 0 => i - 1 \in 0 .. n /\ i - 1 # k
        BY <3>1, <4>1
      <4>4. i # 0 => h[i - 1] = g[i - 1]
        BY <4>3
      <4>5. g[i] = IF i = 0 THEN 0 ELSE g[i - 1] + a[i]
        BY <2>1, <4>1
      <4>6. QED BY <4>2, <4>4, <4>5
    <3>4. QED BY <3>2, <3>3
  <2> HIDE DEF h
  <2>4. Upto(k, h)
    BY <2>2, <2>3
  <2>5. k \in 0 .. n
    OBVIOUS
  <2> HIDE DEF Upto
  <2>6. QED BY <2>4, <2>5
<1>3. \A k \in 1 .. n : k - 1 \in G => k \in G
  BY <1>2
<1> HIDE DEF G
<1>4. \A k \in 0 .. n : k \in G
  BY <1>1, <1>3, IntervalInduction
<1>5. n \in G
  BY <1>4
<1>6. PICK g : Upto(n, g)
  BY <1>5 DEF G
<1>7. QED BY <1>6 DEF RunningTotals

\* Running totals over the elements of a set, each visited once, are the sums
\* of the elements visited; the last is the sum of the set in whatever order.
LEMMA RunningTotalIsSum ==
  ASSUME NEW S, IsFiniteSet(S), NEW f, \A j \in S : f[j] \in Int,
         NEW order \in Bijection(1 .. Cardinality(S), S),
         NEW g, RunningTotals([i \in 1 .. Cardinality(S) |-> f[order[i]]], Cardinality(S), g)
  PROVE  /\ \A i \in 0 .. Cardinality(S) : g[i] = SumOf(f, {order[j] : j \in 1 .. i})
         /\ g[Cardinality(S)] = SumOf(f, S)
<1> DEFINE n          == Cardinality(S)
           visited(i) == {order[j] : j \in 1 .. i}
           G          == {i \in 0 .. n : g[i] = SumOf(f, visited(i))}
<1>1. n \in Nat
  BY FS_CardinalityType
<1>2. \A i \in 1 .. n : order[i] \in S
  BY DEF Bijection, Injection
<1>3. \A i, j \in 1 .. n : order[i] = order[j] => i = j
  BY DEF Bijection, Injection, IsInjective
<1>4. \A x \in S : \E i \in 1 .. n : order[i] = x
  BY DEF Bijection, Surjection
<1>5. \A i \in 0 .. n : g[i] = IF i = 0 THEN 0 ELSE g[i - 1] + f[order[i]]
  <2> DEFINE a == [i \in 1 .. n |-> f[order[i]]]
  <2>1. g = [i \in 0 .. n |-> IF i = 0 THEN 0 ELSE g[i - 1] + a[i]]
    BY DEF RunningTotals
  <2>2. \A i \in 1 .. n : a[i] = f[order[i]]
    OBVIOUS
  <2>3. \A i \in 0 .. n : i # 0 => i \in 1 .. n
    BY <1>1
  <2> HIDE DEF a, n
  <2>4. QED BY <2>1, <2>2, <2>3
<1> HIDE DEF n
<1>6. 0 \in G
  <2>1. g[0] = 0 /\ 0 \in 0 .. n
    BY <1>1, <1>5
  <2>2. visited(0) = {}
    OBVIOUS
  <2> HIDE DEF visited
  <2>3. QED BY <2>1, <2>2, SumEmpty
<1>7. ASSUME NEW i \in 1 .. n, i - 1 \in G
      PROVE  i \in G
  <2> DEFINE x == order[i]
  <2>1. i \in 0 .. n /\ i # 0 /\ i - 1 \in 0 .. n /\ i \in Int
    BY <1>1
  <2>2. g[i] = g[i - 1] + f[x]
    BY <1>5, <2>1
  <2>3. x \in visited(i) /\ visited(i) \subseteq S
    BY <1>1, <1>2, <2>1
  <2>4. visited(i) \ {x} = visited(i - 1)
    BY <1>1, <1>3, <2>1
  <2>5. IsFiniteSet(visited(i)) /\ IsFiniteSet(visited(i - 1))
    BY <2>3, <2>4, FS_Subset
  <2>6. SumOf(f, visited(i)) = f[x] + SumOf(f, visited(i - 1))
    <3>1. SumOf(f, visited(i)) = f[x] + SumOf(f, visited(i) \ {x})
      <4> HIDE DEF visited, x
      <4>1. QED BY <2>3, <2>5, SumWithout
    <3>2. QED BY <2>4, <3>1
  <2>7. SumOf(f, visited(i - 1)) \in Int /\ f[x] \in Int
    <3>1. visited(i - 1) \subseteq S
      BY <2>3, <2>4
    <3> HIDE DEF visited, x
    <3>2. QED BY <2>3, <2>5, <3>1, SumType
  <2>8. g[i - 1] = SumOf(f, visited(i - 1))
    BY <1>7
  <2> HIDE DEF visited, x
  <2>9. g[i] = SumOf(f, visited(i))
    BY <2>2, <2>6, <2>7, <2>8
  <2>10. QED BY <2>1, <2>9
<1>8. \A i \in 1 .. n : i - 1 \in G => i \in G
  BY <1>7
<1> HIDE DEF G
<1>9. \A i \in 0 .. n : i \in G
  BY <1>1, <1>6, <1>8, IntervalInduction
<1>10. \A i \in 0 .. n : g[i] = SumOf(f, visited(i))
  BY <1>9 DEF G
<1>11. visited(n) = S
  BY <1>2, <1>4
<1>12. n \in 0 .. n
  BY <1>1
<1>13. QED BY <1>10, <1>11, <1>12 DEF n

\* A sum may be taken over the indices of its terms.
LEMMA SumReindexed ==
  ASSUME NEW S, IsFiniteSet(S), NEW f, NEW p, \A i \in S : f[p[i]] \in Int,
         \A i, j \in S : p[i] = p[j] => i = j
  PROVE  SumOf([i \in S |-> f[p[i]]], S) = SumOf(f, {p[i] : i \in S})
<1> DEFINE h        == [i \in S |-> f[p[i]]]
           image(s) == {p[i] : i \in s}
           G        == {s \in SUBSET S : SumOf(h, s) = SumOf(f, image(s))}
<1>1. \A i \in S : h[i] = f[p[i]] /\ h[i] \in Int
  OBVIOUS
<1> HIDE DEF h
<1>2. ASSUME NEW s \in SUBSET S, \A x \in s : s \ {x} \in G
      PROVE  SumOf(h, s) = SumOf(f, image(s))
  <2>1. CASE s = {}
    <3>1. image(s) = {}
      BY <2>1
    <3> HIDE DEF image
    <3>2. QED BY <2>1, <3>1, SumEmpty
  <2>2. CASE s # {}
    <3>1. PICK x \in s : TRUE
      BY <2>2
    <3>2. IsFiniteSet(s) /\ IsFiniteSet(image(s))
      <4>1. IsFiniteSet(s)
        BY FS_Subset
      <4>2. [i \in s |-> p[i]] \in Surjection(s, image(s))
        BY DEF Surjection
      <4>3. QED BY <4>1, <4>2, FS_Surjection
    <3>3. SumOf(h, s) = h[x] + SumOf(h, s \ {x})
      BY <1>1, <3>2, SumWithout
    <3>4. image(s) \ {p[x]} = image(s \ {x})
      OBVIOUS
    <3>5. p[x] \in image(s) /\ \A y \in image(s) : f[y] \in Int
      OBVIOUS
    <3>6. SumOf(f, image(s)) = f[p[x]] + SumOf(f, image(s) \ {p[x]})
      <4> HIDE DEF image
      <4>1. QED BY <3>2, <3>5, SumWithout
    <3>7. SumOf(h, s \ {x}) = SumOf(f, image(s \ {x}))
      BY <1>2
    <3> HIDE DEF image
    <3>8. QED BY <1>1, <3>3, <3>4, <3>6, <3>7
  <2>3. QED BY <2>1, <2>2
<1>3. \A s \in SUBSET S : (\A x \in s : s \ {x} \in G) => s \in G
  BY <1>2
<1> HIDE DEF G
<1>4. \A s \in SUBSET S : s \in G
  BY <1>3, SubsetInduction
<1>5. S \in G
  BY <1>4
<1>6. QED BY <1>5 DEF G, h

-----------------------------------------------------------------------------
(* Least and greatest values *)

\* Among finitely many indices one has the least value.
LEMMA LeastIndex ==
  ASSUME NEW S, IsFiniteSet(S), S # {}, NEW f, \A j \in S : f[j] \in Int
  PROVE  \E j \in S : \A i \in S : f[j] <= f[i]
<1> DEFINE HasLeast(s) == \E j \in s : \A i \in s : f[j] <= f[i]
           G           == {s \in SUBSET S : s = {} \/ HasLeast(s)}
<1>1. ASSUME NEW s \in SUBSET S, \A e \in s : s \ {e} \in G, NEW e \in s
      PROVE  HasLeast(s)
  <2>1. CASE s \ {e} = {}
    <3>1. \A i \in s : f[e] <= f[i]
      BY <2>1
    <3>2. QED BY <3>1
  <2>2. CASE s \ {e} # {}
    <3>1. PICK j \in s \ {e} : \A i \in s \ {e} : f[j] <= f[i]
      BY <1>1, <2>2
    <3>2. \A i \in s : f[i] \in Int /\ (i = e \/ f[j] <= f[i])
      BY <3>1
    <3>3. f[j] \in Int /\ f[e] \in Int
      BY <3>1, <3>2
    <3>4. CASE f[j] <= f[e]
      BY <3>1, <3>2, <3>4
    <3>5. CASE f[e] <= f[j]
      <4>1. \A i \in s : f[e] <= f[i]
        BY <3>2, <3>3, <3>5
      <4>2. QED BY <4>1
    <3>6. QED BY <3>3, <3>4, <3>5
  <2>3. QED BY <2>1, <2>2
<1>2. \A s \in SUBSET S : (\A e \in s : s \ {e} \in G) => s \in G
  BY <1>1
<1> HIDE DEF G
<1>3. \A s \in SUBSET S : s \in G
  BY <1>2, SubsetInduction
<1>4. QED BY <1>3 DEF G

\* The same for the greatest value.
LEMMA GreatestIndex ==
  ASSUME NEW S, IsFiniteSet(S), S # {}, NEW f, \A j \in S : f[j] \in Int
  PROVE  \E j \in S : \A i \in S : f[i] <= f[j]
<1> DEFINE g == [j \in S |-> -f[j]]
<1>1. \A j \in S : g[j] \in Int /\ g[j] = -f[j]
  OBVIOUS
<1> HIDE DEF g
<1>2. PICK j \in S : \A i \in S : g[j] <= g[i]
  BY <1>1, LeastIndex
<1>3. \A i \in S : f[i] <= f[j]
  BY <1>1, <1>2
<1>4. QED BY <1>3

\* Min and Max, of a set that has a least or a greatest element.
LEMMA MinIs ==
  ASSUME NEW S \in SUBSET Int, NEW x \in S, \A y \in S : x <= y
  PROVE  Min(S) = x
<1>1. Min(S) \in S /\ \A y \in S : Min(S) <= y
  BY DEF Min
<1>2. Min(S) \in Int /\ x \in Int /\ Min(S) <= x /\ x <= Min(S)
  BY <1>1
<1> HIDE DEF Min
<1>3. QED BY <1>2

LEMMA MaxIs ==
  ASSUME NEW S \in SUBSET Int, NEW x \in S, \A y \in S : y <= x
  PROVE  Max(S) = x
<1>1. \A y \in S : x >= y
  OBVIOUS
<1>2. Max(S) \in S /\ \A y \in S : Max(S) >= y
  BY <1>1 DEF Max
<1>3. Max(S) \in Int /\ x \in Int /\ Max(S) <= x /\ x <= Max(S)
  BY <1>2
<1>4. QED BY <1>3

\* The greatest of the numbers up to n.
LEMMA GreatestUpto ==
  ASSUME NEW n \in Nat, NEW S \in SUBSET (1 .. n), S # {}
  PROVE  \E x \in S : \A y \in S : y <= x
<1> DEFINE id == [j \in S |-> j]
<1>1. IsFiniteSet(1 .. n)
  <2>1. 1 \in Int /\ n \in Int
    OBVIOUS
  <2>2. QED BY <2>1, FS_Interval
<1>2. IsFiniteSet(S)
  BY <1>1, FS_Subset
<1>3. \A j \in S : id[j] = j /\ id[j] \in Int
  OBVIOUS
<1> HIDE DEF id
<1>4. \E j \in S : \A i \in S : id[i] <= id[j]
  BY <1>2, <1>3, GreatestIndex
<1>5. QED BY <1>3, <1>4
=============================================================================
