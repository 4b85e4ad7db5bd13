--------------------------- MODULE SaturatedSumProofs ---------------------------
(***************************************************************************)
(* Proofs about SaturatedSum: whatever order the loop visits the map in,   *)
(* an estimate without the flag is exact, no flag is raised without an     *)
(* overflow, and one that is raised stays.                                 *)
(***************************************************************************)
EXTENDS SaturatedSum, FiniteSums

Limits == {-MaxFloat64, 0, MaxFloat64}

\* The positive or the negative contributions overflow by themselves.
Overflowing ==
  \/ SumOver({n \in Node : contributions[n] > 0}) > MaxFloat64
  \/ SumOver({n \in Node : contributions[n] < 0}) < -MaxFloat64

\* What one estimate over S may be.
Sound(r, S, already) ==
  /\ r.value \in -MaxFloat64 .. MaxFloat64
  /\ r.overflowed \in BOOLEAN
  /\ already => r.overflowed
  /\ r.overflowed => r.value \in Limits /\ (already \/ Overflowing)
  /\ ~ r.overflowed => r.value = SumOver(S)

-----------------------------------------------------------------------------
(* The loop *)

\* SumOver is the sum of FiniteSums.
LEMMA SumOverIsSum == \A S : SumOver(S) = SumOf(contributions, S)
  BY DEF SumOver, SumOf

\* A set of nodes visited in some order: each node once.
LEMMA OrderIsBijection ==
  ASSUME NEW S, IsFiniteSet(S), NEW order \in SetToSeqs(S)
  PROVE  order \in Bijection(1 .. Cardinality(S), S) /\ Len(order) = Cardinality(S)
<1> DEFINE n == Cardinality(S)
<1>1. n \in Nat
  BY FS_CardinalityType
<1>2. order \in [1 .. n -> S] /\ \A i, j \in 1 .. n : i # j => order[i] # order[j]
  BY DEF SetToSeqs
<1>3. order \in Injection(1 .. n, S)
  BY <1>2 DEF Injection, IsInjective
<1>4. IsFiniteSet(1 .. n) /\ Cardinality(1 .. n) = n
  BY <1>1, FS_Interval
<1>5. order \in Surjection(1 .. n, S)
  BY <1>3, <1>4, FS_Injection
<1> HIDE DEF n
<1>6. Len(order) = n
  BY <1>1, <1>2
<1>7. QED BY <1>3, <1>5, <1>6 DEF Bijection, n

\* The totals of the loop are sums of parts of S, the last of S itself.
LEMMA TotalsAreSums ==
  ASSUME contributions \in [Node -> Int],
         NEW S \in SUBSET Node, NEW order \in SetToSeqs(S)
  PROVE  /\ Len(order) \in Nat
         /\ \A i \in 0 .. Len(order) : \E t \in SUBSET Node : Totals(order)[i] = SumOf(contributions, t)
         /\ Totals(order)[Len(order)] = SumOf(contributions, S)
<1> DEFINE n == Cardinality(S)
           a == [i \in 1 .. n |-> contributions[order[i]]]
           g == Totals(order)
           Loop(h) == h = [i \in 0 .. Len(order) |->
                             IF i = 0 THEN 0 ELSE h[i - 1] + contributions[order[i]]]
<1>1. IsFiniteSet(S)
  BY FiniteFloats, FS_Subset
<1>2. n \in Nat
  BY <1>1, FS_CardinalityType
<1>3. order \in Bijection(1 .. n, S) /\ Len(order) = n
  BY <1>1, OrderIsBijection
<1>4. ASSUME NEW h PROVE Loop(h) <=> RunningTotals(a, n, h)
  <2>1. [i \in 0 .. n |-> IF i = 0 THEN 0 ELSE h[i - 1] + a[i]]
        = [i \in 0 .. n |-> IF i = 0 THEN 0 ELSE h[i - 1] + contributions[order[i]]]
    <3>1. \A i \in 0 .. n : i # 0 => i \in 1 .. n
      BY <1>2
    <3> HIDE DEF n
    <3>2. QED BY <3>1
  <2> HIDE DEF a, n
  <2>2. QED BY <1>3, <2>1 DEF RunningTotals
<1>5. RunningTotals(a, n, g)
  <2>1. PICK h : RunningTotals(a, n, h)
    <3> HIDE DEF a, n
    <3>1. QED BY <1>2, RunningTotalsExist
  <2>2. Loop(h)
    BY <1>4, <2>1
  <2>3. Loop(g)
    BY <2>2 DEF Totals
  <2> HIDE DEF Loop, g
  <2>4. QED BY <1>4, <2>3
<1>6. /\ \A i \in 0 .. n : g[i] = SumOf(contributions, {order[j] : j \in 1 .. i})
      /\ g[n] = SumOf(contributions, S)
  <2>1. \A j \in S : contributions[j] \in Int
    OBVIOUS
  <2> HIDE DEF g
  <2>2. QED BY <1>1, <1>3, <1>5, <2>1, RunningTotalIsSum
<1> HIDE DEF g
<1>7. ASSUME NEW i \in 0 .. n
      PROVE  {order[j] : j \in 1 .. i} \in SUBSET Node
  <2>1. \A j \in 1 .. i : j \in 1 .. n
    BY <1>2
  <2>2. \A j \in 1 .. n : order[j] \in S
    BY <1>3 DEF Bijection, Injection
  <2> HIDE DEF n
  <2>3. QED BY <2>1, <2>2
<1> HIDE DEF n
<1>8. QED BY <1>2, <1>3, <1>6, <1>7 DEF g

\* One run of the loop, over any order.
LEMMA WalkIsSound ==
  ASSUME contributions \in [Node -> Int],
         NEW S \in SUBSET Node, NEW order \in SetToSeqs(S), NEW already \in BOOLEAN
  PROVE  Sound(Walk(order, already), S, already)
<1> DEFINE n     == Len(order)
           total == Totals(order)
           over  == {i \in 1 .. n : ~ Fits(total[i])}
<1>1. n \in Nat /\ total[n] = SumOver(S)
  BY TotalsAreSums, SumOverIsSum
<1>2. IsFiniteSet(Node) /\ MaxFloat64 \in Nat /\ \A j \in Node : contributions[j] \in Int
  BY FiniteFloats
<1>3. ASSUME NEW i \in 0 .. n
      PROVE  /\ total[i] \in Int
             /\ total[i] <= SumOver({j \in Node : contributions[j] > 0})
             /\ SumOver({j \in Node : contributions[j] < 0}) <= total[i]
             /\ SumOver({j \in Node : contributions[j] > 0}) \in Int
             /\ SumOver({j \in Node : contributions[j] < 0}) \in Int
  <2> DEFINE P == {j \in Node : contributions[j] > 0}
             N == {j \in Node : contributions[j] < 0}
  <2>1. PICK t \in SUBSET Node : total[i] = SumOf(contributions, t)
    BY TotalsAreSums
  <2>2. P = Positive(contributions, Node) /\ N = Negative(contributions, Node)
    BY DEF Positive, Negative
  <2>3. SumOf(contributions, t) <= SumOf(contributions, P)
    BY <1>2, <2>2, SumAtMostPositive
  <2>4. SumOf(contributions, N) <= SumOf(contributions, t)
    BY <1>2, <2>2, SumAtLeastNegative
  <2>5. \A s \in SUBSET Node : SumOf(contributions, s) \in Int
    BY <1>2, FS_Subset, SumType
  <2>6. P \in SUBSET Node /\ N \in SUBSET Node
    OBVIOUS
  <2> HIDE DEF P, N
  <2>7. SumOver(P) = SumOf(contributions, P) /\ SumOver(N) = SumOf(contributions, N)
    BY SumOverIsSum
  <2>8. QED BY <2>1, <2>3, <2>4, <2>5, <2>6, <2>7 DEF P, N
<1>4. CASE over = {}
  <2> DEFINE v == total[n]
  <2>1. Walk(order, already) = LoopEnd(v, already)
    BY <1>4 DEF Walk
  <2>2. total[n] \in Int /\ Fits(total[n])
    <3>1. CASE n = 0
      <4>1. S = {}
        <5>1. order \in Bijection(1 .. Cardinality(S), S) /\ Cardinality(S) = 0 /\ IsFiniteSet(S)
          BY <1>2, <3>1, FS_Subset, OrderIsBijection
        <5>2. QED BY <5>1, FS_EmptySet
      <4>2. total[n] = 0
        BY <1>1, <4>1, SumOverIsSum, SumEmpty
      <4>3. QED BY <1>2, <4>2 DEF Fits
    <3>2. CASE n # 0
      <4>1. n \in 1 .. n /\ n \in 0 .. n
        BY <1>1, <3>2
      <4>2. QED BY <1>3, <1>4, <4>1
    <3>3. QED BY <3>1, <3>2
  <2>3. v \in Int /\ -MaxFloat64 <= v /\ v <= MaxFloat64 /\ v = SumOver(S)
    BY <1>1, <2>2 DEF Fits
  <2> HIDE DEF v
  <2>4. CASE already /\ v > 0
    <3>1. LoopEnd(v, already) = [value |-> MaxFloat64, overflowed |-> TRUE]
      BY <2>3, <2>4 DEF LoopEnd, Result
    <3>2. Walk(order, already) = [value |-> MaxFloat64, overflowed |-> TRUE]
      BY <2>1, <3>1
    <3>3. MaxFloat64 \in -MaxFloat64 .. MaxFloat64 /\ MaxFloat64 \in Limits
      BY <1>2 DEF Limits
    <3>4. Walk(order, already).value \in -MaxFloat64 .. MaxFloat64 /\ Walk(order, already).value \in Limits
      BY <3>2, <3>3
    <3>5. Walk(order, already).overflowed = TRUE
      BY <3>2
    <3>6. already
      BY <2>4, Zenon
    <3>7. QED BY <3>4, <3>5, <3>6 DEF Sound
  <2>5. CASE already /\ v < 0
    <3>1. LoopEnd(v, already) = [value |-> -MaxFloat64, overflowed |-> TRUE]
      BY <2>3, <2>5 DEF LoopEnd, Result
    <3>2. Walk(order, already) = [value |-> -MaxFloat64, overflowed |-> TRUE]
      BY <2>1, <3>1
    <3>3. -MaxFloat64 \in -MaxFloat64 .. MaxFloat64 /\ -MaxFloat64 \in Limits
      BY <1>2 DEF Limits
    <3>4. Walk(order, already).value \in -MaxFloat64 .. MaxFloat64 /\ Walk(order, already).value \in Limits
      BY <3>2, <3>3
    <3>5. Walk(order, already).overflowed = TRUE
      BY <3>2
    <3>6. already
      BY <2>5, Zenon
    <3>7. QED BY <3>4, <3>5, <3>6 DEF Sound
  <2>6. CASE ~ already \/ v = 0
    <3>1. LoopEnd(v, already) = [value |-> v, overflowed |-> already]
      BY <2>3, <2>6 DEF LoopEnd, Result
    <3>2. Walk(order, already) = [value |-> v, overflowed |-> already]
      BY <2>1, <3>1
    <3>3. already => v \in Limits
      BY <2>6 DEF Limits
    <3>4. QED BY <1>2, <2>3, <3>2, <3>3 DEF Sound
  <2>7. QED BY <2>3, <2>4, <2>5, <2>6
<1>5. CASE over # {}
  <2>1. over \in SUBSET Nat
    OBVIOUS
  <2>2. PICK k \in over : \A i \in over : k <= i
    BY <1>5, <2>1, LeastNatural
  <2>3. Min(over) \in over
    BY <2>2 DEF Min
  <2>4. Walk(order, already) = OverflowAt(total[Min(over)])
    BY <1>5 DEF Walk
  <2>5. PICK i \in 0 .. n : Walk(order, already) = OverflowAt(total[i]) /\ ~ Fits(total[i])
    <3>1. Min(over) \in 1 .. n /\ ~ Fits(total[Min(over)])
      BY <2>3
    <3>2. Min(over) \in 0 .. n
      BY <1>1, <3>1
    <3> HIDE DEF total, n, over
    <3>3. QED BY <2>4, <3>1, <3>2
  <2> HIDE DEF total, n, over
  <2>6. QED BY <1>2, <1>3, <2>5 DEF OverflowAt, Result, Sound, Fits, Limits, Overflowing
<1>6. QED BY <1>4, <1>5
-----------------------------------------------------------------------------
(* The invariant *)

\* A node that has raised the flag exposes a limit or zero, or the sum it
\* had, if the handler that raised it has not recalculated yet.
Exposes(n) ==
  \/ value[n] \in Limits
  \/ handling[n] /\ value[n] = SumOver(summed[n])

FlaggedAtLimit == \A n \in Node : overflowed[n] => Exposes(n)

\* The flag that a datagram carries was raised by an overflow.
RaisedJustified == raised # {} => Overflowing

SumInv ==
  SumTypeOK /\ UnflaggedIsExact /\ OverflowJustified /\ FlaggedAtLimit /\ RaisedJustified

\* The values of a deployment are integers.
LEMMA ContributionsAreInts ==
  ASSUME SumTypeOK
  PROVE  contributions \in [Node -> Int]
<1>1. InitialValues \subseteq Int
  BY FiniteFloats
<1>2. QED BY <1>1 DEF SumTypeOK

\* A node alone: its estimate is its own value.
LEMMA SumOfOne ==
  ASSUME contributions \in [Node -> InitialValues], NEW n \in Node
  PROVE  SumOver({n}) = contributions[n]
<1>1. contributions[n] \in Int
  <2>1. InitialValues \subseteq Int
    BY FiniteFloats
  <2>2. QED BY <2>1
<1>2. IsFiniteSet({n})
  BY FS_Singleton
<1>3. SumOf(contributions, {n}) = contributions[n] + SumOf(contributions, {n} \ {n})
  BY <1>1, <1>2, SumWithout
<1>4. {n} \ {n} = {}
  OBVIOUS
<1>5. SumOf(contributions, {}) = 0
  BY SumEmpty
<1>6. QED BY <1>1, <1>3, <1>4, <1>5, SumOverIsSum

LEMMA InitialSum ==
  ASSUME SumInit
  PROVE  SumInv
<1>1. \A n \in Node : SumOver({n}) = contributions[n]
  BY SumOfOne DEF SumInit
<1>2. QED BY <1>1, FiniteFloats
  DEF SumInit, SumInv, SumTypeOK, UnflaggedIsExact, OverflowJustified, FlaggedAtLimit,
      RaisedJustified

\* What is summed does not change.
LEMMA SameSums ==
  ASSUME contributions' = contributions
  PROVE  (Overflowing' <=> Overflowing) /\ \A S : SumOver(S)' = SumOver(S)
<1>1. (\A S : SumOver(S) = SumOf(contributions, S))'
  BY SumOverIsSum, PTL
<1>2. \A S : SumOver(S)' = SumOver(S)
  BY <1>1, SumOverIsSum
<1>3. QED BY <1>2 DEF Overflowing

\* A step of n alone keeps the invariant if it keeps what it says of n.
LEMMA NodeStep ==
  ASSUME SumInv, SumTypeOK', NEW n \in Node,
         contributions' = contributions,
         raised' # {} => Overflowing,
         \A m \in Node \ {n} : /\ value'[m] = value[m] /\ overflowed'[m] = overflowed[m]
                               /\ summed'[m] = summed[m] /\ handling'[m] = handling[m],
         ~ overflowed'[n] => value'[n] = SumOver(summed'[n]),
         overflowed'[n] => /\ Overflowing
                           /\ \/ value'[n] \in Limits
                              \/ handling'[n] /\ value'[n] = SumOver(summed'[n])
  PROVE  SumInv'
<1>1. \A S : SumOver(S)' = SumOver(S)
  BY SameSums
<1>2. Overflowing' <=> Overflowing
  BY SameSums
<1>3. UnflaggedIsExact'
  BY <1>1 DEF SumInv, UnflaggedIsExact
<1>4. OverflowJustified'
  <2>1. (\E m \in Node : overflowed'[m]) => Overflowing
    BY DEF SumInv, OverflowJustified, Overflowing
  <2>2. QED BY <1>2, <2>1 DEF OverflowJustified, Overflowing
<1>5. FlaggedAtLimit'
  BY <1>1 DEF SumInv, FlaggedAtLimit, Exposes, Limits
<1>6. RaisedJustified'
  BY <1>2 DEF RaisedJustified
<1>7. QED BY <1>3, <1>4, <1>5, <1>6 DEF SumInv

\* n takes a new estimate over S.
LEMMA EstimateStep ==
  ASSUME SumInv, NEW n \in Node, NEW S \in SUBSET Node, NEW already \in BOOLEAN,
         already => Overflowing,
         overflowed[n] => already,
         NEW r \in Sums(S, already),
         Estimate(n, S, r),
         handling' \in [Node -> BOOLEAN],
         \A m \in Node \ {n} : handling'[m] = handling[m]
  PROVE  SumInv' /\ (overflowed[n] => overflowed'[n])
<1>1. Sound(r, S, already)
  BY ContributionsAreInts, WalkIsSound DEF Sums, SumInv
<1>2. /\ value' = [value EXCEPT ![n] = r.value]
      /\ overflowed' = [overflowed EXCEPT ![n] = r.overflowed]
      /\ summed' = [summed EXCEPT ![n] = S]
      /\ contributions' = contributions
      /\ raised' = IF r.overflowed THEN raised \cup {n} ELSE raised
  BY DEF Estimate, Raise
<1>3. SumTypeOK'
  BY <1>1, <1>2 DEF SumInv, SumTypeOK, Sound
<1>4. /\ value'[n] = r.value /\ overflowed'[n] = r.overflowed /\ summed'[n] = S
      /\ \A m \in Node \ {n} : /\ value'[m] = value[m]
                                /\ overflowed'[m] = overflowed[m]
                                /\ summed'[m] = summed[m]
  BY <1>2 DEF SumInv, SumTypeOK
<1>5. raised' # {} => Overflowing
  BY <1>1, <1>2 DEF SumInv, RaisedJustified, Sound
<1>6. SumInv'
  BY <1>1, <1>2, <1>3, <1>4, <1>5, NodeStep DEF Sound
<1>7. QED BY <1>1, <1>4, <1>6 DEF Sound

\* n raises its flag and keeps its estimate.
LEMMA KeepStep ==
  ASSUME SumInv, NEW n \in Node, NEW S \in SUBSET Node, NEW already \in BOOLEAN,
         already => Overflowing,
         overflowed[n] => already,
         NEW r \in Sums(S, already),
         KeepEstimate(n, r),
         ~ handling[n],
         handling' = [handling EXCEPT ![n] = TRUE]
  PROVE  SumInv' /\ (overflowed[n] => overflowed'[n])
<1>1. Sound(r, S, already)
  BY ContributionsAreInts, WalkIsSound DEF Sums, SumInv
<1>2. /\ value' = value /\ summed' = summed /\ contributions' = contributions
      /\ overflowed' = [overflowed EXCEPT ![n] = r.overflowed]
      /\ raised' = IF r.overflowed THEN raised \cup {n} ELSE raised
  BY DEF KeepEstimate, Raise
<1>3. SumTypeOK'
  BY <1>1, <1>2 DEF SumInv, SumTypeOK, Sound
<1>4. /\ overflowed'[n] = r.overflowed /\ handling'[n]
      /\ \A m \in Node \ {n} : overflowed'[m] = overflowed[m] /\ handling'[m] = handling[m]
  BY <1>2 DEF SumInv, SumTypeOK
<1>5. raised' # {} => Overflowing
  BY <1>1, <1>2 DEF SumInv, RaisedJustified, Sound
<1>6. IF overflowed[n] THEN value'[n] \in Limits ELSE value'[n] = SumOver(summed'[n])
  BY <1>2 DEF SumInv, FlaggedAtLimit, Exposes, UnflaggedIsExact
<1>7. overflowed[n] => r.overflowed
  BY <1>1 DEF Sound
<1>8. r.overflowed => Overflowing
  BY <1>1 DEF Sound
<1>9. SumInv'
  BY <1>2, <1>3, <1>4, <1>5, <1>6, <1>7, <1>8, NodeStep
<1>10. QED BY <1>4, <1>7, <1>9

\* A step of one node, with what it does to a raised flag.
LEMMA SumStep ==
  ASSUME SumInv, [SumNext]_sumVars
  PROVE  /\ SumInv'
         /\ contributions' = contributions
         /\ \A n \in Node : overflowed[n] /\ ~ Restart(n) => overflowed'[n]
<1> DEFINE Kept(m) == overflowed[m] => overflowed'[m]
<1>1. /\ \A n \in Node : overflowed[n] \in BOOLEAN /\ (overflowed[n] => Overflowing)
      /\ handling \in [Node -> BOOLEAN]
      /\ raised # {} => Overflowing
  BY DEF SumInv, SumTypeOK, OverflowJustified, RaisedJustified, Overflowing
<1>2. ASSUME NEW n \in Node, Merge(n)
      PROVE  SumInv' /\ contributions' = contributions /\ \A m \in Node : Kept(m)
  <2>1. PICK S \in SUBSET Node, incoming \in Incoming(n) :
          \E r \in Sums(S, Flag(n, incoming)) : Estimate(n, S, r) \/ KeepEstimate(n, r)
    BY <1>2 DEF Merge
  <2>2. PICK r \in Sums(S, Flag(n, incoming)) : Estimate(n, S, r) \/ KeepEstimate(n, r)
    BY <2>1
  <2>3. /\ Flag(n, incoming) \in BOOLEAN
        /\ Flag(n, incoming) => Overflowing
        /\ overflowed[n] => Flag(n, incoming)
    BY <1>1 DEF Flag, Incoming
  <2>4. ~ handling[n] /\ handling' = [handling EXCEPT ![n] = TRUE]
    BY <1>2 DEF Merge
  <2>5. handling' \in [Node -> BOOLEAN] /\ \A m \in Node \ {n} : handling'[m] = handling[m]
    BY <1>1, <2>4
  <2>6. SumInv' /\ Kept(n)
    BY <2>2, <2>3, <2>4, <2>5, EstimateStep, KeepStep
  <2>7. contributions' = contributions /\ \A m \in Node \ {n} : Kept(m)
    BY <2>2 DEF Estimate, KeepEstimate, Raise, SumInv, SumTypeOK
  <2>8. QED BY <2>6, <2>7
<1>3. ASSUME NEW n \in Node, Recalculate(n)
      PROVE  SumInv' /\ contributions' = contributions /\ \A m \in Node : Kept(m)
  <2>1. PICK S \in SUBSET Node : \E r \in Sums(S, overflowed[n]) : Estimate(n, S, r)
    BY <1>3 DEF Recalculate
  <2>2. PICK r \in Sums(S, overflowed[n]) : Estimate(n, S, r)
    BY <2>1
  <2>3. handling' \in [Node -> BOOLEAN] /\ \A m \in Node \ {n} : handling'[m] = handling[m]
    BY <1>1, <1>3 DEF Recalculate
  <2>4. SumInv' /\ Kept(n)
    BY <1>1, <2>2, <2>3, EstimateStep
  <2>5. contributions' = contributions /\ \A m \in Node \ {n} : Kept(m)
    BY <2>2 DEF Estimate, Raise, SumInv, SumTypeOK
  <2>6. QED BY <2>4, <2>5
<1>4. ASSUME NEW n \in Node, Restart(n)
      PROVE  SumInv' /\ contributions' = contributions /\ \A m \in Node \ {n} : Kept(m)
  <2>1. /\ value'[n] = contributions[n] /\ overflowed'[n] = FALSE /\ summed'[n] = {n}
        /\ contributions' = contributions /\ raised' = raised
        /\ \A m \in Node \ {n} : /\ value'[m] = value[m]
                                  /\ overflowed'[m] = overflowed[m]
                                  /\ summed'[m] = summed[m]
                                  /\ handling'[m] = handling[m]
    BY <1>4 DEF Restart, SumInv, SumTypeOK
  <2>2. SumTypeOK'
    BY <1>4, FiniteFloats DEF Restart, SumInv, SumTypeOK
  <2>3. SumOver({n}) = contributions[n]
    BY SumOfOne DEF SumInv, SumTypeOK
  <2>4. SumInv'
    BY <1>1, <2>1, <2>2, <2>3, NodeStep
  <2>5. QED BY <2>1, <2>4
<1>5. CASE UNCHANGED sumVars
  <2>1. /\ contributions' = contributions /\ value' = value /\ overflowed' = overflowed
        /\ summed' = summed /\ raised' = raised /\ handling' = handling
    BY <1>5 DEF sumVars
  <2>2. SumInv'
    BY <2>1, SameSums
    DEF SumInv, SumTypeOK, UnflaggedIsExact, OverflowJustified, FlaggedAtLimit, Exposes, Limits,
        RaisedJustified, Overflowing
  <2>3. QED BY <2>1, <2>2
<1>6. QED BY <1>2, <1>3, <1>4, <1>5 DEF SumNext

LEMMA SumInvariance == SumSpec => []SumInv
<1>1. SumInit => SumInv
  BY InitialSum
<1>2. SumInv /\ [SumNext]_sumVars => SumInv'
  BY SumStep
<1>3. QED BY <1>1, <1>2, PTL DEF SumSpec

-----------------------------------------------------------------------------
(* Theorems *)

\* SumTypeOK: every estimate is a finite float, whatever is merged and in
\* whatever order the map is walked.
THEOREM EstimatesAreFinite == SumSpec => []SumTypeOK
<1>1. SumInv => SumTypeOK
  BY DEF SumInv
<1>2. QED BY <1>1, SumInvariance, PTL

\* UnflaggedIsExact: stopping at the first overflow never leaves a partial
\* sum without its flag; an estimate without it is the sum in any order.
THEOREM UnflaggedEstimates == SumSpec => []UnflaggedIsExact
<1>1. SumInv => UnflaggedIsExact
  BY DEF SumInv
<1>2. QED BY <1>1, SumInvariance, PTL

\* OverflowJustified: no order of the map and no spreading of the flag gives a
\* false alarm.
THEOREM NoFalseAlarm == SumSpec => []OverflowJustified
<1>1. SumInv => OverflowJustified
  BY DEF SumInv
<1>2. QED BY <1>1, SumInvariance, PTL

\* FlagIsForLife: once raised, the flag stays for the life of the process,
\* and the estimate is a limit or zero, at the latest once the handler that
\* raised it has recalculated.
THEOREM FlagStays == SumSpec => FlagIsForLife
<1> DEFINE Stays ==
      \A n \in Node :
        overflowed[n] /\ ~ Restart(n) =>
          /\ overflowed'[n]
          /\ \/ value'[n] \in {-MaxFloat64, 0, MaxFloat64}
             \/ handling'[n] /\ value'[n] = SumOver(summed'[n])
<1>1. SumInv /\ [SumNext]_sumVars => [Stays]_sumVars
  <2> SUFFICES ASSUME SumInv, [SumNext]_sumVars
               PROVE  Stays
    OBVIOUS
  <2>1. /\ FlaggedAtLimit' /\ contributions' = contributions
        /\ \A n \in Node : overflowed[n] /\ ~ Restart(n) => overflowed'[n]
    BY SumStep DEF SumInv
  <2>2. \A S : SumOver(S)' = SumOver(S)
    BY <2>1, SameSums
  <2>3. QED BY <2>1, <2>2 DEF FlaggedAtLimit, Exposes, Limits
<1>2. QED BY <1>1, SumInvariance, PTL DEF SumSpec, FlagIsForLife
=============================================================================
