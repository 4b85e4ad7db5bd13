------------------------ MODULE ConvergenceReportProofs ------------------------
(***************************************************************************)
(* Proofs about ConvergenceReport, for logs and configurations of any      *)
(* length: the report gives what the samples say, and the markers of each  *)
(* series are spread over it.                                              *)
(***************************************************************************)
EXTENDS ConvergenceReport, FiniteSums, SequenceTheorems

-----------------------------------------------------------------------------
(* Normalize sorts *)

\* The fields of a sample, as numbers.
LEMMA SampleTypes ==
  ASSUME NEW s \in Seq(Sample)
  PROVE  /\ Len(s) \in Nat /\ DOMAIN s = 1 .. Len(s)
         /\ \A i \in DOMAIN s : /\ s[i] \in Sample /\ s[i].node \in NodeID
                                /\ s[i].time \in Int /\ s[i].node \in Int /\ s[i].round \in Int
                                /\ s[i].estimate \in Int
<1>1. Len(s) \in Nat /\ DOMAIN s = 1 .. Len(s) /\ \A i \in DOMAIN s : s[i] \in Sample
  OBVIOUS
<1>2. \A x \in Sample : /\ x.node \in NodeID /\ x.time \in Int /\ x.node \in Int /\ x.round \in Int
                        /\ x.estimate \in Int
  BY InputsAssumption DEF Sample
<1>3. QED BY <1>1, <1>2

\* Before orders the samples of a log: no two of them are tied.
LEMMA BeforeOrders ==
  ASSUME NEW s \in Seq(Sample)
  PROVE  /\ \A i \in DOMAIN s : ~ Before(s, i, i)
         /\ \A i, j \in DOMAIN s : i = j \/ Before(s, i, j) \/ Before(s, j, i)
         /\ \A i, j, k \in DOMAIN s : Before(s, i, j) /\ Before(s, j, k) => Before(s, i, k)
<1>1. \A i \in DOMAIN s : i \in Int /\ s[i].time \in Int /\ s[i].node \in Int /\ s[i].round \in Int
  BY SampleTypes
<1>2. \A i \in DOMAIN s : ~ Before(s, i, i)
  BY <1>1 DEF Before
<1>3. ASSUME NEW i \in DOMAIN s, NEW j \in DOMAIN s
      PROVE  i = j \/ Before(s, i, j) \/ Before(s, j, i)
  <2>1. /\ i \in Int /\ s[i].time \in Int /\ s[i].node \in Int /\ s[i].round \in Int
        /\ j \in Int /\ s[j].time \in Int /\ s[j].node \in Int /\ s[j].round \in Int
    BY <1>1
  <2>2. QED BY <2>1 DEF Before
<1>4. ASSUME NEW i \in DOMAIN s, NEW j \in DOMAIN s, NEW k \in DOMAIN s,
             Before(s, i, j), Before(s, j, k)
      PROVE  Before(s, i, k)
  <2>1. /\ i \in Int /\ s[i].time \in Int /\ s[i].node \in Int /\ s[i].round \in Int
        /\ j \in Int /\ s[j].time \in Int /\ s[j].node \in Int /\ s[j].round \in Int
        /\ k \in Int /\ s[k].time \in Int /\ s[k].node \in Int /\ s[k].round \in Int
    BY <1>1
  <2>2. QED BY <1>4, <2>1 DEF Before
<1>5. QED BY <1>2, <1>3, <1>4

\* The samples that do not come after sample i.
UpTo(s, i) == {j \in DOMAIN s : j = i \/ Before(s, j, i)}

Position(s) == [i \in DOMAIN s |-> Cardinality(UpTo(s, i))]

\* Later samples have greater positions, and no position is free.
LEMMA PositionsAreOrdered ==
  ASSUME NEW s \in Seq(Sample)
  PROVE  /\ \A i, j \in DOMAIN s : Before(s, i, j) => Position(s)[i] < Position(s)[j]
         /\ Position(s) \in Bijection(DOMAIN s, DOMAIN s)
<1> DEFINE D == DOMAIN s
           n == Len(s)
<1>1. n \in Nat /\ D = 1 .. n
  BY SampleTypes
<1>2. IsFiniteSet(D) /\ Cardinality(D) = n
  BY <1>1, FS_Interval
<1>3. \A i \in D : UpTo(s, i) \in SUBSET D /\ i \in UpTo(s, i)
  BY DEF UpTo
<1>4. \A i \in D : IsFiniteSet(UpTo(s, i)) /\ Cardinality(UpTo(s, i)) \in Nat
                   /\ Cardinality(UpTo(s, i)) <= n
  BY <1>2, <1>3, FS_Subset, FS_CardinalityType
<1>5. \A i \in D : Cardinality(UpTo(s, i)) # 0
  BY <1>3, <1>4, FS_EmptySet
<1>6. ASSUME NEW i \in D, NEW j \in D, Before(s, i, j)
      PROVE  Cardinality(UpTo(s, i)) < Cardinality(UpTo(s, j))
  <2>1. UpTo(s, i) \in SUBSET UpTo(s, j)
    BY <1>6, BeforeOrders DEF UpTo
  <2>2. j \notin UpTo(s, i)
    BY <1>6, BeforeOrders DEF UpTo
  <2>3. UpTo(s, i) # UpTo(s, j)
    BY <1>3, <2>2
  <2>4. Cardinality(UpTo(s, i)) <= Cardinality(UpTo(s, j))
        /\ Cardinality(UpTo(s, i)) # Cardinality(UpTo(s, j))
    BY <1>4, <2>1, <2>3, FS_Subset
  <2>5. QED BY <1>4, <2>4
<1>7. Position(s) \in [D -> D]
  BY <1>1, <1>4, <1>5 DEF Position
<1>8. \A i, j \in D : Position(s)[i] = Position(s)[j] => i = j
  <2>1. \A i \in D : Position(s)[i] = Cardinality(UpTo(s, i)) /\ Position(s)[i] \in Nat
    BY <1>4 DEF Position
  <2>2. QED BY <1>6, <2>1, BeforeOrders
<1>9. Position(s) \in Injection(D, D)
  BY <1>7, <1>8 DEF Injection, IsInjective
<1>10. Position(s) \in Surjection(D, D)
  BY <1>2, <1>9, FS_Injection
<1>11. QED BY <1>6, <1>9, <1>10 DEF Position, Bijection

\* p says where the sample at each position of the sorted log comes from.
Sorting(s, p) ==
  /\ p \in Bijection(DOMAIN s, DOMAIN s)
  /\ Normalize(s) = [k \in DOMAIN s |-> s[p[k]]]
  /\ \A k, l \in DOMAIN s : k < l => Before(s, p[k], p[l])

LEMMA NormalizeSorts ==
  ASSUME NEW s \in Seq(Sample)
  PROVE  \E p : Sorting(s, p)
<1> DEFINE D == DOMAIN s
           p == [k \in D |-> CHOOSE i \in D : Position(s)[i] = k]
<1>1. \A k \in D : \E i \in D : Position(s)[i] = k
  BY PositionsAreOrdered DEF Bijection, Surjection
<1>2. \A k \in D : p[k] \in D /\ Position(s)[p[k]] = k
  BY <1>1
<1>3. Normalize(s) = [k \in D |-> s[p[k]]]
  BY DEF Normalize, Position, UpTo
<1> HIDE DEF p
<1>4. p \in [D -> D] /\ \A k, l \in D : p[k] = p[l] => k = l
  <2>1. p = [k \in D |-> p[k]]
    BY DEF p
  <2>2. QED BY <1>2, <2>1
<1>5. ASSUME NEW i \in D PROVE \E k \in D : p[k] = i
  <2>1. Position(s)[i] \in D
    BY PositionsAreOrdered DEF Bijection, Injection
  <2>2. Position(s)[p[Position(s)[i]]] = Position(s)[i] /\ p[Position(s)[i]] \in D
    BY <1>2, <2>1
  <2>3. p[Position(s)[i]] = i
    BY <2>2, PositionsAreOrdered DEF Bijection, Injection, IsInjective
  <2>4. QED BY <2>1, <2>3
<1>6. p \in Bijection(D, D)
  BY <1>4, <1>5 DEF Bijection, Injection, Surjection, IsInjective
<1>7. ASSUME NEW k \in D, NEW l \in D, k < l
      PROVE  Before(s, p[k], p[l])
  <2>1. p[k] \in D /\ p[l] \in D /\ p[k] # p[l] /\ k \in Int /\ l \in Int
    <3>1. k \in Int /\ l \in Int
      BY SampleTypes
    <3>2. p[k] \in D /\ p[l] \in D
      BY <1>2
    <3>3. k # l
      BY <1>7, <3>1
    <3>4. QED BY <1>4, <3>1, <3>2, <3>3
  <2>2. ~ Before(s, p[l], p[k])
    <3>1. Before(s, p[l], p[k]) => l < k
      BY <1>2, <2>1, PositionsAreOrdered
    <3>2. QED BY <1>7, <2>1, <3>1
  <2>3. QED BY <2>1, <2>2, BeforeOrders
<1>8. QED BY <1>3, <1>6, <1>7 DEF Sorting

-----------------------------------------------------------------------------
(* What sorting keeps *)

\* In order: times never go back, nor do the rounds of one node at one time.
InOrder(s) ==
  \A k, l \in DOMAIN s : k < l =>
    /\ s[k].time <= s[l].time
    /\ s[k].time = s[l].time /\ s[k].node = s[l].node => s[k].round <= s[l].round

\* No two samples have the same time, node and round.
Apart(s) ==
  \A i, j \in DOMAIN s :
    i # j => <<s[i].time, s[i].node, s[i].round>> # <<s[j].time, s[j].node, s[j].round>>

\* Normalize gives the same samples in order.
LEMMA NormalizeKeeps ==
  ASSUME NEW c \in Seq(Sample)
  PROVE  LET s == Normalize(c)
         IN  /\ s \in Seq(Sample) /\ DOMAIN s = DOMAIN c /\ (c # <<>> => s # <<>>)
             /\ ToSet(s) = ToSet(c) /\ Observed(s) = Observed(c)
             /\ InOrder(s)
             /\ Apart(c) => Apart(s)
             /\ \A n : Cardinality(Series(s, n)) = Cardinality(Series(c, n))
<1> DEFINE D == DOMAIN c
           s == Normalize(c)
<1>1. PICK p : Sorting(c, p)
  BY NormalizeSorts
<1>2. /\ p \in [D -> D]
      /\ \A k, l \in D : p[k] = p[l] => k = l
      /\ \A i \in D : \E k \in D : p[k] = i
  BY <1>1 DEF Sorting, Bijection, Injection, Surjection, IsInjective
<1>3. s = [k \in D |-> c[p[k]]]
  BY <1>1 DEF Sorting
<1>4. DOMAIN s = D /\ \A k \in D : s[k] = c[p[k]] /\ p[k] \in D
  BY <1>2, <1>3
<1>5. Len(c) \in Nat /\ D = 1 .. Len(c) /\ \A i \in D : c[i] \in Sample
  OBVIOUS
<1>6. s \in Seq(Sample)
  <2>1. s \in [1 .. Len(c) -> Sample]
    BY <1>2, <1>3, <1>5
  <2>2. QED BY <1>5, <2>1, IsASeq
<1> HIDE DEF s
<1>7. c # <<>> => s # <<>>
  <2>1. ASSUME D = {} PROVE c = <<>>
    <3>1. Len(c) = 0
      BY <1>5, <2>1
    <3>2. QED BY <3>1
  <2>2. s = <<>> => DOMAIN s = {}
    OBVIOUS
  <2>3. QED BY <1>4, <2>1, <2>2
<1>8. ToSet(s) = ToSet(c)
  BY <1>2, <1>4 DEF ToSet
<1>9. Observed(s) = Observed(c)
  BY <1>2, <1>4 DEF Observed
<1>10. InOrder(s)
  <2> SUFFICES ASSUME NEW k \in D, NEW l \in D, k < l
               PROVE  /\ s[k].time <= s[l].time
                      /\ s[k].time = s[l].time /\ s[k].node = s[l].node => s[k].round <= s[l].round
    BY <1>4 DEF InOrder
  <2>1. Before(c, p[k], p[l])
    BY <1>1 DEF Sorting
  <2>2. /\ c[p[k]].time \in Int /\ c[p[k]].node \in Int /\ c[p[k]].round \in Int
        /\ c[p[l]].time \in Int /\ c[p[l]].node \in Int /\ c[p[l]].round \in Int
    BY <1>4, SampleTypes
  <2>3. s[k] = c[p[k]] /\ s[l] = c[p[l]]
    BY <1>4
  <2>4. QED BY <2>1, <2>2, <2>3 DEF Before
<1>11. ASSUME Apart(c) PROVE Apart(s)
  <2> SUFFICES ASSUME NEW i \in D, NEW j \in D, i # j
               PROVE  <<s[i].time, s[i].node, s[i].round>> # <<s[j].time, s[j].node, s[j].round>>
    BY <1>4 DEF Apart
  <2>1. p[i] \in D /\ p[j] \in D /\ p[i] # p[j]
    BY <1>2
  <2>2. s[i] = c[p[i]] /\ s[j] = c[p[j]]
    BY <1>4
  <2>3. <<c[p[i]].time, c[p[i]].node, c[p[i]].round>> # <<c[p[j]].time, c[p[j]].node, c[p[j]].round>>
    BY <1>11, <2>1 DEF Apart
  <2>4. QED BY <2>2, <2>3
<1>12. ASSUME NEW n
       PROVE  Cardinality(Series(s, n)) = Cardinality(Series(c, n))
  <2>1. Series(s, n) \in SUBSET D /\ Series(c, n) \in SUBSET D
    BY <1>4 DEF Series
  <2>2. IsFiniteSet(D)
    <3>1. 1 \in Int /\ Len(c) \in Int
      BY <1>5
    <3>2. QED BY <1>5, <3>1, FS_Interval
  <2>3. IsFiniteSet(Series(s, n))
    BY <2>1, <2>2, FS_Subset
  <2> DEFINE q == [k \in Series(s, n) |-> p[k]]
  <2>4. \A k \in Series(s, n) : q[k] = p[k] /\ k \in D /\ p[k] \in Series(c, n)
    BY <1>4, <2>1 DEF Series
  <2>5. \A i \in Series(c, n) : \E k \in Series(s, n) : p[k] = i
    BY <1>2, <1>4 DEF Series
  <2>6. q \in Bijection(Series(s, n), Series(c, n))
    <3>1. q \in [Series(s, n) -> Series(c, n)]
      BY <2>4
    <3>2. \A k, l \in Series(s, n) : q[k] = q[l] => k = l
      BY <1>2, <2>4
    <3>3. \A i \in Series(c, n) : \E k \in Series(s, n) : q[k] = i
      BY <2>4, <2>5
    <3> HIDE DEF q
    <3>4. QED BY <3>1, <3>2, <3>3 DEF Bijection, Injection, Surjection, IsInjective
  <2>7. ExistsBijection(Series(s, n), Series(c, n))
    BY <2>6 DEF ExistsBijection
  <2>8. QED BY <2>3, <2>7, FS_Bijection
<1>13. QED BY <1>4, <1>6, <1>7, <1>8, <1>9, <1>10, <1>11, <1>12 DEF s

-----------------------------------------------------------------------------
(* The markers *)

\* x \div d, once the multiples of d around x are known.
LEMMA QuotientIs ==
  ASSUME NEW x \in Int, NEW d \in Nat, d > 0, NEW q \in Int, q * d <= x, x < q * d + d
  PROVE  x \div d = q
BY SMT

LEMMA QuotientBounds ==
  ASSUME NEW x \in Int, NEW d \in Nat, d > 0
  PROVE  /\ x \div d \in Int
         /\ (x \div d) * d <= x
         /\ x < (x \div d) * d + d
BY SMT

\* A step of d or more changes the quotient.
LEMMA QuotientGrows ==
  ASSUME NEW x \in Int, NEW y \in Int, NEW d \in Nat, d > 0, x + d <= y
  PROVE  x \div d < y \div d
<1> DEFINE a == x \div d
           b == y \div d
<1>1. /\ a \in Int /\ b \in Int
      /\ a * d <= x /\ y < b * d + d
  BY QuotientBounds
<1> HIDE DEF a, b
<1>2. SUFFICES ASSUME b <= a PROVE FALSE
  BY <1>1 DEF a, b
<1>3. b * d <= a * d
  BY <1>1, <1>2, SMT
<1>4. b * d \in Int /\ a * d \in Int
  BY <1>1
<1>5. QED BY <1>1, <1>3, <1>4

\* markerIndexes begins with the first sample of a series, ends with its
\* last and grows.
LEMMA MarkersOf ==
  ASSUME NEW count \in Nat, count > 0, NEW limit \in Nat, limit > 1
  PROVE  LET m == markerIndexes(count, limit)
         IN  /\ m[1] = 0
             /\ m[Len(m)] = count - 1
             /\ \A i \in 1 .. Len(m) - 1 : m[i] < m[i + 1]
<1>1. CASE count <= limit
  <2>1. markerIndexes(count, limit) = [i \in 1 .. count |-> i - 1]
    BY <1>1 DEF markerIndexes
  <2>2. Len([i \in 1 .. count |-> i - 1]) = count
    OBVIOUS
  <2>3. QED BY <2>1, <2>2
<1>2. CASE limit < count
  <2> DEFINE m == [i \in 1 .. limit |-> Marker(i - 1, count, limit)]
             d == 2 * (limit - 1)
             x(i) == 2 * i * (count - 1) + (limit - 1)
  <2>1. markerIndexes(count, limit) = m
    BY <1>2 DEF markerIndexes
  <2>2. Len(m) = limit
    OBVIOUS
  <2>3. \A i \in 1 .. limit : m[i] = x(i - 1) \div d
    BY DEF Marker
  <2>4. d \in Nat /\ d > 0
    OBVIOUS
  <2>5. \A i \in Nat : x(i) \in Int
    OBVIOUS
  <2>6. m[1] = 0
    <3>1. x(0) = limit - 1
      OBVIOUS
    <3>2. 0 * d <= x(0) /\ x(0) < 0 * d + d
      BY <3>1
    <3> HIDE DEF x, d
    <3>3. x(0) \div d = 0
      BY <2>4, <2>5, <3>2, QuotientIs
    <3>4. 1 \in 1 .. limit /\ 1 - 1 = 0
      OBVIOUS
    <3> HIDE DEF m
    <3>5. QED BY <2>3, <3>3, <3>4
  <2>7. m[limit] = count - 1
    <3>1. x(limit - 1) = (count - 1) * d + (limit - 1)
      BY SMT
    <3>2. (count - 1) * d \in Int /\ limit - 1 < d /\ d \in Int
      OBVIOUS
    <3>3. (count - 1) * d <= x(limit - 1) /\ x(limit - 1) < (count - 1) * d + d
      BY <3>1, <3>2
    <3>4. limit \in 1 .. limit /\ limit - 1 \in Nat /\ count - 1 \in Int
      OBVIOUS
    <3> HIDE DEF x, d
    <3>5. x(limit - 1) \div d = count - 1
      BY <2>4, <2>5, <3>3, <3>4, QuotientIs
    <3> HIDE DEF m
    <3>6. QED BY <2>3, <3>4, <3>5
  <2>8. ASSUME NEW i \in 1 .. limit - 1
        PROVE  m[i] < m[i + 1]
    <3>1. x(i) = x(i - 1) + 2 * (count - 1)
      BY SMT
    <3>2. x(i - 1) + d <= x(i)
      BY <1>2, <2>5, <3>1
    <3>3. i - 1 \in Nat /\ i \in Nat /\ i \in 1 .. limit /\ i + 1 \in 1 .. limit /\ (i + 1) - 1 = i
      OBVIOUS
    <3> HIDE DEF x, d
    <3>4. x(i - 1) \div d < x(i) \div d
      BY <2>4, <2>5, <3>2, <3>3, QuotientGrows
    <3> HIDE DEF m
    <3>5. QED BY <2>3, <3>3, <3>4
  <2>9. QED BY <2>1, <2>2, <2>6, <2>7, <2>8
<1>3. QED BY <1>1, <1>2

-----------------------------------------------------------------------------
(* What the samples say *)

\* The samples of node n among the first i.
Heard(s, i, n) == {k \in 1 .. i : s[k].node = n}

\* m is the last of them.
LastHeard(s, i, n, m) == m \in Heard(s, i, n) /\ \A k \in Heard(s, i, n) : k <= m

LEMMA LastHeardExists ==
  ASSUME NEW s, NEW i \in Nat, NEW n, Heard(s, i, n) # {}
  PROVE  \E m : LastHeard(s, i, n, m)
<1>1. Heard(s, i, n) \in SUBSET (1 .. i)
  BY DEF Heard
<1> HIDE DEF Heard
<1>2. QED BY <1>1, GreatestUpto DEF LastHeard

LEMMA LatestIs ==
  ASSUME NEW s, NEW i \in Nat, NEW n, NEW m, LastHeard(s, i, n, m)
  PROVE  Latest(s, i, n) = s[m].estimate
<1>1. Heard(s, i, n) \in SUBSET Int
  BY DEF Heard
<1>2. m \in Heard(s, i, n) /\ \A k \in Heard(s, i, n) : k <= m
  BY DEF LastHeard
<1>3. Latest(s, i, n) = s[Max(Heard(s, i, n))].estimate
  BY DEF Latest, Heard
<1> HIDE DEF Heard
<1>4. Max(Heard(s, i, n)) = m
  BY <1>1, <1>2, MaxIs
<1>5. QED BY <1>3, <1>4

\* Sample i is the last one up to time t.
LastBy(s, t, i) == i \in DOMAIN s /\ \A k \in DOMAIN s : s[k].time <= t <=> k <= i

LEMMA LastByExists ==
  ASSUME NEW s \in Seq(Sample), InOrder(s), NEW j \in DOMAIN s
  PROVE  \E i : LastBy(s, s[j].time, i)
<1> DEFINE t == s[j].time
           S == {k \in DOMAIN s : s[k].time <= t}
<1>1. /\ Len(s) \in Nat /\ DOMAIN s = 1 .. Len(s)
      /\ \A k \in DOMAIN s : k \in Int /\ s[k].time \in Int
  BY SampleTypes
<1>2. S \in SUBSET (1 .. Len(s))
  BY <1>1
<1>3. S # {}
  BY <1>1
<1>4. PICK i \in S : \A k \in S : k <= i
  <2> HIDE DEF S
  <2>1. QED BY <1>1, <1>2, <1>3, GreatestUpto
<1>5. ASSUME NEW k \in DOMAIN s, k <= i
      PROVE  s[k].time <= t
  <2>1. i \in DOMAIN s /\ s[i].time <= t
    BY <1>4
  <2>2. k = i \/ s[k].time <= s[i].time
    BY <1>1, <1>5, <2>1 DEF InOrder
  <2>3. s[k].time \in Int /\ s[i].time \in Int /\ t \in Int
    BY <1>1, <2>1
  <2>4. QED BY <2>1, <2>2, <2>3
<1>6. \A k \in DOMAIN s : s[k].time <= t => k <= i
  BY <1>4
<1>7. i \in DOMAIN s
  BY <1>4
<1> HIDE DEF S
<1>8. QED BY <1>5, <1>6, <1>7 DEF LastBy

\* What a node exposes at a time is its last sample among those up to then.
LEMMA ExposedIs ==
  ASSUME NEW s \in Seq(Sample), InOrder(s), Apart(s), NEW t \in Int, NEW i, LastBy(s, t, i),
         NEW n, NEW m, LastHeard(s, i, n, m)
  PROVE  Exposed(ToSet(s), n, t) = s[m]
<1> DEFINE S == ToSet(s)
           Is(x) == /\ x.node = n /\ x.time <= t
                    /\ \A y \in S : y.node = n /\ y.time <= t =>
                         y.time < x.time \/ (y.time = x.time /\ y.round <= x.round)
<1>1. /\ Len(s) \in Nat /\ DOMAIN s = 1 .. Len(s)
      /\ \A k \in DOMAIN s : k \in Int /\ s[k].time \in Int /\ s[k].round \in Int
  BY SampleTypes
<1>2. i \in DOMAIN s /\ \A k \in DOMAIN s : s[k].time <= t <=> k <= i
  BY DEF LastBy
<1>3. \A k \in DOMAIN s : s[k].node = n /\ s[k].time <= t <=> k \in Heard(s, i, n)
  BY <1>1, <1>2 DEF Heard
<1>4. \A k \in Heard(s, i, n) : k \in DOMAIN s /\ k <= m
  <2>1. \A k \in Heard(s, i, n) : k \in DOMAIN s
    BY <1>1, <1>2 DEF Heard
  <2>2. QED BY <2>1 DEF LastHeard
<1>5. m \in DOMAIN s /\ m \in Heard(s, i, n)
  BY <1>4 DEF LastHeard
<1>6. S = {s[k] : k \in DOMAIN s}
  BY DEF ToSet
<1>7. Is(s[m])
  <2>1. ASSUME NEW k \in Heard(s, i, n)
        PROVE  s[k].time < s[m].time \/ (s[k].time = s[m].time /\ s[k].round <= s[m].round)
    <3>1. k \in DOMAIN s /\ k <= m /\ s[k].node = n /\ s[m].node = n
      BY <1>3, <1>4, <1>5
    <3>2. /\ k \in Int /\ m \in Int
          /\ s[k].time \in Int /\ s[m].time \in Int /\ s[k].round \in Int /\ s[m].round \in Int
      BY <1>1, <1>5, <3>1
    <3>3. k < m => /\ s[k].time <= s[m].time
                   /\ s[k].time = s[m].time => s[k].round <= s[m].round
      BY <1>5, <3>1 DEF InOrder
    <3>4. k = m \/ k < m
      BY <3>1, <3>2
    <3>5. QED BY <3>2, <3>3, <3>4
  <2>2. s[m].node = n /\ s[m].time <= t
    BY <1>3, <1>5
  <2>3. QED BY <1>3, <1>6, <2>1, <2>2
<1>8. ASSUME NEW x \in S, Is(x)
      PROVE  x = s[m]
  <2>1. PICK k \in DOMAIN s : x = s[k]
    BY <1>6
  <2>2. k \in Heard(s, i, n) /\ k <= m
    BY <1>3, <1>4, <1>8, <2>1
  <2>3. s[m] \in S /\ s[m].node = n /\ s[m].time <= t /\ s[k].node = n
    BY <1>3, <1>5, <1>6, <2>2
  <2>4. s[m].time < s[k].time \/ (s[m].time = s[k].time /\ s[m].round <= s[k].round)
    BY <1>8, <2>1, <2>3
  <2>5. /\ k \in Int /\ m \in Int
        /\ s[k].time \in Int /\ s[m].time \in Int /\ s[k].round \in Int /\ s[m].round \in Int
    BY <1>1, <1>5
  <2>6. ASSUME k # m PROVE FALSE
    <3>1. k < m
      BY <2>2, <2>5, <2>6
    <3>2. /\ s[k].time <= s[m].time
          /\ s[k].time = s[m].time => s[k].round <= s[m].round
      BY <1>5, <2>3, <3>1 DEF InOrder
    <3>3. s[k].time = s[m].time /\ s[k].round = s[m].round
      BY <2>4, <2>5, <3>2
    <3>4. <<s[k].time, s[k].node, s[k].round>> # <<s[m].time, s[m].node, s[m].round>>
      BY <1>5, <2>6 DEF Apart
    <3>5. QED BY <2>3, <3>3, <3>4
  <2>7. QED BY <2>1, <2>6
<1>9. s[m] \in S
  BY <1>5, <1>6
<1>10. Exposed(S, n, t) = CHOOSE x \in S : Is(x)
  BY DEF Exposed
<1> HIDE DEF Is, S
<1>11. (CHOOSE x \in S : Is(x)) = s[m]
  BY <1>7, <1>8, <1>9
<1>12. QED BY <1>10, <1>11 DEF S

\* All nodes are settled at t if and only if the samples are stable from the
\* last one up to t.
LEMMA SettledIsStable ==
  ASSUME NEW s \in Seq(Sample), InOrder(s), Apart(s), NEW e,
         NEW t \in Int, NEW i, LastBy(s, t, i)
  PROVE  (\A n \in Observed(s) : Settled(ToSet(s), n, t, e)) <=> i \in Stable(s, e)
<1> DEFINE S == ToSet(s)
<1>1. /\ Len(s) \in Nat /\ DOMAIN s = 1 .. Len(s)
      /\ \A k \in DOMAIN s : k \in Nat /\ k \in 1 .. k /\ s[k].time \in Int
  BY SampleTypes
<1>2. i \in DOMAIN s /\ \A k \in DOMAIN s : s[k].time <= t <=> k <= i
  BY DEF LastBy
<1>3. S = {s[k] : k \in DOMAIN s}
  BY DEF ToSet
<1>4. ASSUME \A n \in Observed(s) : Settled(S, n, t, e), NEW k \in i .. Len(s), NEW n \in Observed(s)
      PROVE  n \in {s[j].node : j \in 1 .. k} /\ Within(Latest(s, k, n), e)
  <2>1. /\ \E x \in S : x.node = n /\ x.time <= t
        /\ Within(Exposed(S, n, t).estimate, e)
        /\ \A x \in S : x.node = n /\ x.time > t => Within(x.estimate, e)
    BY <1>4 DEF Settled
  <2>2. PICK j \in DOMAIN s : s[j].node = n /\ s[j].time <= t
    BY <1>3, <2>1
  <2>3. i \in Nat /\ k \in Nat /\ i <= k /\ k <= Len(s) /\ j \in 1 .. i /\ j \in 1 .. k
    BY <1>1, <1>2, <2>2
  <2>4. j \in Heard(s, i, n) /\ j \in Heard(s, k, n)
    BY <2>2, <2>3 DEF Heard
  <2>5. PICK m : LastHeard(s, k, n, m)
    BY <2>3, <2>4, LastHeardExists
  <2>6. m \in 1 .. k /\ m \in DOMAIN s /\ s[m].node = n
    BY <1>1, <2>3, <2>5 DEF LastHeard, Heard
  <2>7. Latest(s, k, n) = s[m].estimate
    BY <2>3, <2>5, LatestIs
  <2>8. CASE m <= i
    <3>1. \A l \in Heard(s, i, n) : l \in Heard(s, k, n)
      BY <2>3 DEF Heard
    <3>2. m \in Heard(s, i, n)
      BY <2>3, <2>6, <2>8 DEF Heard
    <3>3. LastHeard(s, i, n, m)
      BY <2>5, <3>1, <3>2 DEF LastHeard
    <3>4. Exposed(S, n, t) = s[m]
      BY <3>3, ExposedIs
    <3>5. QED BY <2>1, <2>2, <2>3, <2>7, <3>4
  <2>9. CASE ~ (m <= i)
    <3>1. ~ (s[m].time <= t)
      BY <1>2, <2>6, <2>9
    <3>2. s[m].time > t
      BY <1>1, <2>6, <3>1
    <3>3. Within(s[m].estimate, e)
      BY <1>3, <2>1, <2>6, <3>2
    <3>4. QED BY <2>2, <2>3, <2>7, <3>3
  <2>10. QED BY <2>8, <2>9
<1>5. ASSUME i \in Stable(s, e), NEW n \in Observed(s)
      PROVE  Settled(S, n, t, e)
  <2>1. \A k \in i .. Len(s) : n \in {s[j].node : j \in 1 .. k} /\ Within(Latest(s, k, n), e)
    BY <1>5 DEF Stable, AllWithin
  <2>2. i \in Nat /\ i \in i .. Len(s)
    BY <1>1, <1>2
  <2>3. PICK j \in 1 .. i : s[j].node = n
    BY <2>1, <2>2
  <2>4. j \in Heard(s, i, n) /\ j \in DOMAIN s /\ s[j].time <= t
    <3>1. j \in DOMAIN s /\ j <= i
      BY <1>1, <1>2, <2>3
    <3>2. QED BY <1>2, <2>3, <3>1 DEF Heard
  <2>5. PICK m : LastHeard(s, i, n, m)
    BY <2>2, <2>4, LastHeardExists
  <2>6. Exposed(S, n, t) = s[m] /\ Latest(s, i, n) = s[m].estimate
    BY <2>2, <2>5, ExposedIs, LatestIs
  <2>7. \E x \in S : x.node = n /\ x.time <= t
    BY <1>3, <2>3, <2>4
  <2>8. ASSUME NEW x \in S, x.node = n, x.time > t
        PROVE  Within(x.estimate, e)
    <3>1. PICK k \in DOMAIN s : x = s[k]
      BY <1>3
    <3>2. ~ (s[k].time <= t)
      BY <1>1, <2>8, <3>1
    <3>3. k \in i .. Len(s) /\ k \in Nat
      BY <1>1, <1>2, <3>1, <3>2
    <3>4. LastHeard(s, k, n, k)
      BY <1>1, <2>8, <3>1, <3>3 DEF LastHeard, Heard
    <3>5. Latest(s, k, n) = s[k].estimate
      BY <3>3, <3>4, LatestIs
    <3>6. QED BY <2>1, <3>1, <3>3, <3>5
  <2>9. QED BY <2>1, <2>2, <2>6, <2>7, <2>8 DEF Settled
<1>6. ASSUME \A n \in Observed(s) : Settled(S, n, t, e)
      PROVE  i \in Stable(s, e)
  <2>1. \A k \in i .. Len(s) : AllWithin(s, k, e)
    BY <1>4, <1>6 DEF AllWithin
  <2>2. QED BY <1>2, <2>1 DEF Stable
<1>7. QED BY <1>5, <1>6

\* The times from which all nodes are settled.
SettledTimes(s, e) ==
  {t \in {x.time : x \in ToSet(s)} : \A n \in Observed(s) : Settled(ToSet(s), n, t, e)}

\* The first sample from which all is stable has the first such time.
LEMMA FirstStable ==
  ASSUME NEW s \in Seq(Sample), s # <<>>, InOrder(s), Apart(s), NEW e
  PROVE  LET first == Min(Stable(s, e))
         IN  /\ Min({x.time : x \in ToSet(s)}) = s[1].time
             /\ SettledTimes(s, e) = {} <=> Stable(s, e) = {}
             /\ Stable(s, e) # {} =>
                  /\ Min(SettledTimes(s, e)) = s[first].time
                  /\ s[1].time \in Int /\ s[first].time \in Int /\ s[1].time <= s[first].time
<1> DEFINE T     == {x.time : x \in ToSet(s)}
           OK    == SettledTimes(s, e)
           first == Min(Stable(s, e))
<1>1. /\ Len(s) \in Nat /\ DOMAIN s = 1 .. Len(s)
      /\ \A k \in DOMAIN s : k \in Nat /\ s[k].time \in Int
  BY SampleTypes
<1>2. 1 \in DOMAIN s
  <2>1. Len(s) # 0
    OBVIOUS
  <2>2. QED BY <1>1, <2>1
<1>3. T = {s[k].time : k \in DOMAIN s}
  BY DEF ToSet
<1>4. \A k, l \in DOMAIN s : k <= l => s[k].time <= s[l].time
  <2> SUFFICES ASSUME NEW k \in DOMAIN s, NEW l \in DOMAIN s, k <= l
               PROVE  s[k].time <= s[l].time
    OBVIOUS
  <2>1. k = l \/ k < l
    BY <1>1
  <2>2. QED BY <1>1, <2>1 DEF InOrder
<1>5. Min(T) = s[1].time
  <2>1. \A k \in DOMAIN s : s[1].time <= s[k].time
    BY <1>1, <1>2, <1>4
  <2>2. T \in SUBSET Int /\ s[1].time \in T /\ \A y \in T : s[1].time <= y
    BY <1>1, <1>2, <1>3, <2>1
  <2>3. QED BY <2>2, MinIs
<1>6. OK \in SUBSET Int
  BY <1>1, <1>3 DEF SettledTimes
<1>7. ASSUME NEW t \in OK
      PROVE  \E i \in Stable(s, e) : LastBy(s, t, i)
  <2>1. PICK j \in DOMAIN s : t = s[j].time
    BY <1>3 DEF SettledTimes
  <2>2. PICK i : LastBy(s, t, i)
    BY <2>1, LastByExists
  <2>3. \A n \in Observed(s) : Settled(ToSet(s), n, t, e)
    BY DEF SettledTimes
  <2>4. t \in Int
    BY <1>6
  <2>5. QED BY <2>2, <2>3, <2>4, SettledIsStable
<1>8. ASSUME NEW j \in Stable(s, e)
      PROVE  s[j].time \in OK
  <2>1. j \in DOMAIN s /\ \A k \in j .. Len(s) : AllWithin(s, k, e)
    BY DEF Stable
  <2>2. PICK i : LastBy(s, s[j].time, i)
    BY <2>1, LastByExists
  <2>3. i \in DOMAIN s /\ j <= i
    BY <1>1, <2>1, <2>2 DEF LastBy
  <2>4. \A k \in i .. Len(s) : k \in j .. Len(s)
    BY <1>1, <2>1, <2>3
  <2>5. i \in Stable(s, e)
    BY <2>1, <2>3, <2>4 DEF Stable
  <2>6. s[j].time \in Int /\ s[j].time \in T
    BY <1>1, <1>3, <2>1
  <2>7. \A n \in Observed(s) : Settled(ToSet(s), n, s[j].time, e)
    BY <2>2, <2>5, <2>6, SettledIsStable
  <2>8. QED BY <2>6, <2>7 DEF SettledTimes
<1>9. ASSUME Stable(s, e) # {}
      PROVE  /\ Min(OK) = s[first].time
             /\ s[1].time \in Int /\ s[first].time \in Int /\ s[1].time <= s[first].time
  <2>1. Stable(s, e) \in SUBSET Nat /\ Stable(s, e) \in SUBSET DOMAIN s
    BY <1>1 DEF Stable
  <2>2. PICK f \in Stable(s, e) : \A i \in Stable(s, e) : f <= i
    BY <1>9, <2>1, LeastNatural
  <2>3. first = f
    <3>1. Stable(s, e) \in SUBSET Int
      BY <2>1
    <3>2. QED BY <2>2, <3>1, MinIs
  <2>4. f \in DOMAIN s
    BY <2>1
  <2>5. \A t \in OK : s[f].time <= t
    <3> SUFFICES ASSUME NEW t \in OK PROVE s[f].time <= t
      OBVIOUS
    <3>1. PICK i \in Stable(s, e) : LastBy(s, t, i)
      BY <1>7
    <3>2. i \in DOMAIN s /\ s[i].time <= t /\ f <= i
      BY <1>1, <2>1, <2>2, <3>1 DEF LastBy
    <3>3. s[f].time <= s[i].time
      BY <1>4, <2>4, <3>2
    <3>4. s[f].time \in Int /\ s[i].time \in Int /\ t \in Int
      BY <1>1, <1>6, <2>4, <3>2
    <3>5. QED BY <3>2, <3>3, <3>4
  <2>6. s[f].time \in OK
    BY <1>8, <2>2
  <2>7. Min(OK) = s[f].time
    BY <1>6, <2>5, <2>6, MinIs
  <2>8. s[1].time \in Int /\ s[f].time \in Int /\ s[1].time <= s[f].time
    BY <1>1, <1>2, <1>4, <2>4
  <2>9. QED BY <2>3, <2>7, <2>8
<1>10. OK = {} <=> Stable(s, e) = {}
  BY <1>7, <1>8
<1>11. QED BY <1>5, <1>9, <1>10

-----------------------------------------------------------------------------
(* The oracle *)

\* Each node has one configuration.
OnePerNode == \A i, j \in DOMAIN loaded : i # j => loaded[i].node # loaded[j].node

\* The oracle, a sum over the list of configurations, is the aggregate of
\* the nodes.
LEMMA OracleIsTruth ==
  ASSUME loaded \in Seq(Config), OnePerNode
  PROVE  Oracle = Truth
<1> DEFINE D      == DOMAIN loaded
           values == [i \in D |-> loaded[i].initialValue]
           own    == [n \in Nodes |-> (CHOOSE c \in ToSet(loaded) : c.node = n).initialValue]
           q      == [i \in D |-> loaded[i].node]
           sum    == MapThenSumSet(LAMBDA i : values[i], DOMAIN values)
           total  == MapThenSumSet(LAMBDA n : own[n], Nodes)
<1>1. Len(loaded) \in Nat /\ D = 1 .. Len(loaded) /\ \A i \in D : loaded[i] \in Config
  OBVIOUS
<1>2. \A i \in D : loaded[i].initialValue \in Int
  BY <1>1 DEF Config
<1>3. \A i \in D : q[i] = loaded[i].node /\ q[i] \in Nodes
  BY DEF Nodes
<1>4. \A i, j \in D : q[i] = q[j] => i = j
  BY <1>3 DEF OnePerNode
<1>5. {q[i] : i \in D} = Nodes
  BY <1>3 DEF Nodes
<1>6. \A i \in D : own[q[i]] = loaded[i].initialValue
  <2> SUFFICES ASSUME NEW i \in D PROVE own[q[i]] = loaded[i].initialValue
    OBVIOUS
  <2>1. loaded[i] \in ToSet(loaded) /\ loaded[i].node = q[i]
    BY <1>3 DEF ToSet
  <2>2. \A c \in ToSet(loaded) : c.node = q[i] => c = loaded[i]
    BY <1>3, <1>4 DEF ToSet
  <2>3. (CHOOSE c \in ToSet(loaded) : c.node = q[i]) = loaded[i]
    <3> HIDE DEF q
    <3>1. QED BY <2>1, <2>2
  <2>4. own[q[i]] = (CHOOSE c \in ToSet(loaded) : c.node = q[i]).initialValue
    <3>1. q[i] \in Nodes
      BY <1>3
    <3> HIDE DEF q
    <3>2. QED BY <3>1
  <2>5. QED BY <2>3, <2>4
<1>7. DOMAIN values = D /\ \A i \in D : values[i] = own[q[i]] /\ values[i] \in Int
  <2>1. \A i \in D : values[i] = loaded[i].initialValue
    OBVIOUS
  <2>2. QED BY <1>2, <1>6, <2>1
<1>8. values = [i \in D |-> own[q[i]]]
  <2>1. values = [i \in D |-> values[i]]
    OBVIOUS
  <2>2. QED BY <1>7, <2>1
<1>9. ToSet(values) = {own[n] : n \in Nodes}
  <2>1. ToSet(values) = {values[i] : i \in D}
    BY DEF ToSet
  <2> HIDE DEF values, own, q
  <2>2. QED BY <1>5, <1>7, <2>1
<1>10. IsFiniteSet(D)
  <2>1. 1 \in Int /\ Len(loaded) \in Int
    BY <1>1
  <2>2. QED BY <1>1, <2>1, FS_Interval
<1>11. sum = total
  <2>1. sum = SumOf(values, D) /\ total = SumOf(own, Nodes)
    BY DEF SumOf
  <2> HIDE DEF values, own, q, sum, total, D
  <2>2. \A i \in D : own[q[i]] \in Int
    BY <1>7
  <2>3. SumOf([i \in D |-> own[q[i]]], D) = SumOf(own, {q[i] : i \in D})
    BY <1>4, <1>10, <2>2, SumReindexed
  <2>4. QED BY <1>5, <1>8, <2>1, <2>3
<1>12. Len(values) = Cardinality(Nodes)
  <2>1. q \in [D -> Nodes]
    BY <1>3
  <2>2. \A n \in Nodes : \E i \in D : q[i] = n
    <3> HIDE DEF q
    <3>1. QED BY <1>5
  <2>3. q \in Bijection(D, Nodes)
    <3> HIDE DEF q
    <3>1. QED BY <1>4, <2>1, <2>2 DEF Bijection, Injection, Surjection, IsInjective
  <2>4. Cardinality(Nodes) = Len(loaded)
    <3>1. ExistsBijection(1 .. Len(loaded), Nodes)
      BY <1>1, <2>3 DEF ExistsBijection
    <3>2. QED BY <1>1, <3>1, FS_CountingElements
  <2>5. Len(values) = Len(loaded)
    <3>1. values \in Seq(Int)
      BY <1>1, <1>2
    <3>2. DOMAIN values = 1 .. Len(values) /\ Len(values) \in Nat
      BY <3>1
    <3>3. QED BY <1>1, <1>7, <3>2
  <2>6. QED BY <2>4, <2>5
<1>13. Oracle = CASE loaded[1].aggregation = "sum"     -> sum
                  [] loaded[1].aggregation = "average" -> sum \div Len(values)
                  [] loaded[1].aggregation = "min"     -> Min(ToSet(values))
                  [] loaded[1].aggregation = "max"     -> Max(ToSet(values))
  BY DEF Oracle, Expected
<1>14. Truth = CASE loaded[1].aggregation = "sum"     -> total
                 [] loaded[1].aggregation = "average" -> total \div Cardinality(Nodes)
                 [] loaded[1].aggregation = "min"     -> Min({own[n] : n \in Nodes})
                 [] loaded[1].aggregation = "max"     -> Max({own[n] : n \in Nodes})
  BY DEF Truth
<1> HIDE DEF sum, total, values, own
<1>15. QED BY <1>9, <1>11, <1>12, <1>13, <1>14

-----------------------------------------------------------------------------
(* The invariant of Run *)

\* What has been read and loaded so far.
Inputs ==
  /\ pc \in {"logs", "csv", "configs", "summary", "done", "failed"}
  /\ logs \in Logs
  /\ csv \in Seq(Sample) \cup Files
  /\ pc \in {"configs", "summary", "done"} => csv \in Seq(Sample)
  /\ configs \in Seq(Config \cup {BadConfig})
  /\ loaded \in Seq(Config)
  /\ OnePerNode

\* There are samples and configurations to make a report of.
Ready == csv \in Seq(Sample) /\ csv # <<>> /\ loaded # <<>>

\* What has been written is the report of the samples and configurations
\* that Run holds.
Outputs ==
  /\ pc \in {"logs", "csv", "configs"} => svg = NoFile
  /\ pc \in {"logs", "csv", "configs", "summary"} => summary = NoFile
  /\ pc \in {"summary", "done"} => Ready
  /\ svg \in Files \/ (Ready /\ svg = Chart)
  /\ summary \in Files \/ (Ready /\ summary = [convergence |-> Convergence])
  /\ pc = "done" => summary = [convergence |-> Convergence]

ReportInv == Inputs /\ Outputs

LEMMA ReportInit_ReportInv == ReportInit => ReportInv
<1> SUFFICES ASSUME ReportInit PROVE ReportInv
  OBVIOUS
<1>1. csv \in Seq(Sample) \cup Files
  <2>1. OldCsv \subseteq Seq(Sample) \cup Files
    BY InputsAssumption DEF Files
  <2>2. csv \in OldCsv \/ csv = NoFile
    BY DEF ReportInit
  <2>3. QED BY <2>1, <2>2 DEF Files
<1>2. configs \in Seq(Config \cup {BadConfig})
  BY InputsAssumption DEF ReportInit
<1>3. loaded = <<>> /\ loaded \in Seq(Config) /\ OnePerNode
  BY DEF ReportInit, OnePerNode
<1>4. Inputs
  BY <1>1, <1>2, <1>3 DEF ReportInit, Inputs
<1>5. Outputs
  BY DEF ReportInit, Outputs, Files
<1>6. QED BY <1>4, <1>5 DEF ReportInv

LEMMA ReadLogsKeeps == ReportInv /\ ReadLogs => ReportInv'
<1> SUFFICES ASSUME ReportInv, ReadLogs PROVE ReportInv'
  OBVIOUS
<1>1. /\ pc = "logs" /\ svg = NoFile /\ summary = NoFile
      /\ UNCHANGED <<logs, svg, summary, configs, loaded>>
      /\ pc' \in {"csv", "failed"}
  BY DEF ReportInv, Outputs, ReadLogs, Goto
<1>2. csv' \in Seq(Sample) \cup Files
  <2>1. CASE csv' = csv
    BY <2>1 DEF ReportInv, Inputs
  <2>2. CASE csv' = Broken
    BY <2>2 DEF Files
  <2>3. CASE csv' = Normalize(logs) /\ logs # NoFile
    <3>1. logs \in Seq(Sample)
      BY <2>3, InputsAssumption DEF ReportInv, Inputs
    <3>2. QED BY <2>3, <3>1, NormalizeKeeps
  <2>4. QED BY <2>1, <2>2, <2>3 DEF ReadLogs
<1>3. OnePerNode'
  BY <1>1 DEF ReportInv, Inputs, OnePerNode
<1>4. Inputs'
  BY <1>1, <1>2, <1>3 DEF ReportInv, Inputs
<1>5. Outputs'
  BY <1>1 DEF Outputs, Files
<1>6. QED BY <1>4, <1>5 DEF ReportInv

LEMMA ReadCsvKeeps == ReportInv /\ ReadCsv => ReportInv'
<1> SUFFICES ASSUME ReportInv, ReadCsv PROVE ReportInv'
  OBVIOUS
<1>1. /\ pc = "csv" /\ svg = NoFile /\ summary = NoFile
      /\ UNCHANGED <<logs, csv, svg, summary, configs, loaded>>
      /\ pc' \in {"configs", "failed"}
  BY DEF ReportInv, Outputs, ReadCsv, Goto
<1>2. pc' = "configs" => csv \in Seq(Sample)
  BY DEF ReportInv, Inputs, ReadCsv, Goto, Files
<1>3. OnePerNode'
  BY <1>1 DEF ReportInv, Inputs, OnePerNode
<1>4. Inputs'
  BY <1>1, <1>2, <1>3 DEF ReportInv, Inputs
<1>5. Outputs'
  BY <1>1 DEF Outputs, Files
<1>6. QED BY <1>4, <1>5 DEF ReportInv

LEMMA LoadConfigKeeps == ReportInv /\ LoadConfig => ReportInv'
<1> SUFFICES ASSUME ReportInv, LoadConfig PROVE ReportInv'
  OBVIOUS
<1>1. /\ pc = "configs" /\ svg = NoFile /\ summary = NoFile
      /\ UNCHANGED <<logs, csv, svg, summary>>
      /\ pc' \in {"configs", "failed"}
      /\ csv \in Seq(Sample) /\ logs \in Logs
  BY DEF ReportInv, Inputs, Outputs, LoadConfig, Goto
<1>2. Head(configs) \in Config \cup {BadConfig} /\ configs' \in Seq(Config \cup {BadConfig})
  <2>1. configs \in Seq(Config \cup {BadConfig}) /\ configs # <<>> /\ configs' = Tail(configs)
    BY DEF ReportInv, Inputs, LoadConfig
  <2>2. QED BY <2>1, HeadTailProperties
<1>3. loaded \in Seq(Config) /\ OnePerNode
  BY DEF ReportInv, Inputs
<1>4. CASE loaded' = loaded
  <2>1. OnePerNode'
    BY <1>3, <1>4 DEF OnePerNode
  <2>2. Inputs'
    BY <1>1, <1>2, <1>3, <1>4, <2>1 DEF Inputs
  <2>3. Outputs'
    BY <1>1 DEF Outputs, Files
  <2>4. QED BY <2>2, <2>3 DEF ReportInv
<1>5. CASE /\ Head(configs) # BadConfig /\ Consistent(Head(configs))
           /\ loaded' = Append(loaded, Head(configs))
  <2> DEFINE c == Head(configs)
             n == Len(loaded)
  <2>1. c \in Config /\ loaded' = Append(loaded, c)
    BY <1>2, <1>5
  <2> HIDE DEF c
  <2>2. /\ loaded' \in Seq(Config) /\ n \in Nat
        /\ DOMAIN loaded = 1 .. n /\ DOMAIN loaded' = 1 .. n + 1
        /\ \A i \in 1 .. n : loaded'[i] = loaded[i]
        /\ loaded'[n + 1] = c
    BY <1>3, <2>1, AppendProperties
  <2>3. \A i \in 1 .. n : loaded[i].node # c.node
    BY <1>5, <2>2 DEF Consistent, c
  <2>4. OnePerNode'
    <3> SUFFICES ASSUME NEW i \in 1 .. n + 1, NEW j \in 1 .. n + 1, i # j
                 PROVE  loaded'[i].node # loaded'[j].node
      BY <2>2 DEF OnePerNode
    <3>1. (i \in 1 .. n \/ i = n + 1) /\ (j \in 1 .. n \/ j = n + 1)
      BY <2>2
    <3>2. CASE i \in 1 .. n /\ j \in 1 .. n
      BY <1>3, <2>2, <3>2 DEF OnePerNode
    <3>3. CASE i \in 1 .. n /\ j = n + 1
      BY <2>2, <2>3, <3>3
    <3>4. CASE i = n + 1 /\ j \in 1 .. n
      BY <2>2, <2>3, <3>4
    <3>5. QED BY <3>1, <3>2, <3>3, <3>4
  <2>5. Inputs'
    BY <1>1, <1>2, <2>2, <2>4 DEF Inputs
  <2>6. Outputs'
    BY <1>1 DEF Outputs, Files
  <2>7. QED BY <2>5, <2>6 DEF ReportInv
<1>6. QED BY <1>4, <1>5 DEF LoadConfig

\* The steps that write change neither the samples nor the configurations,
\* and so none of what is computed from them.
LEMMA SameReport ==
  ASSUME UNCHANGED <<csv, loaded>>
  PROVE  UNCHANGED <<Chart, Convergence, Ready, OnePerNode>>
BY DEF Chart, Convergence, Samples, Nodes, Oracle, Ready, OnePerNode

LEMMA WriteSvgKeeps == ReportInv /\ WriteSvg => ReportInv'
<1> SUFFICES ASSUME ReportInv, WriteSvg PROVE ReportInv'
  OBVIOUS
<1>1. /\ pc = "configs" /\ svg = NoFile /\ summary = NoFile
      /\ UNCHANGED <<logs, csv, summary, configs, loaded>>
      /\ pc' \in {"summary", "failed"}
      /\ csv \in Seq(Sample)
  BY DEF ReportInv, Inputs, Outputs, WriteSvg, Goto
<1>2. UNCHANGED <<Chart, Ready, OnePerNode>>
  BY <1>1, SameReport
<1>3. Inputs'
  BY <1>1, <1>2 DEF ReportInv, Inputs
<1>4. CASE Ready /\ svg' = Chart
  <2>1. (Ready /\ svg = Chart)'
    BY <1>2, <1>4
  <2>2. Outputs'
    BY <1>1, <2>1 DEF Outputs, Files
  <2>3. QED BY <1>3, <2>2 DEF ReportInv
<1>5. CASE svg' \in Files /\ pc' = "failed"
  <2>1. Outputs'
    BY <1>1, <1>5 DEF Outputs, Files
  <2>2. QED BY <1>3, <2>1 DEF ReportInv
<1>6. (Ready /\ svg' = Chart) \/ (svg' \in Files /\ pc' = "failed")
  BY <1>1 DEF WriteSvg, Goto, Ready, Files
<1>7. QED BY <1>4, <1>5, <1>6

LEMMA WriteSummaryKeeps == ReportInv /\ WriteSummary => ReportInv'
<1> SUFFICES ASSUME ReportInv, WriteSummary PROVE ReportInv'
  OBVIOUS
<1>1. /\ pc = "summary"
      /\ UNCHANGED <<logs, csv, svg, configs, loaded>>
      /\ pc' \in {"done", "failed"}
      /\ csv \in Seq(Sample) /\ Ready
      /\ svg \in Files \/ (Ready /\ svg = Chart)
  BY DEF ReportInv, Inputs, Outputs, WriteSummary, Goto
<1>2. UNCHANGED <<Chart, Convergence, Ready, OnePerNode>>
  BY <1>1, SameReport
<1>3. Inputs'
  BY <1>1, <1>2 DEF ReportInv, Inputs
<1>4. (svg \in Files \/ (Ready /\ svg = Chart))'
  BY <1>1, <1>2 DEF Files
<1>5. CASE pc' = "done" /\ summary' = [convergence |-> Convergence]
  <2>1. (Ready /\ summary = [convergence |-> Convergence])'
    BY <1>1, <1>2, <1>5
  <2>2. Outputs'
    BY <1>4, <1>5, <2>1 DEF Outputs
  <2>3. QED BY <1>3, <2>2 DEF ReportInv
<1>6. CASE pc' = "failed" /\ summary' = Broken
  <2>1. Outputs'
    BY <1>4, <1>6 DEF Outputs, Files
  <2>2. QED BY <1>3, <2>1 DEF ReportInv
<1>7. QED BY <1>5, <1>6 DEF WriteSummary, Goto

THEOREM ReportInvariant == ReportSpec => []ReportInv
<1>1. ReportInv /\ [ReportNext]_reportVars => ReportInv'
  <2> SUFFICES ASSUME ReportInv, [ReportNext]_reportVars PROVE ReportInv'
    OBVIOUS
  <2>1. CASE ReadLogs BY <2>1, ReadLogsKeeps
  <2>2. CASE ReadCsv BY <2>2, ReadCsvKeeps
  <2>3. CASE LoadConfig BY <2>3, LoadConfigKeeps
  <2>4. CASE WriteSvg BY <2>4, WriteSvgKeeps
  <2>5. CASE WriteSummary BY <2>5, WriteSummaryKeeps
  <2>6. CASE UNCHANGED reportVars
    <3>1. UNCHANGED <<pc, logs, csv, svg, summary, configs, loaded>>
      BY <2>6 DEF reportVars
    <3>2. UNCHANGED <<Chart, Convergence, Ready, OnePerNode>>
      BY <3>1, SameReport
    <3>3. QED BY <3>1, <3>2 DEF ReportInv, Inputs, Outputs
  <2>7. QED BY <2>1, <2>2, <2>3, <2>4, <2>5, <2>6 DEF ReportNext
<1>2. QED BY <1>1, ReportInit_ReportInv, PTL DEF ReportSpec

-----------------------------------------------------------------------------
(* Theorems *)

\* A convergence time is a length of time.
LEMMA ConvergenceType ==
  ASSUME Ready
  PROVE  Convergence \in Nat \cup {NotObserved}
<1>1. CASE Complete(Samples, Nodes) /\ Stable(Samples, Oracle) # {}
  <2> DEFINE f == Min(Stable(Samples, Oracle))
  <2>1. /\ Samples[1].time \in Int /\ Samples[f].time \in Int /\ Samples[1].time <= Samples[f].time
    <3>1. Stable(Samples, Oracle) # {} /\ Stable(Samples, Oracle) \in SUBSET DOMAIN Samples
      BY <1>1 DEF Stable
    <3>2. Samples \in Seq(Sample) /\ Samples # <<>> /\ InOrder(Samples)
      BY NormalizeKeeps DEF Ready, Samples
    <3>3. /\ Len(Samples) \in Nat /\ DOMAIN Samples = 1 .. Len(Samples)
          /\ \A k \in DOMAIN Samples : k \in Nat /\ Samples[k].time \in Int
      BY <3>2, SampleTypes
    <3>4. f \in DOMAIN Samples
      <4>1. Stable(Samples, Oracle) \in SUBSET Nat
        BY <3>1, <3>3
      <4>2. PICK x \in Stable(Samples, Oracle) : \A y \in Stable(Samples, Oracle) : x <= y
        BY <3>1, <4>1, LeastNatural
      <4>3. f = x
        <5>1. Stable(Samples, Oracle) \in SUBSET Int
          BY <4>1
        <5>2. QED BY <4>2, <5>1, MinIs
      <4>4. QED BY <3>1, <4>3
    <3> HIDE DEF f
    <3>5. 1 \in DOMAIN Samples /\ (f = 1 \/ 1 < f)
      BY <3>3, <3>4
    <3>6. QED BY <3>2, <3>3, <3>4, <3>5 DEF InOrder
  <2>2. Convergence \in {Samples[f].time - Samples[1].time, NotObserved}
    BY DEF Convergence, ConvergenceTime, ElapsedSeconds
  <2> HIDE DEF f
  <2>3. Samples[f].time - Samples[1].time \in Nat
    BY <2>1
  <2>4. QED BY <2>2, <2>3
<1>2. CASE ~ (Complete(Samples, Nodes) /\ Stable(Samples, Oracle) # {})
  BY <1>2 DEF Convergence, ConvergenceTime
<1>3. QED BY <1>1, <1>2

\* Where Run is, and what its files then hold.
THEOREM ReportTypes == ReportSpec => []ReportTypeOK
<1>1. ASSUME ReportInv PROVE ReportTypeOK
  <2>1. csv \in Files \/ Observed(csv) \subseteq NodeID
    <3>1. CASE csv \in Seq(Sample)
      BY <3>1, SampleTypes DEF Observed
    <3>2. QED BY <1>1, <3>1 DEF ReportInv, Inputs
  <2>2. svg \in Files \/ svg.convergence \in Nat \cup {NotObserved}
    <3>1. Chart.convergence = Convergence
      BY DEF Chart
    <3>2. QED BY <1>1, <3>1, ConvergenceType DEF ReportInv, Outputs
  <2>3. summary \in Files \/ summary.convergence \in Nat \cup {NotObserved}
    BY <1>1, ConvergenceType DEF ReportInv, Outputs
  <2>4. \A i \in DOMAIN loaded : loaded[i] # BadConfig
    <3>1. loaded \in Seq(Config)
      BY <1>1 DEF ReportInv, Inputs
    <3>2. \A i \in DOMAIN loaded : loaded[i] \in Config
      BY <3>1
    <3>3. QED BY <3>2, InputsAssumption
  <2>5. QED BY <1>1, <2>1, <2>2, <2>3, <2>4 DEF ReportInv, Inputs, ReportTypeOK
<1>2. QED BY <1>1, ReportInvariant, PTL

\* The report is what the samples say, as a set, of the configured nodes.
THEOREM ReportHolds == ReportSpec => []ReportIsTrue
<1>1. ASSUME ReportInv, pc = "done", Apart(csv)
      PROVE  LET S  == ToSet(csv)
                 T  == {x.time : x \in S}
                 OK == {t \in T : \A n \in Nodes : Settled(S, n, t, Truth)}
             IN  summary.convergence =
                   IF OK = {} \/ Observed(csv) # Nodes THEN NotObserved ELSE Min(OK) - Min(T)
  <2> DEFINE S  == ToSet(csv)
             T  == {x.time : x \in S}
             OK == {t \in T : \A n \in Nodes : Settled(S, n, t, Truth)}
             f  == Min(Stable(Samples, Oracle))
  <2>1. /\ Ready /\ summary = [convergence |-> Convergence]
        /\ loaded \in Seq(Config) /\ OnePerNode
    BY <1>1 DEF ReportInv, Inputs, Outputs
  <2>2. /\ Samples \in Seq(Sample) /\ Samples # <<>>
        /\ ToSet(Samples) = S /\ Observed(Samples) = Observed(csv)
        /\ InOrder(Samples) /\ Apart(Samples)
    BY <1>1, <2>1, NormalizeKeeps DEF Ready, Samples
  <2>3. Oracle = Truth
    BY <2>1, OracleIsTruth
  <2>4. /\ Min(T) = Samples[1].time
        /\ SettledTimes(Samples, Oracle) = {} <=> Stable(Samples, Oracle) = {}
        /\ Stable(Samples, Oracle) # {} => Min(SettledTimes(Samples, Oracle)) = Samples[f].time
    BY <2>2, FirstStable
  <2>5. Convergence = IF Observed(csv) = Nodes /\ Stable(Samples, Oracle) # {}
                      THEN Samples[f].time - Samples[1].time ELSE NotObserved
    BY <2>2 DEF Convergence, ConvergenceTime, Complete, ElapsedSeconds
  <2>6. Observed(csv) = Nodes => OK = SettledTimes(Samples, Oracle)
    BY <2>2, <2>3 DEF SettledTimes
  <2>7. summary.convergence = Convergence
    BY <2>1
  <2> HIDE DEF T, OK, f
  <2>8. summary.convergence =
          IF OK = {} \/ Observed(csv) # Nodes THEN NotObserved ELSE Min(OK) - Min(T)
    BY <2>4, <2>5, <2>6, <2>7
  <2>9. QED BY <2>8 DEF T, OK
<1>2. ReportInv => ReportIsTrue
  BY <1>1 DEF ReportIsTrue, Apart
<1>3. QED BY <1>2, ReportInvariant, PTL

\* The markers of each series run from its first sample to its last and
\* never repeat one.
THEOREM MarkersCover == ReportSpec => []MarkersSpread
<1>1. ASSUME ReportInv, svg \notin Files, NEW n \in Observed(csv)
      PROVE  LET m == svg.markers[n]
             IN  /\ m[1] = 0
                 /\ m[Len(m)] = Cardinality(Series(csv, n)) - 1
                 /\ \A i \in 1 .. Len(m) - 1 : m[i] < m[i + 1]
  <2> DEFINE count == Cardinality(Series(csv, n))
  <2>1. svg = Chart /\ csv \in Seq(Sample)
    BY <1>1 DEF ReportInv, Outputs, Ready
  <2>2. Observed(Samples) = Observed(csv) /\ Cardinality(Series(Samples, n)) = count
    BY <2>1, NormalizeKeeps DEF Samples
  <2>3. svg.markers[n] = markerIndexes(count, MaxSeriesMarkers)
    <3>1. Chart.markers[n] = markerIndexes(Cardinality(Series(Samples, n)), MaxSeriesMarkers)
      BY <2>2 DEF Chart
    <3>2. QED BY <2>1, <2>2, <3>1
  <2>4. count \in Nat /\ count > 0
    <3>1. Len(csv) \in Nat /\ DOMAIN csv = 1 .. Len(csv)
      BY <2>1
    <3>2. Series(csv, n) \in SUBSET (1 .. Len(csv)) /\ Series(csv, n) # {}
      BY <3>1 DEF Series, Observed
    <3>3. IsFiniteSet(1 .. Len(csv))
      <4>1. 1 \in Int /\ Len(csv) \in Int
        BY <3>1
      <4>2. QED BY <4>1, FS_Interval
    <3>4. IsFiniteSet(Series(csv, n))
      BY <3>2, <3>3, FS_Subset
    <3>5. count \in Nat /\ count # 0
      BY <3>2, <3>4, FS_CardinalityType, FS_EmptySet
    <3>6. QED BY <3>5
  <2>5. MaxSeriesMarkers \in Nat /\ MaxSeriesMarkers > 1
    BY InputsAssumption
  <2> HIDE DEF count
  <2>6. LET m == markerIndexes(count, MaxSeriesMarkers)
        IN  /\ m[1] = 0
            /\ m[Len(m)] = count - 1
            /\ \A i \in 1 .. Len(m) - 1 : m[i] < m[i + 1]
    BY <2>4, <2>5, MarkersOf
  <2>7. QED BY <2>3, <2>6 DEF count
<1>2. ReportInv => MarkersSpread
  BY <1>1 DEF MarkersSpread
<1>3. QED BY <1>2, ReportInvariant, PTL
=============================================================================
