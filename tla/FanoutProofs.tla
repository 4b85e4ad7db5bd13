---------------------------- MODULE FanoutProofs ----------------------------
(***************************************************************************)
(* For every set of peers and every validated configuration: the rotation  *)
(* serves each peer within ceil(N/fanout) rounds, from any position its    *)
(* cursor was left in, and so beats the timeout after which the peer would *)
(* suspect the node.                                                       *)
(*                                                                         *)
(* The induction is on the distance of the window from the peer.  A round  *)
(* that passes a peer over brings the window fanout positions closer, so   *)
(* the distance and fanout times the rounds waited add up to a sum that no *)
(* round increases, and that is below N when the wait begins.              *)
(***************************************************************************)
EXTENDS Fanout, FiniteSetTheorems, TLAPS

\* The distance of the window from p and what it has covered while p waited.
Approach ==
  \A p \in eligible :
    Distance(p, eligible) + waited[p] * config.fanout < Cardinality(eligible)

IInv == TypeOK /\ Approach

-----------------------------------------------------------------------------
(* Arithmetic *)

\* A position of a sorted list of n peers.
LEMMA ModRange ==
  ASSUME NEW a \in Nat, NEW n \in Nat, n > 0
  PROVE  a % n \in 0 .. n - 1
BY SMT

\* A position below n is itself.
LEMMA ModSmall ==
  ASSUME NEW n \in Nat, NEW a \in 0 .. n - 1
  PROVE  a % n = a
BY SMT

\* One turn past the end of the list.
LEMMA ModWrap ==
  ASSUME NEW n \in Nat, NEW a \in n .. 2 * n - 1, n > 0
  PROVE  a % n = a - n
BY SMT

\* What waiting one more round adds.
LEMMA OneMore ==
  ASSUME NEW w \in Nat, NEW f \in Nat
  PROVE  (w + 1) * f = w * f + f
BY SMT

\* Of two multiples of f, the one with the larger factor is larger by f.
LEMMA NextMultiple ==
  ASSUME NEW a \in Nat, NEW b \in Nat, NEW f \in Nat, f > 0, a * f < b * f
  PROVE  a + 1 <= b
<1>1. CASE b <= a
  <2>1. PICK d \in Nat : a = b + d
    <3>1. a - b \in Nat /\ a = b + (a - b)
      BY <1>1, SMT
    <3> QED BY <3>1
  <2>2. a * f = b * f + d * f
    BY <2>1, SMT
  <2>3. d * f \in Nat /\ b * f \in Nat
    BY SMT
  <2> QED BY <2>2, <2>3, SMT
<1>2. CASE a < b
  BY <1>2, SMT
<1> QED BY <1>1, <1>2, SMT

\* Multiplication by a natural number is monotone.
LEMMA Monotone ==
  ASSUME NEW a \in Nat, NEW b \in Nat, NEW f \in Nat, a <= b
  PROVE  a * f <= b * f
<1>1. PICK d \in Nat : b = a + d
  <2>1. b - a \in Nat /\ b = a + (b - a)
    BY SMT
  <2> QED BY <2>1
<1>2. b * f = a * f + d * f
  BY <1>1, SMT
<1>3. d * f \in Nat /\ a * f \in Nat
  BY SMT
<1> QED BY <1>2, <1>3, SMT

\* Rounding up: ceil(n/f) multiples of f reach n.
LEMMA Ceiling ==
  ASSUME NEW n \in Nat, NEW f \in Nat, f > 0
  PROVE  /\ (n + f - 1) \div f \in Nat
         /\ n <= ((n + f - 1) \div f) * f
<1> DEFINE a == n + f - 1
           q == a \div f
<1>1. a \in Nat
  BY SMT
<1>2. q \in Nat /\ a < f * (q + 1)
  <2> HIDE DEF a
  <2> QED BY <1>1, SMT
<1>3. f * (q + 1) = q * f + f
  <2> HIDE DEF q
  <2> QED BY <1>2, SMT
<1>4. q * f \in Nat
  <2> HIDE DEF q
  <2> QED BY <1>2, SMT
<1>5. n <= q * f
  <2> HIDE DEF q
  <2> QED BY <1>2, <1>3, <1>4, SMT
<1> QED BY <1>2, <1>5

-----------------------------------------------------------------------------
(* Positions *)

\* The eligible peers are finitely many.
LEMMA Counted ==
  ASSUME NEW S \in SUBSET Peer
  PROVE  /\ IsFiniteSet(S)
         /\ Cardinality(S) \in Nat
         /\ \A p \in S : Cardinality(S) > 0
<1>1. IsFiniteSet(S)
  BY FS_Subset, PeerAssumption
<1>2. Cardinality(S) \in Nat
  BY <1>1, FS_CardinalityType
<1>3. \A p \in S : Cardinality(S) > 0
  BY <1>1, <1>2, FS_EmptySet, SMT
<1> QED BY <1>1, <1>2, <1>3

\* A peer's position in the sorted list.
LEMMA RankRange ==
  ASSUME NEW S \in SUBSET Peer, NEW p \in S
  PROVE  Rank(p, S) \in 0 .. Cardinality(S) - 1
<1> DEFINE below == {q \in S : q < p}
<1>1. IsFiniteSet(S) /\ Cardinality(S) \in Nat
  BY Counted
<1>2. /\ IsFiniteSet(S \ {p})
      /\ Cardinality(S \ {p}) = Cardinality(S) - 1
  BY <1>1, FS_RemoveElement
<1>3. below \subseteq S \ {p}
  <2>1. p \in Nat
    BY PeerAssumption
  <2>2. \A q \in below : q # p
    BY <2>1, SMT
  <2> QED BY <2>2
<1>4. Cardinality(below) \in Nat /\ Cardinality(below) <= Cardinality(S \ {p})
  BY <1>2, <1>3, FS_Subset, FS_CardinalityType
<1> HIDE DEF below
<1>5. Cardinality(below) \in 0 .. Cardinality(S) - 1
  BY <1>1, <1>2, <1>4, SMT
<1> QED BY <1>5 DEF Rank, below

\* The window begins within the list.
LEMMA StartRange ==
  ASSUME NEW S \in SUBSET Peer, S # {}, cursor \in Nat
  PROVE  Start(S) \in 0 .. Cardinality(S) - 1
<1>1. Cardinality(S) \in Nat /\ Cardinality(S) > 0
  BY Counted
<1> QED BY <1>1, ModRange DEF Start

\* The window is less than one turn away from any peer.
LEMMA DistanceRange ==
  ASSUME NEW S \in SUBSET Peer, NEW p \in S, cursor \in Nat
  PROVE  Distance(p, S) \in 0 .. Cardinality(S) - 1
<1>1. Start(S) \in 0 .. Cardinality(S) - 1
  BY StartRange
<1>2. Rank(p, S) \in 0 .. Cardinality(S) - 1
  BY RankRange
<1>3. Cardinality(S) \in Nat
  BY Counted
<1> QED BY <1>1, <1>2, <1>3, SMT DEF Distance

\* A validated configuration.
LEMMA ValidTypes ==
  ASSUME NEW c \in Configs, Valid(c)
  PROVE  /\ c.gossipIntervalMS \in Nat \ {0}
         /\ c.fanout \in Nat \ {0}
         /\ c.membershipTimeoutMS \in Nat \ {0}
         /\ c.peers \in Nat
<1>1. /\ c.gossipIntervalMS \in Int
      /\ c.fanout \in Int
      /\ c.membershipTimeoutMS \in Int
      /\ c.peers \in Nat
  BY ConfigsAssumption
<1>2. c.gossipIntervalMS > 0 /\ c.fanout > 0 /\ c.membershipTimeoutMS > 0
  BY DEF Valid
<1> QED BY <1>1, <1>2, SMT

-----------------------------------------------------------------------------
(* The inductive invariant *)

\* A node starts with no peers.
LEMMA InitIInv == Init => IInv
<1> SUFFICES ASSUME Init PROVE IInv
  OBVIOUS
<1>1. TypeOK
  BY DEF Init, TypeOK
<1>2. Approach
  BY DEF Init, Approach
<1> QED BY <1>1, <1>2 DEF IInv

\* Whatever the list becomes, the wait begins anew at less than one turn.
LEMMA ChangeStep ==
  ASSUME IInv, ChangePeers
  PROVE  IInv'
<1> USE DEF IInv
<1>1. /\ eligible' \in SUBSET Peer
      /\ waited' = [p \in Peer |-> 0]
      /\ config' = config /\ cursor' = cursor
  BY DEF ChangePeers
<1>2. TypeOK'
  BY <1>1 DEF TypeOK
<1>3. ASSUME NEW p \in eligible'
      PROVE  Distance(p, eligible)' + waited'[p] * config'.fanout < Cardinality(eligible')
  <2>1. Distance(p, eligible') \in 0 .. Cardinality(eligible') - 1
    BY <1>1, <1>3, DistanceRange DEF TypeOK
  <2>2. Distance(p, eligible)' = Distance(p, eligible')
    BY <1>1 DEF Distance, Start, Rank
  <2>3. waited'[p] = 0
    BY <1>1, <1>3
  <2>4. config'.fanout \in Nat
    BY <1>1, ValidTypes DEF TypeOK
  <2>5. waited'[p] * config'.fanout = 0
    BY <2>3, <2>4, SMT
  <2>6. Cardinality(eligible') \in Nat
    BY <1>1, Counted
  <2> QED BY <2>1, <2>2, <2>5, <2>6, SMT
<1>4. Approach'
  BY <1>3 DEF Approach
<1> QED BY <1>2, <1>4

\* After a round that could not serve everyone, the window begins fanout
\* positions further on.
LEMMA StartMoves ==
  ASSUME IInv, Round, eligible # {}, ~ AllFit(eligible)
  PROVE  /\ cursor' \in Nat
         /\ Start(eligible)' = IF Start(eligible) + config.fanout < Cardinality(eligible)
                               THEN Start(eligible) + config.fanout
                               ELSE Start(eligible) + config.fanout - Cardinality(eligible)
<1> DEFINE n == Cardinality(eligible)
           s == Start(eligible)
           f == config.fanout
<1>1. n \in Nat /\ n > 0
  BY Counted DEF IInv, TypeOK
<1>2. s \in 0 .. n - 1
  BY StartRange DEF IInv, TypeOK
<1>3. f \in Nat \ {0}
  BY ValidTypes DEF IInv, TypeOK
<1>4. f < n
  BY <1>1, <1>3, SMT DEF AllFit
<1>5. cursor' = (s + f) % n
  BY DEF Round, NextCursor
<1>6. Start(eligible)' = cursor' % n
  BY DEF Round, Start
<1> HIDE DEF n, s, f
<1>7. cursor' = IF s + f < n THEN s + f ELSE s + f - n
  <2>1. CASE s + f < n
    <3>1. s + f \in 0 .. n - 1
      BY <1>1, <1>2, <1>3, <2>1, SMT
    <3> QED BY <1>1, <1>5, <2>1, <3>1, ModSmall
  <2>2. CASE ~ (s + f < n)
    <3>1. s + f \in n .. 2 * n - 1
      BY <1>1, <1>2, <1>3, <1>4, <2>2, SMT
    <3>2. n > 0
      BY <1>1
    <3>3. (s + f) % n = (s + f) - n
      BY <1>1, <3>1, <3>2, ModWrap
    <3> QED BY <1>1, <1>2, <1>3, <1>5, <2>2, <3>3, SMT
  <2> QED BY <2>1, <2>2
<1>8. cursor' \in 0 .. n - 1
  BY <1>1, <1>2, <1>3, <1>4, <1>7, SMT
<1>9. Start(eligible)' = cursor'
  BY <1>1, <1>6, <1>8, ModSmall
<1>10. cursor' \in Nat
  BY <1>1, <1>8, SMT
<1> QED BY <1>7, <1>9, <1>10 DEF n, s, f

\* A round serves a peer, or brings the window fanout positions closer.
LEMMA RoundStep ==
  ASSUME IInv, Round
  PROVE  IInv'
<1> USE DEF IInv
<1>1. /\ eligible' = eligible
      /\ config' = config
      /\ waited' = [p \in Peer |-> IF p \in eligible \ Selected(eligible)
                                   THEN waited[p] + 1 ELSE 0]
  BY DEF Round
<1>2. eligible \in SUBSET Peer /\ cursor \in Nat /\ waited \in [Peer -> Nat]
  BY DEF TypeOK
<1>3. config.fanout \in Nat \ {0}
  BY ValidTypes DEF TypeOK
<1>4. cursor' \in Nat
  <2>1. CASE AllFit(eligible)
    BY <2>1 DEF Round, NextCursor
  <2>2. CASE ~ AllFit(eligible) /\ eligible # {}
    BY <2>2, StartMoves
  <2>3. CASE eligible = {}
    <3>1. AllFit(eligible)
      BY <1>3, <2>3, FS_EmptySet, SMT DEF AllFit
    <3> QED BY <3>1 DEF Round, NextCursor
  <2> QED BY <2>1, <2>2, <2>3
<1>5. TypeOK'
  <2>1. waited' \in [Peer -> Nat]
    BY <1>1, <1>2, SMT
  <2> QED BY <1>1, <1>4, <2>1 DEF TypeOK
<1>6. ASSUME NEW p \in eligible
      PROVE  Distance(p, eligible)' + waited'[p] * config.fanout < Cardinality(eligible)
  <2> DEFINE n == Cardinality(eligible)
             d == Distance(p, eligible)
             e == Distance(p, eligible)'
             f == config.fanout
             w == waited[p]
  <2>1. n \in Nat /\ n > 0
    BY <1>2, <1>6, Counted
  <2>2. e \in 0 .. n - 1
    <3>1. Rank(p, eligible)' = Rank(p, eligible)
      BY <1>1 DEF Rank
    <3>2. Rank(p, eligible) \in 0 .. n - 1
      BY <1>2, <1>6, RankRange
    <3>3. Start(eligible)' = cursor' % n
      BY <1>1 DEF Start
    <3>4. Start(eligible)' \in 0 .. n - 1
      BY <1>4, <2>1, <3>3, ModRange
    <3>5. e = IF Rank(p, eligible)' >= Start(eligible)' THEN Rank(p, eligible)' - Start(eligible)'
              ELSE Rank(p, eligible)' - Start(eligible)' + n
      BY <1>1 DEF Distance
    <3> HIDE DEF n, e
    <3> QED BY <2>1, <3>1, <3>2, <3>4, <3>5, SMT
  <2>3. CASE p \in Selected(eligible)
    <3>1. waited'[p] = 0
      BY <1>1, <1>2, <1>6, <2>3
    <3>2. waited'[p] * f = 0
      BY <1>3, <3>1, SMT
    <3> HIDE DEF n, e, f
    <3>3. e + waited'[p] * f < n
      BY <2>1, <2>2, <3>2, SMT
    <3> QED BY <3>3 DEF n, e, f
  <2>4. CASE p \notin Selected(eligible)
    <3>1. waited'[p] = w + 1
      BY <1>1, <1>2, <1>6, <2>4
    <3>2. ~ AllFit(eligible) /\ ~ (d < f)
      BY <1>6, <2>4 DEF Selected
    <3>3. /\ w \in Nat
          /\ f \in Nat \ {0}
          /\ d \in 0 .. n - 1
      BY <1>2, <1>3, <1>6, DistanceRange
    <3>4. d + w * f < n
      BY <1>6 DEF Approach
    <3>5. e = d - f
      <4> DEFINE s == Start(eligible)
                 r == Rank(p, eligible)
                 t == Start(eligible)'
      <4>1. r \in 0 .. n - 1
        BY <1>2, <1>6, RankRange
      <4>2. s \in 0 .. n - 1
        BY <1>2, <1>6, StartRange
      <4>3. t = IF s + f < n THEN s + f ELSE s + f - n
        BY <1>6, <3>2, StartMoves
      <4>4. d = IF r >= s THEN r - s ELSE r - s + n
        BY DEF Distance
      <4>5. e = IF r >= t THEN r - t ELSE r - t + n
        BY <1>1 DEF Distance, Rank
      <4>6. f < n
        BY <2>1, <3>2, <3>3, SMT DEF AllFit
      <4> HIDE DEF n, d, e, f, s, r, t
      <4> QED BY <2>1, <3>2, <3>3, <4>1, <4>2, <4>3, <4>4, <4>5, <4>6, SMT
    <3> HIDE DEF n, d, e, f, w
    <3>6. (w + 1) * f = w * f + f
      BY <3>3, OneMore
    <3>7. w * f \in Nat
      BY <3>3, SMT
    <3>8. e + waited'[p] * f < n
      BY <2>1, <3>1, <3>3, <3>4, <3>5, <3>6, <3>7, SMT
    <3> QED BY <3>8 DEF n, e, f
  <2> QED BY <2>3, <2>4
<1>7. Approach'
  BY <1>1, <1>6 DEF Approach
<1> QED BY <1>5, <1>7

\* Every step keeps the distances in bounds.
LEMMA NextIInv == IInv /\ [Next]_vars => IInv'
<1> SUFFICES ASSUME IInv, [Next]_vars PROVE IInv'
  OBVIOUS
<1>1. CASE Round
  BY <1>1, RoundStep
<1>2. CASE ChangePeers
  BY <1>2, ChangeStep
<1>3. CASE UNCHANGED vars
  BY <1>3 DEF vars, IInv, TypeOK, Approach, Distance, Rank, Start
<1> QED BY <1>1, <1>2, <1>3 DEF Next

\* IInv holds in every state of a behaviour.
LEMMA Invariance == Spec => []IInv
<1>1. Init => IInv
  BY InitIInv
<1>2. IInv /\ [Next]_vars => IInv'
  BY NextIInv
<1> QED BY <1>1, <1>2, PTL DEF Spec

-----------------------------------------------------------------------------
(* Theorems *)

\* The rotation keeps its types: the cursor of an earlier, longer list is
\* still a position once it is taken modulo the length of the new one.
THEOREM FanoutTypes == Spec => []TypeOK
<1>1. IInv => TypeOK
  BY DEF IInv
<1> QED BY <1>1, Invariance, PTL

\* IInv bounds the wait of every eligible peer.
LEMMA CoverageFollows == IInv => Coverage
<1> SUFFICES ASSUME IInv, NEW p \in eligible
             PROVE  waited[p] * config.fanout < Cardinality(eligible)
  BY DEF Coverage
<1>1. Distance(p, eligible) \in 0 .. Cardinality(eligible) - 1
  BY DistanceRange DEF IInv, TypeOK
<1>2. Distance(p, eligible) + waited[p] * config.fanout < Cardinality(eligible)
  BY DEF IInv, Approach
<1>3. config.fanout \in Nat /\ waited[p] \in Nat
  BY ValidTypes DEF IInv, TypeOK
<1>4. waited[p] * config.fanout \in Nat
  BY <1>3, SMT
<1>5. Cardinality(eligible) \in Nat
  BY Counted DEF IInv, TypeOK
<1> QED BY <1>1, <1>2, <1>4, <1>5, SMT

\* pickFanoutTargets covers N peers within ceil(N/fanout) rounds, however
\* many peers there are and wherever earlier lists have left the cursor.
THEOREM RotationCovers == Spec => []Coverage
BY Invariance, CoverageFollows, PTL

\* The durations of a validated configuration are ordered, and the dead
\* timeout is the configured one: the minimum of one millisecond, which
\* keeps very short timeouts apart, never comes into play.
LEMMA TimeoutsOrdered ==
  ASSUME NEW c \in Configs, Valid(c)
  PROVE  /\ SuspectTimeout(c) \in Nat
         /\ SuspectTimeout(c) < DeadTimeout(c)
         /\ DeadTimeout(c) = MembershipTimeout(c)
<1> DEFINE t == c.membershipTimeoutMS
           g == ExpectedPeerReceiveGap(c)
           k == RoundsPerCoverage(c)
           i == c.gossipIntervalMS
<1>1. t \in Nat \ {0} /\ i \in Nat \ {0} /\ c.fanout \in Nat \ {0} /\ c.peers \in Nat
  BY ValidTypes
<1>2. SuspectTimeout(c) = Larger(t, 2)
  <2>1. MembershipTimeout(c) = t * 2
    BY DEF MembershipTimeout, Millisecond
  <2>2. (t * 2) \div 2 = t
    BY <1>1, SMT
  <2> QED BY <2>1, <2>2 DEF SuspectTimeout, Millisecond
<1>3. k \in Nat /\ 1 <= k
  <2> DEFINE n == Larger(c.peers, 1)
             f == Larger(c.fanout, 1)
  <2>1. n \in Nat \ {0} /\ f \in Nat \ {0}
    BY <1>1, SMT DEF Larger
  <2>2. k = (n + f - 1) \div f
    BY DEF RoundsPerCoverage
  <2> HIDE DEF n, f
  <2>3. k \in Nat /\ n <= k * f
    BY <2>1, <2>2, Ceiling
  <2>4. k # 0
    <3>1. 0 * f = 0
      BY <2>1, SMT
    <3> HIDE DEF k
    <3> QED BY <2>1, <2>3, <3>1, SMT
  <2> HIDE DEF k
  <2> QED BY <2>3, <2>4, SMT
<1>4. g >= 2
  <2>1. g = i * 2 * k
    BY DEF ExpectedPeerReceiveGap, Millisecond
  <2> HIDE DEF i, k, g
  <2>2. i * 2 \in Nat /\ i * 2 >= 2
    BY <1>1, SMT
  <2>3. 1 * (i * 2) <= k * (i * 2)
    BY <1>3, <2>2, Monotone
  <2>4. k * (i * 2) = i * 2 * k /\ 1 * (i * 2) = i * 2
    BY <1>3, <2>2, SMT
  <2>5. i * 2 * k \in Nat
    BY <1>3, <2>2, SMT
  <2> QED BY <2>1, <2>2, <2>3, <2>4, <2>5, SMT
<1>5. SuspectTimeout(c) > g
  BY DEF Valid
<1>6. g \in Int
  <2>1. g = i * 2 * k
    BY DEF ExpectedPeerReceiveGap, Millisecond
  <2> HIDE DEF i, k, g
  <2> QED BY <1>1, <1>3, <2>1, SMT
<1> HIDE DEF g, k, t, i
<1>7. SuspectTimeout(c) = t /\ t > 2
  BY <1>1, <1>2, <1>4, <1>5, <1>6, SMT DEF Larger
<1>8. DeadTimeout(c) = Larger(t + 2, t * 2) /\ MembershipTimeout(c) = t * 2
  BY <1>7 DEF DeadTimeout, MembershipTimeout, Millisecond, t
<1> QED BY <1>1, <1>7, <1>8, SMT DEF Larger

\* IInv keeps the rotation ahead of the suspicion.
LEMMA GapFollows == IInv => HeartbeatsBeatTimeout
<1> SUFFICES ASSUME IInv PROVE HeartbeatsBeatTimeout
  OBVIOUS
<1>1. config \in Configs /\ Valid(config)
  BY DEF IInv, TypeOK
<1>2. /\ SuspectTimeout(config) \in Nat
      /\ SuspectTimeout(config) < DeadTimeout(config)
      /\ DeadTimeout(config) = MembershipTimeout(config)
  BY <1>1, TimeoutsOrdered
<1>3. ASSUME Cardinality(eligible) <= config.peers, NEW p \in eligible
      PROVE  (waited[p] + 1) * config.gossipIntervalMS * Millisecond < SuspectTimeout(config)
  <2> DEFINE w == waited[p]
             f == config.fanout
             n == Cardinality(eligible)
             i == config.gossipIntervalMS
             k == RoundsPerCoverage(config)
  <2>1. /\ w \in Nat /\ f \in Nat \ {0} /\ i \in Nat \ {0}
        /\ config.peers \in Nat
        /\ n \in Nat /\ n > 0
    BY <1>1, ValidTypes, Counted DEF IInv, TypeOK
  <2>2. w * f < n
    BY CoverageFollows DEF Coverage
  <2>3. k \in Nat /\ config.peers <= k * f
    <3>1. Larger(config.peers, 1) = config.peers /\ Larger(f, 1) = f
      <4> HIDE DEF n
      <4> QED BY <1>3, <2>1, SMT DEF Larger, n
    <3>2. k = (config.peers + f - 1) \div f
      BY <3>1 DEF RoundsPerCoverage
    <3> HIDE DEF k
    <3> QED BY <2>1, <3>2, Ceiling
  <2>4. SuspectTimeout(config) > i * 2 * k
    BY <1>1 DEF Valid, ExpectedPeerReceiveGap, Millisecond
  <2>5. n <= config.peers
    BY <1>3
  <2> HIDE DEF w, f, n, i, k
  <2>6. w * f < k * f
    <3>1. w * f \in Nat /\ k * f \in Nat
      BY <2>1, <2>3, SMT
    <3> QED BY <2>1, <2>2, <2>3, <2>5, <3>1, SMT
  <2>7. w + 1 <= k
    BY <2>1, <2>3, <2>6, NextMultiple
  <2>8. (w + 1) * (i * 2) <= k * (i * 2)
    <3>1. i * 2 \in Nat /\ w + 1 \in Nat
      BY <2>1, SMT
    <3> QED BY <2>3, <2>7, <3>1, Monotone
  <2>9. (w + 1) * i * 2 = (w + 1) * (i * 2) /\ k * (i * 2) = i * 2 * k
    BY <2>1, <2>3, SMT
  <2>10. i * 2 * k \in Nat /\ (w + 1) * i * 2 \in Nat
    BY <2>1, <2>3, SMT
  <2>11. (w + 1) * i * 2 < SuspectTimeout(config)
    BY <1>2, <2>4, <2>8, <2>9, <2>10, SMT
  <2> QED BY <2>11 DEF w, i, Millisecond
<1> QED BY <1>2, <1>3 DEF HeartbeatsBeatTimeout

\* A node that knows no more peers than it was configured with is never
\* suspected for the rotation alone, whatever the validated configuration.
THEOREM NoRotationSuspicion == Spec => []HeartbeatsBeatTimeout
BY Invariance, GapFollows, PTL
=============================================================================
