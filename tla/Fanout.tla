------------------------------- MODULE Fanout -------------------------------
(***************************************************************************)
(* Who is gossiped to, and how long the others wait: the deterministic     *)
(* fanout rotation of internal/gossip/engine.go, under the configurations  *)
(* that internal/config/config.go lets a node start with.                  *)
(*                                                                         *)
(* Each round sends to a window of the eligible peers, in the order of     *)
(* their sort keys, and moves the window on.  The rotation only knows a    *)
(* position, and the list under it changes with the membership.            *)
(*                                                                         *)
(* A peer is identified with its sort key, a natural number here.  Times   *)
(* are in half milliseconds, so that half of a timeout is a whole number.  *)
(***************************************************************************)
EXTENDS Integers, FiniteSets

CONSTANTS
  Peer,      \* the peers that may ever be known, by fanoutPeerSortKey
  Configs    \* the configurations a node may be given

ASSUME PeerAssumption == Peer \subseteq Nat /\ IsFiniteSet(Peer)

ASSUME ConfigsAssumption ==
  Configs \subseteq [gossipIntervalMS : Int, fanout : Int, membershipTimeoutMS : Int,
                     peers : Nat]

VARIABLES
  config,     \* the node's configuration; peers counts its DiscoveryPeers
  eligible,   \* the peers a round may send to
  cursor,     \* fanoutCursor
  waited      \* rounds since the peer was last served or the list last changed

vars == <<config, eligible, cursor, waited>>

-----------------------------------------------------------------------------
(* Durations derived from the configuration *)

Millisecond == 2

\* The larger of two numbers.
Larger(a, b) == IF a < b THEN b ELSE a

MembershipTimeout(c) == c.membershipTimeoutMS * Millisecond

SuspectTimeout(c) == Larger(MembershipTimeout(c) \div 2, Millisecond)

DeadTimeout(c) == Larger(SuspectTimeout(c) + Millisecond, MembershipTimeout(c))

\* Mutant: the rounds of a coverage are rounded down.
MutRoundsPerCoverage(c) == Larger(Larger(c.peers, 1) \div Larger(c.fanout, 1), 1)

RoundsPerCoverage(c) ==
  (Larger(c.peers, 1) + Larger(c.fanout, 1) - 1) \div Larger(c.fanout, 1)

ExpectedPeerReceiveGap(c) == c.gossipIntervalMS * Millisecond * RoundsPerCoverage(c)

\* Validate, the fields that concern the rounds: no node starts otherwise.
Valid(c) ==
  /\ c.gossipIntervalMS > 0
  /\ c.fanout > 0
  /\ c.membershipTimeoutMS > 0
  /\ SuspectTimeout(c) > ExpectedPeerReceiveGap(c)

-----------------------------------------------------------------------------
(* The rotation *)

\* The position of p in the sorted list.
Rank(p, S) == Cardinality({q \in S : q < p})

Start(S) == cursor % Cardinality(S)

\* How many positions the window must move before it begins at p.
Distance(p, S) ==
  IF Rank(p, S) >= Start(S) THEN Rank(p, S) - Start(S)
  ELSE Rank(p, S) - Start(S) + Cardinality(S)

AllFit(S) == config.fanout >= Cardinality(S)

Selected(S) ==
  {p \in S : AllFit(S) \/ Distance(p, S) < config.fanout}

\* Mutant: the window moves by one peer.
MutNextCursor(S) == IF AllFit(S) THEN 0 ELSE (Start(S) + 1) % Cardinality(S)

NextCursor(S) == IF AllFit(S) THEN 0 ELSE (Start(S) + config.fanout) % Cardinality(S)

Init ==
  /\ config \in {c \in Configs : Valid(c)}
  /\ eligible = {}
  /\ cursor = 0
  /\ waited = [p \in Peer |-> 0]

\* pickFanoutTargets, once per round.
Round ==
  /\ cursor' = NextCursor(eligible)
  /\ waited' = [p \in Peer |-> IF p \in eligible \ Selected(eligible) THEN waited[p] + 1 ELSE 0]
  /\ UNCHANGED <<config, eligible>>

\* The membership changes between two rounds; the cursor stays.
ChangePeers ==
  /\ eligible' \in SUBSET Peer \ {eligible}
  /\ waited' = [p \in Peer |-> 0]
  /\ UNCHANGED <<config, cursor>>

Next == Round \/ ChangePeers

Spec == Init /\ [][Next]_vars

-----------------------------------------------------------------------------
(* Properties *)

TypeOK ==
  /\ config \in {c \in Configs : Valid(c)}
  /\ eligible \subseteq Peer
  /\ cursor \in Nat
  /\ waited \in [Peer -> Nat]

\* "N peer siano coperti entro ceil(N/fanout) round quando la membership
\* resta stabile": from whatever position the cursor has been left in by
\* earlier lists, no peer is passed over ceil(N/fanout) times in a row.
Coverage == \A p \in eligible : waited[p] * config.fanout < Cardinality(eligible)

\* A validated configuration does not suspect a live peer for the rotation
\* alone: when a node knows no more peers than it was configured with, the
\* rounds between two datagrams to a peer take less than the time after
\* which that peer suspects it, which is less than the configured timeout.
HeartbeatsBeatTimeout ==
  /\ Cardinality(eligible) <= config.peers =>
       \A p \in eligible :
         (waited[p] + 1) * config.gossipIntervalMS * Millisecond < SuspectTimeout(config)
  /\ SuspectTimeout(config) < DeadTimeout(config)
  /\ DeadTimeout(config) = MembershipTimeout(config)
=============================================================================
