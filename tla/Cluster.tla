------------------------------- MODULE Cluster -------------------------------
(***************************************************************************)
(* The two halves of a node put together: the membership protocol of       *)
(* module Membership, step by step, and the estimate of module             *)
(* GossipEngine, reduced to the set of nodes it counts.                    *)
(*                                                                         *)
(* The ticker goroutine and the receive handler of a node work on one Set, *)
(* under the Set's own lock, and on one State, under the engine's.  Each   *)
(* takes a snapshot of the Set and only then the engine's lock, so either  *)
(* may write an estimate made from a membership that the other has already *)
(* changed.                                                                *)
(***************************************************************************)
EXTENDS Membership

CONSTANT Leavers    \* the nodes that may announce a voluntary leave

VARIABLES
  known,      \* known[n][j]: the generation of j's contribution at n, 0 if none
  counted,    \* the nodes whose contributions n's estimate is made of
  sending,    \* the snapshot of a round that has not taken the lock yet
  handling    \* the datagram or the snapshot the handler is working on

engineVars == <<known, counted, sending, handling>>

clusterVars == <<vars, engineVars>>

NoRound == <<>>

Idle == [stage |-> "idle"]

\* State merged, membership not yet.
Merged(m) == [stage |-> "merged", msg |-> m]

\* Snapshot taken, estimate not yet recalculated.
Viewed(S) == [stage |-> "viewed", eligible |-> S]

Known(n) == {j \in Node : known[n][j] # 0}

\* eligibleNodeIDs: a placeholder is no logical node ID.
Eligible(n, peers) ==
  {j \in Node : \/ peers[j].peers["canonical"].status = "alive"
                \/ j = n /\ peers[j].peers["canonical"] = Absent}

ClusterInit ==
  /\ Init
  /\ known = [n \in Node |-> [j \in Node |-> 0]]
  /\ counted = [n \in Node |-> {}]
  /\ sending = [n \in Node |-> NoRound]
  /\ handling = [n \in Node |-> Idle]

\* Mutant: a new process starts from the estimate of the one before.
MutReset(n, S) ==
  /\ known' = [known EXCEPT ![n] = [j \in Node |-> 0]]
  /\ sending' = [sending EXCEPT ![n] = NoRound]
  /\ handling' = [handling EXCEPT ![n] = Idle]
  /\ UNCHANGED counted

\* A new process, or none: nothing is counted but, once up, the node itself.
Reset(n, S) ==
  /\ known' = [known EXCEPT ![n] = [j \in Node |-> 0]]
  /\ counted' = [counted EXCEPT ![n] = S]
  /\ sending' = [sending EXCEPT ![n] = NoRound]
  /\ handling' = [handling EXCEPT ![n] = Idle]

BootNode(n) == Boot(n) /\ Reset(n, {n})

StopNode(n) == Stop(n) /\ Reset(n, {})

-----------------------------------------------------------------------------
(* Rounds *)

\* The datagrams of n for the peers of S, from the snapshot peers.
SendKnown(n, peers, S) ==
  /\ S \subseteq Targets(n, peers)
  /\ msgs' = msgs \cup {[from |-> n, to |-> j, age |-> 0, digest |-> Digest(peers),
                         known |-> known'[n]] : j \in S}
  /\ S = {} \/ Cardinality(msgs') <= MaxInFlight[n]

\* Engine.round up to the snapshot: expire and prune.
StartRound(n) ==
  /\ Running(n)
  /\ sending[n] = NoRound
  /\ slots' = [slots EXCEPT ![n] = [j \in Node |->
                 IF j = n THEN @[j] ELSE Prune(ApplyTimeoutTransitions(@[j]))]]
  /\ sending' = [sending EXCEPT ![n] = slots'[n]]
  /\ UNCHANGED <<status, generation, msgs, known, counted, handling>>

\* Mutant: a round counts every contribution it knows.
MutCountsAll(n, peers, k) == {j \in Node : k[j] # 0}

\* Mutant: a round drops nodes from the estimate and adds none.
MutNeverAdds(n, peers, k) == counted[n] \cap Eligible(n, peers)

\* prepareLocalStateForRound: the eligible nodes whose contribution is known.
CountedInRound(n, peers, k) == Eligible(n, peers) \cap {j \in Node : k[j] # 0}

\* The rest of Engine.round: publish the node's contribution with the
\* estimate and the digest of the snapshot.
FinishRound(n) ==
  /\ sending[n] # NoRound
  /\ known' = [known EXCEPT ![n][n] = generation[n]]
  /\ counted' = [counted EXCEPT ![n] = CountedInRound(n, sending[n], known'[n])]
  /\ \E S \in SUBSET Node : SendKnown(n, sending[n], S)
  /\ sending' = [sending EXCEPT ![n] = NoRound]
  /\ UNCHANGED <<status, generation, slots, handling>>

\* Engine.AnnounceLeave, beside a round and a handler that may be under way.
LeaveNode(n) ==
  /\ n \in Leavers
  /\ status[n] = "up"
  /\ status' = [status EXCEPT ![n] = "leaving"]
  /\ slots' = [slots EXCEPT ![n][n] = LeaveAt(@)]
  /\ UNCHANGED <<generation, engineVars>>
  /\ \E S \in SUBSET Node : SendKnown(n, slots'[n], S)

-----------------------------------------------------------------------------
(* The handler *)

Newest(a, b) == IF a < b THEN b ELSE a

\* applyRemote, under the engine's lock: a merge that takes something counts
\* every contribution it knows.  It may also take nothing: the datagram may be
\* stale, also when its sender restarted after it, or the states may count as
\* equivalent; this depends on the versions, which are left to GossipEngine.
MergeState(n, m) ==
  /\ Running(n)
  /\ handling[n] = Idle
  /\ m.to = n
  /\ \/ /\ known' = [known EXCEPT ![n] = [j \in Node |-> Newest(@[j], m.known[j])]]
        /\ counted' = [counted EXCEPT ![n] = {j \in Node : known'[n][j] # 0}]
     \/ UNCHANGED <<known, counted>>
  /\ handling' = [handling EXCEPT ![n] = Merged(m)]
  /\ UNCHANGED <<status, generation, slots, msgs, sending>>

\* markPeerAlive, mergeMembership and the snapshot.
MergeMembership(n) ==
  /\ handling[n].stage = "merged"
  /\ Receive(n, handling[n].msg)
  /\ handling' = [handling EXCEPT ![n] = Viewed(Eligible(n, slots'[n]))]
  /\ UNCHANGED <<known, counted, sending>>

\* recalculateStateForMembership, which keeps the estimate of a node that
\* knows no contribution.
Recalculation(n) ==
  IF Known(n) = {} THEN counted[n] ELSE handling[n].eligible \cap Known(n)

Recalculate(n) ==
  /\ handling[n].stage = "viewed"
  /\ counted' = [counted EXCEPT ![n] = Recalculation(n)]
  /\ handling' = [handling EXCEPT ![n] = Idle]
  /\ UNCHANGED <<vars, known, sending>>

-----------------------------------------------------------------------------
(* Specification *)

LoseDatagram(m) == Lose(m) /\ UNCHANGED engineVars

\* Time passes for what a round or a handler holds as well.
TickAll ==
  /\ Tick
  /\ sending' = [n \in Node |-> IF sending[n] = NoRound THEN NoRound
                                ELSE [j \in Node |-> AgedSlot(sending[n][j])]]
  /\ handling' = [n \in Node |-> IF handling[n].stage = "merged"
                                 THEN Merged(AgedMessage(handling[n].msg))
                                 ELSE handling[n]]
  /\ UNCHANGED <<known, counted>>

HandlerStep(n) == MergeMembership(n) \/ Recalculate(n)

RoundStep(n) == StartRound(n) \/ FinishRound(n)

ClusterNext ==
  \/ \E n \in Node : BootNode(n) \/ StopNode(n) \/ LeaveNode(n) \/ RoundStep(n) \/ HandlerStep(n)
  \/ \E m \in msgs : MergeState(m.to, m) \/ LoseDatagram(m)
  \/ TickAll

\* The ticker and the handler go on; nothing need be delivered.
ClusterSpec ==
  /\ ClusterInit
  /\ [][ClusterNext]_clusterVars
  /\ \A n \in Node : WF_clusterVars(RoundStep(n)) /\ WF_clusterVars(HandlerStep(n))

-----------------------------------------------------------------------------
(* Properties *)

\* The estimates count nodes, from contributions that exist.
ClusterTypeOK ==
  /\ known \in [Node -> [Node -> Nat]]
  /\ \A n \in Node : counted[n] \subseteq Known(n) \cup {n}
  /\ \A n, j \in Node : known[n][j] <= generation[j]
  /\ \A n \in Node : handling[n].stage \in {"idle", "merged", "viewed"}
  /\ \A n \in Node : sending[n] # NoRound => sending[n] \in [Node -> Slots]

\* What anybody may see of the estimate of n: between its two critical
\* sections the handler may have counted a node it is about to drop.
Exposed(n) == IF handling[n] = Idle THEN counted[n] ELSE {}

\* Time never stops.  Rounds need not keep up with it.
ClockRuns == WF_clusterVars(TickAll)

Up(n) == status[n] = "up"

\* "Value rappresenta solo i nodi Alive": a node that is down for good is
\* in the end neither held alive or suspect nor counted in an estimate that
\* a running node exposes, though its contribution stays known, datagrams
\* of its last boot are delivered over and over, and stale snapshots
\* overwrite newer estimates.
DeadForgotten ==
  ClockRuns => \A i \in Node : \A j \in Node \ {i} :
    <>[](Up(i) /\ status[j] = "down") => <>[](~ Sees(i, j) /\ j \notin Exposed(i))

\* A node that stays alive in the view of a running node that knows its
\* contribution is in the end counted in every estimate it exposes.
AliveCounted ==
  \A i \in Node : \A j \in Node \ {i} :
    <>[](Up(i) /\ j \in Eligible(i, slots[i]) \cap Known(i)) =>
      <>[](handling[i] = Idle => j \in counted[i])
=============================================================================
