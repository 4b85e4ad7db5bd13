---------------------------- MODULE GossipEngine ----------------------------
(***************************************************************************)
(* Replication of the aggregate (internal/gossip/engine.go, state.go).     *)
(*                                                                         *)
(* A node publishes its contribution and everything it has merged in one   *)
(* datagram per round.  A receiver merges it under the engine's mutex,     *)
(* updates its membership outside the mutex, then takes the mutex again to *)
(* recompute the estimate over the members it now believes alive.  The     *)
(* rounds, the receive handler and the leave announcement of one node run  *)
(* on three goroutines.  Datagrams may be lost, duplicated, delayed and    *)
(* reordered: msgs only grows, and a message in it may be received any     *)
(* number of times, or never.  A node may crash at any moment; only its    *)
(* generation survives.                                                    *)
(*                                                                         *)
(* A node's membership enters only as the set of nodes that its snapshot   *)
(* makes eligible: any member of Views.                                    *)
(***************************************************************************)
EXTENDS StateMerge

CONSTANTS
  Configs,    \* Configs[n]: the [aggregation, initialValue] n may boot with
  Views,      \* the sets of peers a membership snapshot may hold eligible
  Leavers,    \* the nodes that may announce a voluntary leave
  MaxBoots,   \* bound: boots of each node
  MaxSends    \* bound: datagrams each node sends in one boot

ASSUME ConfigsAssumption ==
  \A n \in Node : Configs[n] \subseteq [aggregation : Aggregations, initialValue : Int]

ASSUME BoundsAssumption == \A n \in Node : MaxBoots[n] \in Nat /\ MaxSends[n] \in Nat

VARIABLES
  status,         \* the process: "down", "up", or "leaving" after AnnounceLeave
  epoch,          \* VersionEpoch, the durable generation
  counter,        \* VersionCounter; State.Round moves in step with it
  aggregation,    \* AggregationType
  localValue,     \* LocalValue, seeded at boot
  value,          \* Value, the estimate the node exposes
  contributions,  \* AggregationData.<type>.Contributions
  versions,       \* AggregationData.<type>.Versions
  seen,           \* SeenMessageIDs
  lastSeen,       \* LastSeenVersionByNode; NoStamp when absent
  handling,       \* the handler is between its two critical sections
  msgs            \* every datagram ever sent

vars == <<status, epoch, counter, aggregation, localValue, value, contributions,
          versions, seen, lastSeen, handling, msgs>>

Running(n) == status[n] # "down"

\* The local maps of n, and those of a message once its origin's own
\* contribution is materialised.
LocalMaps(n) == [contributions |-> contributions[n], versions |-> versions[n]]

Incoming(m) ==
  Materialise([contributions |-> m.contributions, versions |-> m.versions],
              m.origin, m.value, m.version)

\* normalizeVersion(e.State): the stamp of the node's own state ...
LocalVersion(n) == [epoch |-> epoch[n], counter |-> counter[n]]

\* Mutant: the stamp before the local one, which wraps at zero.
MutNextVersion(n) == [epoch |-> epoch[n], counter |-> counter[n] - 1]

\* ... and the one a round or a leave moves it to.
NextVersion(n) == [epoch |-> epoch[n], counter |-> counter[n] + 1]

\* A MessageID is made of the node, the counter and the clock.  A node
\* sends a stamp at most once, so the stamp identifies the message.
MessageID(m) == <<m.origin, m.version>>

\* eligibleNodeIDs: the local node is eligible until it has left; a round
\* that took its snapshot before the leave still counts it.
EligibleViews(n) ==
  {v \cup {n} : v \in Views} \cup
    (IF status[n] = "leaving" THEN {v \ {n} : v \in Views} ELSE {})

-----------------------------------------------------------------------------
(* Process life cycle *)

Init ==
  /\ status = [n \in Node |-> "down"]
  /\ epoch = [n \in Node |-> 0]
  /\ counter = [n \in Node |-> 0]
  /\ aggregation = [n \in Node |-> "sum"]
  /\ localValue = [n \in Node |-> 0]
  /\ value = [n \in Node |-> 0]
  /\ contributions = [n \in Node |-> NoContributions]
  /\ versions = [n \in Node |-> NoVersions]
  /\ seen = [n \in Node |-> {}]
  /\ lastSeen = [n \in Node |-> NoVersions]
  /\ handling = [n \in Node |-> FALSE]
  /\ msgs = {}

\* NewEngine and SetGeneration: nothing of the previous boot is in memory.
FreshState(n) ==
  /\ counter' = [counter EXCEPT ![n] = 0]
  /\ contributions' = [contributions EXCEPT ![n] = NoContributions]
  /\ versions' = [versions EXCEPT ![n] = NoVersions]
  /\ seen' = [seen EXCEPT ![n] = {}]
  /\ lastSeen' = [lastSeen EXCEPT ![n] = NoVersions]
  /\ handling' = [handling EXCEPT ![n] = FALSE]

SeedValues(n, agg, v) ==
  /\ aggregation' = [aggregation EXCEPT ![n] = agg]
  /\ localValue' = [localValue EXCEPT ![n] = v]
  /\ value' = [value EXCEPT ![n] = v]

\* Mutant: a restart that reuses the generation of the previous boot.
MutBoot(n) ==
  /\ status[n] = "down"
  /\ status' = [status EXCEPT ![n] = "up"]
  /\ epoch' = [epoch EXCEPT ![n] = 1]
  /\ \E c \in Configs[n] : SeedValues(n, c.aggregation, c.initialValue)
  /\ FreshState(n)
  /\ UNCHANGED msgs

\* main: allocate a generation, build the engine, seed its values from the
\* configuration, start the transport and the gossip loop.
Boot(n) ==
  /\ status[n] = "down"
  /\ epoch[n] < MaxBoots[n]
  /\ status' = [status EXCEPT ![n] = "up"]
  /\ epoch' = [epoch EXCEPT ![n] = @ + 1]
  /\ \E c \in Configs[n] : SeedValues(n, c.aggregation, c.initialValue)
  /\ FreshState(n)
  /\ UNCHANGED msgs

\* A crash, or the end of the process after a leave.
Stop(n) ==
  /\ Running(n)
  /\ status' = [status EXCEPT ![n] = "down"]
  /\ SeedValues(n, "sum", 0)
  /\ FreshState(n)
  /\ UNCHANGED <<epoch, msgs>>

-----------------------------------------------------------------------------
(* Sending *)

Sent(n) == {m \in msgs : m.origin = n /\ m.version.epoch = epoch[n]}

CanSend(n) == Running(n) /\ Cardinality(Sent(n)) < MaxSends[n]

\* The datagram of a round or a leave carries the state after the step.
Publish(n) ==
  msgs' = msgs \cup {[origin        |-> n,
                      version       |-> NextVersion(n),
                      aggregation   |-> aggregation[n],
                      value         |-> value'[n],
                      contributions |-> contributions'[n],
                      versions      |-> versions'[n]]}

\* Mutant: the estimate is published as the local contribution.
MutOwnContribution(n) == value[n]

\* The contribution a round publishes for the local node: the recorded
\* one, else the value seeded at boot, else, when that is zero, the estimate.
OwnContribution(n) ==
  CASE n \in Known(LocalMaps(n))                            -> contributions[n][n]
    [] n \notin Known(LocalMaps(n)) /\ localValue[n] = 0    -> value[n]
    [] n \notin Known(LocalMaps(n)) /\ localValue[n] # 0    -> localValue[n]

\* Engine.round: advance the counter, re-stamp the local contribution,
\* derive the estimate over the eligible members, publish.
Round(n) ==
  /\ CanSend(n)
  /\ counter' = [counter EXCEPT ![n] = @ + 1]
  /\ contributions' = [contributions EXCEPT ![n][n] = OwnContribution(n)]
  /\ versions' = [versions EXCEPT ![n][n] = NextVersion(n)]
  /\ \E view \in EligibleViews(n) :
       value' = [value EXCEPT ![n] =
                   EstimateOver(aggregation[n],
                     [contributions |-> contributions'[n], versions |-> versions'[n]], view)]
  /\ localValue' = IF aggregation[n] \in {"sum", "average"} /\ n \notin Known(LocalMaps(n))
                   THEN [localValue EXCEPT ![n] = OwnContribution(n)]
                   ELSE localValue
  /\ Publish(n)
  /\ UNCHANGED <<status, epoch, aggregation, seen, lastSeen, handling>>

\* Engine.AnnounceLeave: publish the state as it stands, under a new stamp.
AnnounceLeave(n) ==
  /\ n \in Leavers
  /\ status[n] = "up"
  /\ CanSend(n)
  /\ status' = [status EXCEPT ![n] = "leaving"]
  /\ counter' = [counter EXCEPT ![n] = @ + 1]
  /\ UNCHANGED <<epoch, aggregation, localValue, value, contributions, versions,
                 seen, lastSeen, handling>>
  /\ Publish(n)

-----------------------------------------------------------------------------
(* Receiving: applyRemote, the handler's first critical section *)

Receives(n, m) == Running(n) /\ ~ handling[n] /\ m \in msgs

Ignored(n, m) == m.origin = n \/ MessageID(m) \in seen[n]

Mismatched(n, m) == m.aggregation # aggregation[n]

\* Mutant: staleness judged against the receiver's own state version.
MutStale(n, m) == Less(m.version, LocalVersion(n))

Stale(n, m) == Less(m.version, lastSeen[n][m.origin])

\* The receiver's own state version equals the message's and the payloads
\* agree, exactly or "semantically".
Equivalent(n, m) ==
  /\ m.version = LocalVersion(n)
  /\ \/ samePayload(aggregation[n], LocalMaps(n), value[n], Incoming(m), m.value)
     \/ samePayloadSemantically(aggregation[n], LocalMaps(n), value[n], Incoming(m), m.value)

MarkSeen(n, m) == seen' = [seen EXCEPT ![n] = @ \cup {MessageID(m)}]

MarkLastSeen(n, m) ==
  lastSeen' = [lastSeen EXCEPT ![n][m.origin] = maxVersion(@, m.version)]

StartHandling(n) == handling' = [handling EXCEPT ![n] = TRUE]

\* self_origin_noop, duplicate_message_id
IgnoreMessage(n, m) ==
  /\ Receives(n, m)
  /\ Ignored(n, m)
  /\ StartHandling(n)
  /\ UNCHANGED <<status, epoch, counter, aggregation, localValue, value,
                 contributions, versions, seen, lastSeen, msgs>>

\* aggregation_type_mismatch, out_of_order_stale
DropMessage(n, m) ==
  /\ Receives(n, m)
  /\ ~ Ignored(n, m)
  /\ Mismatched(n, m) \/ Stale(n, m)
  /\ MarkSeen(n, m)
  /\ StartHandling(n)
  /\ UNCHANGED <<status, epoch, counter, aggregation, localValue, value,
                 contributions, versions, lastSeen, msgs>>

\* same_version_same_payload, same_version_semantically_equivalent
SkipEquivalent(n, m) ==
  /\ Receives(n, m)
  /\ ~ Ignored(n, m) /\ ~ Mismatched(n, m) /\ ~ Stale(n, m)
  /\ Equivalent(n, m)
  /\ MarkSeen(n, m)
  /\ MarkLastSeen(n, m)
  /\ StartHandling(n)
  /\ UNCHANGED <<status, epoch, counter, aggregation, localValue, value,
                 contributions, versions, msgs>>

\* The per-node merge.  A merge that takes nothing keeps the estimate,
\* though the maps may have gained the materialised local contribution.
MergeRemote(n, m) ==
  LET agg    == aggregation[n]
      local  == LocalForMerge(agg, LocalMaps(n), n, value[n], LocalVersion(n))
      merged == Merge(agg, local, Incoming(m))
  IN  /\ Receives(n, m)
      /\ ~ Ignored(n, m) /\ ~ Mismatched(n, m) /\ ~ Stale(n, m)
      /\ ~ Equivalent(n, m)
      /\ MarkSeen(n, m)
      /\ MarkLastSeen(n, m)
      /\ contributions' = [contributions EXCEPT ![n] = merged.contributions]
      /\ versions' = [versions EXCEPT ![n] = merged.versions]
      /\ IF MergeChanges(agg, local, Incoming(m))
         THEN /\ value' = [value EXCEPT ![n] = EstimateOver(agg, merged, Node)]
              /\ counter' = [counter EXCEPT ![n] = maxCounter(@, m.version.counter) + 1]
         ELSE UNCHANGED <<value, counter>>
      /\ StartHandling(n)
      /\ UNCHANGED <<status, epoch, aggregation, localValue, msgs>>

\* Mutant: the estimate of the merge, over all contributors, is left.
MutRecalculate(n) ==
  /\ Running(n)
  /\ handling[n]
  /\ handling' = [handling EXCEPT ![n] = FALSE]
  /\ UNCHANGED <<status, epoch, counter, aggregation, localValue, value, contributions,
                 versions, seen, lastSeen, msgs>>

\* The second critical section: recalculateStateForMembership.
Recalculate(n) ==
  /\ Running(n)
  /\ handling[n]
  /\ handling' = [handling EXCEPT ![n] = FALSE]
  /\ \E view \in EligibleViews(n) :
       value' = IF Known(LocalMaps(n)) = {} THEN value
                ELSE [value EXCEPT ![n] = EstimateOver(aggregation[n], LocalMaps(n), view)]
  /\ UNCHANGED <<status, epoch, counter, aggregation, localValue, contributions,
                 versions, seen, lastSeen, msgs>>

-----------------------------------------------------------------------------
(* Specifications *)

Receive(n, m) ==
  \/ IgnoreMessage(n, m)
  \/ DropMessage(n, m)
  \/ SkipEquivalent(n, m)
  \/ MergeRemote(n, m)

NodeStep(n) ==
  \/ Boot(n)
  \/ Stop(n)
  \/ Round(n)
  \/ AnnounceLeave(n)
  \/ Recalculate(n)
  \/ \E m \in msgs : Receive(n, m)

Next == \E n \in Node : NodeStep(n)

Spec == Init /\ [][Next]_vars

\* The newest datagram of each origin stands for "delivery ripetuta": all
\* the others may be lost, but a receiver that keeps reading its socket
\* eventually gets that one.  Stopping and leaving are never forced.
ReceiveLatest(n) ==
  \E m \in msgs :
    /\ \A x \in msgs : x.origin = m.origin => AtMost(x.version, m.version)
    /\ ~ Ignored(n, m)
    /\ Receive(n, m)

Fairness ==
  \A n \in Node : /\ WF_vars(Boot(n))
                  /\ WF_vars(Round(n))
                  /\ WF_vars(Recalculate(n))
                  /\ SF_vars(ReceiveLatest(n))

FairSpec == Spec /\ Fairness

-----------------------------------------------------------------------------
(* Properties *)

Message == [origin : Node, version : Stamp, aggregation : Aggregations, value : Int,
            contributions : [Node -> Int], versions : [Node -> Stamp]]

\* The part of the type invariant that the ordering of stamps rests on.
StampTypeOK ==
  /\ status \in [Node -> {"down", "up", "leaving"}]
  /\ epoch \in [Node -> Nat]
  /\ counter \in [Node -> Nat]
  /\ versions \in [Node -> [Node -> Stamp]]
  /\ lastSeen \in [Node -> [Node -> Stamp]]
  /\ \A m \in msgs : /\ m.origin \in Node
                     /\ m.version \in Stamp
                     /\ m.versions \in [Node -> Stamp]

\* Every variable keeps the type of the Go field it stands for.
TypeOK ==
  /\ StampTypeOK
  /\ aggregation \in [Node -> Aggregations]
  /\ localValue \in [Node -> Int]
  /\ value \in [Node -> Int]
  /\ contributions \in [Node -> [Node -> Int]]
  /\ seen \in [Node -> SUBSET (Node \X Stamp)]
  /\ handling \in [Node -> BOOLEAN]
  /\ msgs \subseteq Message

\* Node j has already reached stamp s: an earlier boot, or this one up to
\* its current counter.
Reached(j, s) ==
  \/ s.epoch < epoch[j]
  \/ s.epoch = epoch[j] /\ (status[j] = "down" \/ s.counter <= counter[j])

\* No replica and no datagram in flight ever holds a stamp of node j that j
\* itself has not reached, through any sequence of crashes, restarts,
\* duplicates and reorderings: so a node's next round always supersedes
\* every copy of its contribution, which is what lets a rejoin prevail.
OwnVersionDominates ==
  /\ \A i, j \in Node : Reached(j, versions[i][j]) /\ Reached(j, lastSeen[i][j])
  /\ \A m \in msgs : /\ Reached(m.origin, m.version)
                     /\ \A j \in Node : Reached(j, m.versions[j])

\* While a node runs, the stamp it holds for any contributor, and the last
\* stamp it has seen from any origin, never go back, in whatever order the
\* datagrams of the different boots of that contributor arrive.
VersionsMonotone ==
  [][\A i, j \in Node :
       Running(i) /\ Running(i)' => /\ AtMost(versions[i][j], versions'[i][j])
                                    /\ AtMost(lastSeen[i][j], lastSeen'[i][j])]_vars

\* The maps of the replicas and of the datagrams of one aggregation type.
Replicas(agg) ==
  {LocalMaps(i) : i \in {k \in Node : Running(k) /\ aggregation[k] = agg}} \cup
  {Incoming(m) : m \in {x \in msgs : x.aggregation = agg}}

\* Two copies of a contribution with the same stamp have the same value,
\* wherever they are: the tie-break of the merge, kept for "legacy or
\* corrupt" payloads, never decides between correct nodes.
StampIdentifiesContribution ==
  \A agg \in Aggregations : \A p, q \in Replicas(agg) : Compatible(p, q)

\* A node that sums loses nothing by discarding a datagram as
\* out_of_order_stale, or never receiving it, once it has processed a newer
\* one of the same boot: it has every entry of it at least as new.  Nothing
\* of the kind is claimed for the other aggregations, which skip a datagram
\* of their own stamp and estimate whatever its map holds, and still take
\* its stamp as the last one seen.
SumStaleDropLossless ==
  \A n \in Node : \A m \in msgs :
    /\ Running(n) /\ aggregation[n] = "sum" /\ ~ Mismatched(n, m) /\ m.origin # n
    /\ m.version.epoch = lastSeen[n][m.origin].epoch
    /\ AtMost(m.version, lastSeen[n][m.origin])
    => \A j \in Node : AtMost(Incoming(m).versions[j], versions[n][j])

\* Every copy of a node's contribution is a value that node was configured
\* with for that aggregation: estimates are never fed back as contributions
\* and the contributions of different aggregations never mix.
ContributionIsConfigured ==
  \A agg \in Aggregations : \A p \in Replicas(agg) : \A j \in Known(p) :
    [aggregation |-> agg, initialValue |-> p.contributions[j]] \in Configs[j]

\* A datagram dropped as out_of_order_stale had nothing to add (sum).
StaleDatagramAddsNothing ==
  \A n \in Node : \A m \in msgs :
    /\ Running(n) /\ aggregation[n] = "sum" /\ ~ Mismatched(n, m) /\ ~ Ignored(n, m)
    /\ Stale(n, m)
    => \A j \in Node : AtMost(Incoming(m).versions[j], versions[n][j])

\* All nodes run, with one aggregation.
Stable ==
  \A n \in Node : Running(n) /\ \A k \in Node : aggregation[k] = aggregation[n]

\* Every node exposes the aggregate of the values all nodes booted with.
Converged ==
  \A n \in Node :
    value[n] = EstimateOver(aggregation[n],
                 [contributions |-> localValue,
                  versions      |-> [j \in Node |-> LocalVersion(j)]], Node)

\* The estimate a node exposes always follows from the contributions it holds
\* and a view of its membership, in every interleaving of rounds, merges,
\* recalculations and leaves: no fast path leaves an estimate behind of
\* contributions that have been replaced since.
EstimateIsCurrent ==
  \A n \in Node :
    Running(n) /\ ~ handling[n] /\ Known(LocalMaps(n)) # {} =>
      \E view \in EligibleViews(n) :
        value[n] = EstimateOver(aggregation[n], LocalMaps(n), view)

\* Every node has heard, directly or through others, of every node.
Complete == \A n \in Node : Known(LocalMaps(n)) = Node

\* Nodes that have heard of each other expose the true aggregate, whatever
\* they heard first and from which boots, even between the two critical
\* sections of a handler; what convergence waits for is only that they do.
CompleteIsConverged == Stable /\ Complete => Converged

\* Once crashes stop, every node eventually exposes the true aggregate and
\* keeps it, whatever was lost, duplicated or reordered before.
EstimatesConverge == <>[]Stable => <>[]Converged
=============================================================================
