----------------------------- MODULE StateMerge -----------------------------
(***************************************************************************)
(* The pure part of internal/gossip/state.go: merging the per-node         *)
(* contributions of two replicas, and deriving an estimate from them.      *)
(*                                                                         *)
(* Each of the four aggregations keeps two maps with the same keys,        *)
(* Contributions and Versions.  Here both are total functions over Node,   *)
(* paired in a record; a node whose stamp is NoStamp has no entry.  An     *)
(* average contribution always has count 1, so it is its sum.  Values are  *)
(* integers: equality stands for the 1e-9 tolerance of the code, and       *)
(* saturation is outside this module.                                      *)
(***************************************************************************)
EXTENDS StateVersion, Integers, FiniteSets, FiniteSetsExt

CONSTANT Node

ASSUME NodeAssumption == IsFiniteSet(Node)

Aggregations == {"sum", "average", "min", "max"}

\* The maps of an AggregationState, of the type the node runs.
MapPair == [contributions : [Node -> Int], versions : [Node -> Stamp]]

NoContributions == [j \in Node |-> 0]
NoVersions == [j \in Node |-> NoStamp]

\* The keys of the two maps.
Known(p) == {j \in Node : p.versions[j] # NoStamp}

-----------------------------------------------------------------------------
(* Estimates *)

\* The value derived from the contributions of S; 0 when it has none.
EstimateOver(agg, p, S) ==
  LET keys  == Known(p) \cap S
      total == MapThenSumSet(LAMBDA j : p.contributions[j], keys)
      vals  == {p.contributions[j] : j \in keys}
  IN  CASE keys = {}                        -> 0
        [] keys # {} /\ agg = "sum"         -> total
        [] keys # {} /\ agg = "average"     -> total \div Cardinality(keys)
        [] keys # {} /\ agg = "min"         -> Min(vals)
        [] keys # {} /\ agg = "max"         -> Max(vals)

-----------------------------------------------------------------------------
(* Merge *)

\* Mutant: the contribution is inferred from the estimate even when there is
\* one.
MutMaterialise(p, n, estimate, stamp) ==
  [contributions |-> [p.contributions EXCEPT ![n] = estimate],
   versions      |-> [p.versions EXCEPT ![n] = stamp]]

\* ensureIncoming{Sum,Average,Min,Max}Metadata: a state without a
\* contribution of its own node n gets one, built from its estimate.
Materialise(p, n, estimate, stamp) ==
  IF n \in Known(p) THEN p
  ELSE [contributions |-> [p.contributions EXCEPT ![n] = estimate],
        versions      |-> [p.versions EXCEPT ![n] = stamp]]

\* The local maps as the merge functions first prepare them: min and max
\* materialise the local contribution, unless the state is a blank zero.
LocalForMerge(agg, p, n, estimate, stamp) ==
  IF agg \in {"min", "max"} /\ (Known(p) # {} \/ estimate # 0)
  THEN Materialise(p, n, estimate, stamp)
  ELSE p

\* Tie-break between two contributions with the same stamp.
WinsTie(agg, remote, local) ==
  IF agg = "min" THEN remote < local ELSE remote > local

\* Mutant: any stamp different from the local one replaces it.
MutAcceptsAnyStamp(agg, p, q, j) == j \in Known(q) /\ p.versions[j] # q.versions[j]

\* Mutant: an entry the local map does not have yet is not added.
MutAcceptsKnownOnly(agg, p, q, j) ==
  j \in Known(q) \cap Known(p) /\ Less(p.versions[j], q.versions[j])

\* Whether merging q into p takes j's entry from q.
Accepts(agg, p, q, j) ==
  /\ j \in Known(q)
  /\ \/ Less(p.versions[j], q.versions[j])
     \/ /\ p.versions[j] = q.versions[j]
        /\ WinsTie(agg, q.contributions[j], p.contributions[j])

\* merge{Sum,Average,Min,Max}State: the maps they leave ...
Merge(agg, p, q) ==
  [contributions |-> [j \in Node |-> IF Accepts(agg, p, q, j)
                                     THEN q.contributions[j] ELSE p.contributions[j]],
   versions      |-> [j \in Node |-> IF Accepts(agg, p, q, j)
                                     THEN q.versions[j] ELSE p.versions[j]]]

\* Mutant: an entry that is new to the local map does not count as a change.
MutMergeChanges(agg, p, q) == \E j \in Known(p) : Accepts(agg, p, q, j)

\* ... and their "changed" result.
MergeChanges(agg, p, q) == \E j \in Node : Accepts(agg, p, q, j)

-----------------------------------------------------------------------------
(* The fast paths of applyRemote.  Maps p and estimate v are local, q and  *)
(* w the message's.                                                        *)

\* same{Sum,Average,Min,Max}Payload
samePayload(agg, p, v, q, w) ==
  /\ p = q
  /\ agg \in {"min", "max"} => v = w

\* averageMetadataCompatible and scalarMetadataCompatible
Compatible(p, q) ==
  \A j \in Known(p) \cap Known(q) :
    p.versions[j] = q.versions[j] => p.contributions[j] = q.contributions[j]

\* same{Average,Min,Max}PayloadSemantically; there is none for sum.
samePayloadSemantically(agg, p, v, q, w) ==
  /\ \/ agg = "average" /\ EstimateOver(agg, p, Node) = EstimateOver(agg, q, Node)
     \/ agg \in {"min", "max"} /\ v = w
  /\ Compatible(p, q)
=============================================================================
