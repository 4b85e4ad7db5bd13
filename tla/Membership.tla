----------------------------- MODULE Membership -----------------------------
(***************************************************************************)
(* The membership protocol: what the nodes' Sets (internal/membership) do  *)
(* to one another through the digests of internal/gossip/engine.go.        *)
(*                                                                         *)
(* At each round a node expires silent peers, prunes old tombstones and    *)
(* sends a digest of its Set to peers it does not hold dead or left.  A    *)
(* receiver takes the datagram as a heartbeat of its origin, then merges   *)
(* the digest.  The network may lose, duplicate, delay and reorder.  Nodes *)
(* crash, leave and restart; their generations survive.  All clocks run at *)
(* the same speed and agree, but nothing bounds the time a step takes.     *)
(***************************************************************************)
EXTENDS MembershipSet, FiniteSets

CONSTANTS
  Node,
  Seeds,         \* Seeds[n]: the nodes whose endpoints are n's discovery peers
  MaxBoots,      \* bound: boots of each node
  MaxInFlight    \* bound: datagrams in flight when n has sent; any more are lost

ASSUME MembershipAssumption ==
  \A n \in Node : /\ Seeds[n] \subseteq Node
                  /\ MaxBoots[n] \in Nat
                  /\ MaxInFlight[n] \in Nat

VARIABLES
  status,       \* the process: "down", "up", or "leaving" after AnnounceLeave
  generation,   \* the durable generation, the incarnation of the node
  slots,        \* slots[i][j]: what i's Set holds about j
  msgs          \* datagrams in flight: their digest and the age of SentAt

vars == <<status, generation, slots, msgs>>

Running(n) == status[n] # "down"

EmptySet == [j \in Node |-> EmptySlot]

Init ==
  /\ status = [n \in Node |-> "down"]
  /\ generation = [n \in Node |-> 0]
  /\ slots = [n \in Node |-> EmptySet]
  /\ msgs = {}

Self(g) == [status |-> "alive", incarnation |-> g, age |-> 0]

Seed == [status |-> "alive", incarnation |-> 0, age |-> 0]

\* main registers the node under its generation; Bootstrap joins the seeds
\* by their endpoints, skipping the node's own.
Boot(n) ==
  /\ status[n] = "down"
  /\ generation[n] < MaxBoots[n]
  /\ status' = [status EXCEPT ![n] = "up"]
  /\ generation' = [generation EXCEPT ![n] = @ + 1]
  /\ slots' = [slots EXCEPT ![n] = [j \in Node |->
       CASE j = n                     -> Upsert(EmptySlot, "canonical", Self(generation'[n]))
         [] j \in Seeds[n] \ {n}      -> Upsert(EmptySlot, "placeholder", Seed)
         [] j \notin Seeds[n] \cup {n} -> EmptySlot]]
  /\ UNCHANGED msgs

\* A crash, or the end of the process after a leave.
Stop(n) ==
  /\ Running(n)
  /\ status' = [status EXCEPT ![n] = "down"]
  /\ slots' = [slots EXCEPT ![n] = EmptySet]
  /\ UNCHANGED <<generation, msgs>>

-----------------------------------------------------------------------------
(* Sending *)

\* serializeMembershipDigest: one entry for each endpoint, the canonical one
\* if there is one.
Digest(peers) ==
  LET Form(p) == IF p["canonical"] # Absent THEN "canonical" ELSE "placeholder"
  IN  [j \in Node |-> [form  |-> Form(peers[j].peers),
                       entry |-> peers[j].peers[Form(peers[j].peers)]]]

\* selectGossipTargets and excludeSelfGossipTarget
Targets(n, peers) ==
  {j \in Node \ {n} : \E f \in Forms : /\ peers[j].peers[f] # Absent
                                       /\ ~ Terminal(peers[j].peers[f])}

\* The datagrams to the peers of S reach the network; the others are lost,
\* or their turn in the fanout has not come.
Send(n, peers, S) ==
  /\ S \subseteq Targets(n, peers)
  /\ msgs' = msgs \cup {[from |-> n, to |-> j, age |-> 0, digest |-> Digest(peers)] : j \in S}
  /\ S = {} \/ Cardinality(msgs') <= MaxInFlight[n]

\* Mutant: the expiry does not skip the node itself.
MutRoundTo(n, S) ==
  /\ Running(n)
  /\ slots' = [slots EXCEPT ![n] = [j \in Node |-> Prune(ApplyTimeoutTransitions(@[j]))]]
  /\ Send(n, slots'[n], S)
  /\ UNCHANGED <<status, generation>>

\* Engine.round, up to the aggregate: expire, prune, send.  The ticker may
\* win once more after a leave, but the process ends before its own entry
\* can be pruned.
RoundTo(n, S) ==
  /\ Running(n)
  /\ slots' = [slots EXCEPT ![n] = [j \in Node |->
                 IF j = n THEN @[j] ELSE Prune(ApplyTimeoutTransitions(@[j]))]]
  /\ Send(n, slots'[n], S)
  /\ UNCHANGED <<status, generation>>

Round(n) == \E S \in SUBSET Node : RoundTo(n, S)

\* Mutant: a leave opens a new incarnation.
MutAnnounceLeave(n) ==
  /\ status[n] = "up"
  /\ status' = [status EXCEPT ![n] = "leaving"]
  /\ slots' = [slots EXCEPT ![n][n] =
                 [LeaveAt(@) EXCEPT !.peers["canonical"].incarnation = @ + 1]]
  /\ \E S \in SUBSET Node : Send(n, slots'[n], S)
  /\ UNCHANGED generation

\* Engine.AnnounceLeave: mark the node left and tell every target.
AnnounceLeave(n) ==
  /\ status[n] = "up"
  /\ status' = [status EXCEPT ![n] = "leaving"]
  /\ slots' = [slots EXCEPT ![n][n] = LeaveAt(@)]
  /\ \E S \in SUBSET Node : Send(n, slots'[n], S)
  /\ UNCHANGED generation

-----------------------------------------------------------------------------
(* Receiving *)

Merge(s, d) == IF d.entry = Absent THEN s ELSE Upsert(s, d.form, d.entry)

\* The membership part of the handler: markPeerAlive with the incarnation
\* the origin claims, then mergeMembership, which skips the node itself.
Receive(n, m) ==
  /\ Running(n)
  /\ m.to = n
  /\ slots' = [slots EXCEPT ![n] = [j \in Node |->
       CASE j = n                  -> @[j]
         [] j = m.from /\ j # n    ->
              Merge(ObserveHeartbeat(@[j], m.digest[j].entry.incarnation, m.age), m.digest[j])
         [] j \notin {n, m.from}   -> Merge(@[j], m.digest[j])]]
  /\ UNCHANGED <<status, generation, msgs>>

-----------------------------------------------------------------------------
(* Environment *)

Lose(m) ==
  /\ msgs' = msgs \ {m}
  /\ UNCHANGED <<status, generation, slots>>

AgedMessage(m) ==
  [m EXCEPT !.age = IF @ = MaxAge THEN @ ELSE @ + 1,
            !.digest = [j \in Node |-> [form |-> @[j].form, entry |-> Aged(@[j].entry)]]]

Tick ==
  /\ slots' = [n \in Node |-> [j \in Node |-> AgedSlot(slots[n][j])]]
  /\ msgs' = {AgedMessage(m) : m \in msgs}
  /\ UNCHANGED <<status, generation>>

-----------------------------------------------------------------------------
(* Specifications *)

Next ==
  \/ \E n \in Node : Boot(n) \/ Stop(n) \/ Round(n) \/ AnnounceLeave(n)
  \/ \E m \in msgs : Receive(m.to, m) \/ Lose(m)
  \/ Tick

Spec == Init /\ [][Next]_vars

RoundReaches(i, j) == \E S \in SUBSET Node : j \in S /\ RoundTo(i, S)

ReceiveFrom(i, j) == \E m \in msgs : m.from = i /\ m.to = j /\ Receive(j, m)

\* Rounds are driven by a ticker and the fanout rotates over all targets; a
\* path that is used again and again delivers now and then; no datagram
\* stays in the network for ever.  Nothing forces a stop, a leave, a boot of
\* a node that is down, or the clock.
Fairness ==
  /\ WF_vars(\E m \in msgs : Lose(m))
  /\ \A i \in Node : WF_vars(Round(i))
  /\ \A i, j \in Node : SF_vars(RoundReaches(i, j)) /\ SF_vars(ReceiveFrom(i, j))

FairSpec == Spec /\ Fairness

-----------------------------------------------------------------------------
(* Properties *)

Datagrams ==
  [from : Node, to : Node, age : Ages,
   digest : [Node -> [form : Forms, entry : Entries \cup {Absent}]]]

TypeOK ==
  /\ status \in [Node -> {"down", "up", "leaving"}]
  /\ generation \in [Node -> Nat]
  /\ slots \in [Node -> [Node -> Slots]]
  /\ msgs \subseteq Datagrams

\* Nobody knows an incarnation of a node that the node has not reached: a
\* restart, which takes the next generation, prevails over every entry,
\* tombstone and watermark about it, and over every digest in flight.
GenerationDominates ==
  /\ \A i, j \in Node : Bounded(slots[i][j], generation[j])
  /\ \A m \in msgs : \A j \in Node : m.digest[j].entry.incarnation <= generation[j]

\* "I placeholder seed host:port vengono promossi alla node_id logica senza
\* lasciare duplicati": a Set never holds a node both by its ID and by its
\* endpoint, nor keeps the watermark of a peer it holds again.
SingleRecord == \A i, j \in Node : OneRecord(slots[i][j])

\* Once a running node knows that an incarnation is over it does not forget
\* it, and no late heartbeat and no old digest brings the incarnation back,
\* before or after the prune.
NoResurrection ==
  [][\A i, j \in Node : \A g \in 0 .. generation[j] :
       Running(i) /\ Running(i)' /\ Buried(slots[i][j], g)
       => Buried(slots'[i][j], g) /\ ~ HeldLive(slots'[i][j], g)]_vars

RunningNodes == {n \in Node : Running(n)}

OverAt == [i \in Node |-> [j \in Node |-> OverIn(slots[i][j])]]

LiveAt == [i \in Node |-> [j \in Node |-> LiveIn(slots[i][j])]]

Memory ==
  INSTANCE IncarnationMemory
  WITH up <- RunningNodes, incarnation <- generation, over <- OverAt, live <- LiveAt

\* Whatever is lost, late, duplicated, expired or pruned, the protocol does
\* what IncarnationMemory promises: a node held live stays so until that
\* incarnation is over, no node learns of an incarnation to come or from
\* others that it has died itself, and a restart is over for nobody.
MemorySpec == Memory!Spec

\* The node i holds a live entry of j.
Sees(i, j) == \E g \in 0 .. generation[j] : HeldLive(slots[i][j], g)

\* A datagram counts as a heartbeat of its origin: if the receiver then holds
\* the incarnation that sent it as live, it has seen it at SentAt or later.
HeartbeatCounts ==
  [][\A m \in msgs : Receive(m.to, m) =>
       LET e == slots'[m.to][m.from].peers["canonical"]
       IN  /\ e.status \in {"alive", "suspect"}
           /\ e.incarnation = m.digest[m.from].entry.incarnation
           => e.age <= m.age]_vars

AllUp == \A n \in Node : status[n] = "up"

\* After the last expiry of a timeout, nodes that all run and can all reach
\* one another come to hold one another alive again.
ViewsReconverge ==
  <>[]AllUp /\ <>[][~ Tick]_vars => <>[](\A i, j \in Node : Sees(i, j))
=============================================================================
