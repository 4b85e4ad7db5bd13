------------------------- MODULE GossipEngineProofs -------------------------
(***************************************************************************)
(* Proofs about GossipEngine, for any finite set of nodes, any             *)
(* configuration and any bounds: the order of stamps, the types of every   *)
(* variable, what the datagrams of one boot have in common with their      *)
(* sender and with one another, the values behind the stamps, and what the *)
(* estimates are made of, up to convergence once all have heard of all.    *)
(*                                                                         *)
(* The first inductive invariant is StampTypeOK /\ OwnVersionDominates.    *)
(* It says nothing of the values of contributions: which entry a merge     *)
(* takes depends on them only when stamps are equal, where both choices    *)
(* keep the same stamp.  The later invariants stand on it.                 *)
(***************************************************************************)
EXTENDS GossipEngine, FiniteSums

-----------------------------------------------------------------------------
(* Stamps and merges *)

\* maxVersion returns one of its arguments and is an upper bound of both.
LEMMA MaxVersion ==
  ASSUME NEW a \in Stamp, NEW b \in Stamp
  PROVE  /\ maxVersion(a, b) \in Stamp
         /\ maxVersion(a, b) \in {a, b}
         /\ AtMost(a, maxVersion(a, b)) /\ AtMost(b, maxVersion(a, b))
  BY DEF maxVersion, AtMost, Less, Stamp

\* The stamp order is reflexive and NoStamp is its least element.
LEMMA StampOrder ==
  /\ NoStamp \in Stamp
  /\ \A a \in Stamp : AtMost(a, a) /\ AtMost(NoStamp, a)
  BY DEF NoStamp, AtMost, Less, Stamp

\* Materialising a contribution gives a stamp to that node only, and only
\* when it had none.
LEMMA MaterialiseVersions ==
  ASSUME NEW p, p.versions \in [Node -> Stamp],
         NEW n \in Node, NEW estimate, NEW stamp \in Stamp
  PROVE  LET r == Materialise(p, n, estimate, stamp).versions
         IN  /\ r \in [Node -> Stamp]
             /\ \A j \in Node : \/ r[j] = p.versions[j]
                                \/ j = n /\ p.versions[j] = NoStamp /\ r[j] = stamp
<1>1. CASE n \in Known(p)
  BY <1>1 DEF Materialise
<1>2. CASE n \notin Known(p)
  <2>1. Materialise(p, n, estimate, stamp).versions = [p.versions EXCEPT ![n] = stamp]
    BY <1>2 DEF Materialise
  <2>2. p.versions[n] = NoStamp
    BY <1>2 DEF Known
  <2>3. QED BY <2>1, <2>2
<1>3. QED BY <1>1, <1>2

\* A merge takes every stamp from one of the two maps, and never one older
\* than the local one.
LEMMA MergeVersions ==
  ASSUME NEW agg, NEW p, NEW q,
         p.versions \in [Node -> Stamp], q.versions \in [Node -> Stamp]
  PROVE  LET r == Merge(agg, p, q).versions
         IN  /\ r \in [Node -> Stamp]
             /\ \A j \in Node : /\ r[j] \in {p.versions[j], q.versions[j]}
                                /\ AtMost(p.versions[j], r[j])
<1> DEFINE r == Merge(agg, p, q).versions
<1>1. r = [j \in Node |-> IF Accepts(agg, p, q, j)
                          THEN q.versions[j] ELSE p.versions[j]]
  BY DEF Merge
<1>2. r \in [Node -> Stamp]
  BY <1>1
<1>3. ASSUME NEW j \in Node
      PROVE  r[j] \in {p.versions[j], q.versions[j]} /\ AtMost(p.versions[j], r[j])
  <2>1. CASE Accepts(agg, p, q, j)
    <3>1. r[j] = q.versions[j]
      BY <1>1, <2>1
    <3>2. Less(p.versions[j], q.versions[j]) \/ p.versions[j] = q.versions[j]
      BY <2>1 DEF Accepts
    <3>3. QED BY <3>1, <3>2 DEF AtMost, Less, Stamp
  <2>2. CASE ~ Accepts(agg, p, q, j)
    BY <1>1, <2>2, StampOrder
  <2>3. QED BY <2>1, <2>2
<1>4. QED BY <1>2, <1>3

-----------------------------------------------------------------------------
(* What a step does to the stamps *)

\* The stamps that a datagram's maps carry once materialised are its own
\* version or those in its maps.
LEMMA IncomingVersions ==
  ASSUME StampTypeOK, NEW m \in msgs
  PROVE  /\ m.origin \in Node /\ m.version \in Stamp
         /\ Incoming(m).versions \in [Node -> Stamp]
         /\ \A j \in Node : \/ Incoming(m).versions[j] = m.versions[j]
                            \/ j = m.origin /\ Incoming(m).versions[j] = m.version
<1> DEFINE p == [contributions |-> m.contributions, versions |-> m.versions]
<1>1. m.origin \in Node /\ m.version \in Stamp /\ m.versions \in [Node -> Stamp]
  BY DEF StampTypeOK
<1>2. p.versions = m.versions
  OBVIOUS
<1>3. Incoming(m) = Materialise(p, m.origin, m.value, m.version)
  BY DEF Incoming
<1> HIDE DEF p
<1>4. QED BY <1>1, <1>2, <1>3, MaterialiseVersions

\* The node's own stamps, current and next, are stamps.
LEMMA LocalStamps ==
  ASSUME StampTypeOK, NEW n \in Node
  PROVE  /\ LocalVersion(n) \in Stamp /\ NextVersion(n) \in Stamp
         /\ LocalMaps(n).versions = versions[n]
         /\ versions[n] \in [Node -> Stamp]
  BY DEF StampTypeOK, LocalVersion, NextVersion, LocalMaps, Stamp

\* The effect of MergeRemote on the stamps: every stamp it leaves was
\* there, is the node's own, or came with the datagram; none goes back.
LEMMA MergeRemoteVersions ==
  ASSUME StampTypeOK, NEW n \in Node, NEW m \in msgs, MergeRemote(n, m)
  PROVE  \E r \in [Node -> Stamp] :
           /\ versions' = [versions EXCEPT ![n] = r]
           /\ \A j \in Node : /\ AtMost(versions[n][j], r[j])
                              /\ \/ r[j] = versions[n][j]
                                 \/ j = n /\ r[j] = LocalVersion(n)
                                 \/ r[j] = m.versions[j]
                                 \/ j = m.origin /\ r[j] = m.version
<1> DEFINE agg    == aggregation[n]
           local  == LocalForMerge(agg, LocalMaps(n), n, value[n], LocalVersion(n))
           merged == Merge(agg, local, Incoming(m))
<1>1. versions' = [versions EXCEPT ![n] = merged.versions]
  BY DEF MergeRemote
<1>2. /\ local.versions \in [Node -> Stamp]
      /\ \A j \in Node : \/ local.versions[j] = versions[n][j]
                         \/ /\ j = n /\ versions[n][j] = NoStamp
                            /\ local.versions[j] = LocalVersion(n)
  <2> DEFINE p == LocalMaps(n)
             v == value[n]
             s == LocalVersion(n)
  <2>1. /\ p.versions \in [Node -> Stamp] /\ p.versions = versions[n]
        /\ s \in Stamp /\ s = LocalVersion(n)
    BY LocalStamps
  <2>2. local = p \/ local = Materialise(p, n, v, s)
    BY DEF LocalForMerge
  <2> HIDE DEF agg, p, v, s, local
  <2>3. CASE local = p
    BY <2>1, <2>3
  <2>4. CASE local = Materialise(p, n, v, s)
    BY <2>1, <2>4, MaterialiseVersions
  <2>5. QED BY <2>2, <2>3, <2>4
<1>3. Incoming(m).versions \in [Node -> Stamp]
  BY IncomingVersions
<1> HIDE DEF local
<1>4. /\ merged.versions \in [Node -> Stamp]
      /\ \A j \in Node :
           /\ merged.versions[j] \in {local.versions[j], Incoming(m).versions[j]}
           /\ AtMost(local.versions[j], merged.versions[j])
  BY <1>2, <1>3, MergeVersions
<1> HIDE DEF merged
<1>5. ASSUME NEW j \in Node
      PROVE  /\ AtMost(versions[n][j], merged.versions[j])
             /\ \/ merged.versions[j] = versions[n][j]
                \/ j = n /\ merged.versions[j] = LocalVersion(n)
                \/ merged.versions[j] = m.versions[j]
                \/ j = m.origin /\ merged.versions[j] = m.version
  <2>1. merged.versions[j] \in Stamp
    BY <1>4
  <2>2. AtMost(versions[n][j], merged.versions[j])
    <3>1. CASE local.versions[j] = versions[n][j]
      BY <3>1, <1>4
    <3>2. CASE versions[n][j] = NoStamp
      BY <3>2, <2>1, StampOrder
    <3>3. QED BY <3>1, <3>2, <1>2
  <2>3. QED BY <2>2, <1>2, <1>4, IncomingVersions
<1>6. QED BY <1>1, <1>4, <1>5

-----------------------------------------------------------------------------
(* Type of the stamps *)

\* A step keeps the types that the ordering of stamps rests on.
LEMMA StampTypeStep ==
  ASSUME StampTypeOK, [Next]_vars
  PROVE  StampTypeOK'
<1> USE DEF StampTypeOK
<1>1. ASSUME NEW n \in Node, Boot(n)
      PROVE  StampTypeOK'
  BY <1>1, StampOrder DEF Boot, FreshState, NoVersions
<1>2. ASSUME NEW n \in Node, Stop(n)
      PROVE  StampTypeOK'
  BY <1>2, StampOrder DEF Stop, FreshState, NoVersions
<1>3. ASSUME NEW n \in Node, Publish(n), versions' \in [Node -> [Node -> Stamp]]
      PROVE  \A m \in msgs' : /\ m.origin \in Node
                              /\ m.version \in Stamp
                              /\ m.versions \in [Node -> Stamp]
  BY <1>3, LocalStamps DEF Publish
<1>4. ASSUME NEW n \in Node, Round(n)
      PROVE  StampTypeOK'
  <2>1. versions' \in [Node -> [Node -> Stamp]]
    BY <1>4, LocalStamps DEF Round
  <2>2. /\ counter' \in [Node -> Nat]
        /\ Publish(n)
        /\ UNCHANGED <<status, epoch, lastSeen>>
    BY <1>4 DEF Round
  <2>3. QED BY <1>3, <2>1, <2>2
<1>5. ASSUME NEW n \in Node, AnnounceLeave(n)
      PROVE  StampTypeOK'
  BY <1>3, <1>5 DEF AnnounceLeave
<1>6. ASSUME NEW n \in Node, Recalculate(n)
      PROVE  StampTypeOK'
  BY <1>6 DEF Recalculate
<1>7. ASSUME NEW n \in Node, NEW m \in msgs, Receive(n, m)
      PROVE  StampTypeOK'
  <2>1. ASSUME MarkLastSeen(n, m)
        PROVE  lastSeen' \in [Node -> [Node -> Stamp]]
    BY <2>1, MaxVersion, IncomingVersions DEF MarkLastSeen
  <2>2. CASE IgnoreMessage(n, m) \/ DropMessage(n, m)
    BY <2>2 DEF IgnoreMessage, DropMessage
  <2>3. CASE SkipEquivalent(n, m)
    BY <2>1, <2>3 DEF SkipEquivalent
  <2>4. CASE MergeRemote(n, m)
    <3>1. versions' \in [Node -> [Node -> Stamp]]
      BY <2>4, MergeRemoteVersions
    <3>2. counter' \in [Node -> Nat]
      BY <2>4, IncomingVersions DEF MergeRemote, maxCounter, Stamp
    <3>3. QED BY <2>1, <2>4, <3>1, <3>2 DEF MergeRemote
  <2>5. QED BY <1>7, <2>2, <2>3, <2>4 DEF Receive
<1>8. CASE UNCHANGED vars
  BY <1>8 DEF vars
<1>9. QED BY <1>1, <1>2, <1>4, <1>5, <1>6, <1>7, <1>8 DEF Next, NodeStep

\* The stamps of the state, of the datagrams and of the version ledger are
\* always of their type, whatever nodes boot, crash, send and receive.
THEOREM StampTypes == Spec => []StampTypeOK
<1>1. Init => StampTypeOK
  BY StampOrder DEF Init, StampTypeOK, NoVersions
<1>2. StampTypeOK /\ [Next]_vars => StampTypeOK'
  BY StampTypeStep
<1>3. QED BY <1>1, <1>2, PTL DEF Spec

-----------------------------------------------------------------------------
(* A node has reached every stamp of its own, wherever it is *)

IInv == StampTypeOK /\ OwnVersionDominates

\* What a node has reached it never loses: counters grow within a boot, and
\* a new boot has a larger epoch.
LEMMA ReachedStable ==
  ASSUME StampTypeOK, [Next]_vars
  PROVE  \A j \in Node : \A s \in Stamp : Reached(j, s) => Reached(j, s)'
<1> USE DEF StampTypeOK, Reached, Stamp
<1>1. ASSUME NEW n \in Node, Boot(n)
      PROVE  \A j \in Node : \A s \in Stamp : Reached(j, s) => Reached(j, s)'
  BY <1>1 DEF Boot, FreshState
<1>2. ASSUME NEW n \in Node, Stop(n)
      PROVE  \A j \in Node : \A s \in Stamp : Reached(j, s) => Reached(j, s)'
  BY <1>2 DEF Stop, FreshState
<1>3. ASSUME NEW n \in Node, Round(n) \/ AnnounceLeave(n)
      PROVE  \A j \in Node : \A s \in Stamp : Reached(j, s) => Reached(j, s)'
  <2>1. /\ counter' = [counter EXCEPT ![n] = @ + 1]
        /\ epoch' = epoch
        /\ \A j \in Node : status'[j] = "down" <=> status[j] = "down"
    BY <1>3 DEF Round, AnnounceLeave
  <2>2. QED BY <2>1
<1>4. ASSUME NEW n \in Node, NEW m \in msgs, MergeRemote(n, m)
      PROVE  \A j \in Node : \A s \in Stamp : Reached(j, s) => Reached(j, s)'
  <2>1. /\ status' = status /\ epoch' = epoch
        /\ \/ counter' = counter
           \/ counter' = [counter EXCEPT ![n] = maxCounter(@, m.version.counter) + 1]
    BY <1>4 DEF MergeRemote
  <2> DEFINE k == maxCounter(counter[n], m.version.counter)
  <2>2. m.version.counter \in Nat /\ counter[n] \in Nat
    OBVIOUS
  <2>3. k \in Nat /\ counter[n] <= k
    BY <2>2 DEF maxCounter
  <2>4. counter' = counter \/ counter' = [counter EXCEPT ![n] = k + 1]
    BY <2>1
  <2> HIDE DEF k
  <2>5. \A j \in Node : counter'[j] \in Nat /\ counter[j] <= counter'[j]
    <3>1. CASE counter' = counter
      BY <3>1
    <3>2. CASE counter' = [counter EXCEPT ![n] = k + 1]
      BY <2>3, <3>2
    <3>3. QED BY <2>4, <3>1, <3>2
  <2>6. ASSUME NEW j \in Node, NEW s \in Stamp, s.counter <= counter[j]
        PROVE  s.counter <= counter'[j]
    <3>1. s.counter \in Nat /\ counter[j] \in Nat /\ counter'[j] \in Nat
      BY <2>5
    <3>2. QED BY <2>5, <2>6, <3>1
  <2>7. QED BY <2>1, <2>6
<1>5. ASSUME UNCHANGED <<status, epoch, counter>>
      PROVE  \A j \in Node : \A s \in Stamp : Reached(j, s) => Reached(j, s)'
  BY <1>5
<1>6. QED
  BY <1>1, <1>2, <1>3, <1>4, <1>5
  DEF Next, NodeStep, Receive, IgnoreMessage, DropMessage, SkipEquivalent,
      Recalculate, vars

\* A running node has reached its current stamp, and any node the absent one.
LEMMA ReachedOwn ==
  ASSUME StampTypeOK, NEW n \in Node
  PROVE  Reached(n, LocalVersion(n)) /\ Reached(n, NoStamp)
  BY DEF StampTypeOK, Reached, LocalVersion, NoStamp

\* Sending moves the node to the stamp it sends.
LEMMA ReachedNext ==
  ASSUME StampTypeOK, NEW n \in Node, Round(n) \/ AnnounceLeave(n)
  PROVE  \A s : s = NextVersion(n) => Reached(n, s)'
  BY DEF StampTypeOK, Reached, NextVersion, Round, AnnounceLeave

\* OwnVersionDominates, stated of the state before a step, about the nodes'
\* progress after it.
LEMMA ReachedAfter ==
  ASSUME IInv, [Next]_vars
  PROVE  /\ \A i, j \in Node : \A s : s \in {versions[i][j], lastSeen[i][j]} => Reached(j, s)'
         /\ \A m \in msgs : /\ \A s : s = m.version => Reached(m.origin, s)'
                            /\ \A j \in Node : \A s : s = m.versions[j] => Reached(j, s)'
<1>1. \A j \in Node : \A s \in Stamp : Reached(j, s) => Reached(j, s)'
  BY ReachedStable DEF IInv
<1>2. /\ \A i, j \in Node : versions[i][j] \in Stamp /\ lastSeen[i][j] \in Stamp
      /\ \A m \in msgs : /\ m.origin \in Node
                         /\ m.version \in Stamp
                         /\ \A j \in Node : m.versions[j] \in Stamp
  BY DEF IInv, StampTypeOK
<1>3. QED BY <1>1, <1>2 DEF IInv, OwnVersionDominates

\* A step changes a stamp of a map only to one that was there, or to the
\* absent one, or to the one the node sends, or as a merge does.
LEMMA ReachedStep ==
  ASSUME IInv, [Next]_vars
  PROVE  OwnVersionDominates'
<1> DEFINE MapsReached   == \A i, j \in Node : \A s : s = versions'[i][j] => Reached(j, s)'
           LedgerReached == \A i, j \in Node : \A s : s = lastSeen'[i][j] => Reached(j, s)'
           MsgsReached   == \A m \in msgs' :
                              /\ \A s : s = m.version => Reached(m.origin, s)'
                              /\ \A j \in Node : \A s : s = m.versions[j] => Reached(j, s)'
<1>1. SUFFICES MapsReached /\ LedgerReached /\ MsgsReached
  BY DEF OwnVersionDominates, Reached
<1>2. StampTypeOK /\ StampTypeOK'
  BY StampTypeStep DEF IInv
<1>3. \A j \in Node : Reached(j, NoStamp)'
  BY <1>2 DEF StampTypeOK, Reached, NoStamp
<1>4. versions' = versions => MapsReached
  BY ReachedAfter
<1>5. lastSeen' = lastSeen => LedgerReached
  BY ReachedAfter
<1>6. msgs' = msgs => MsgsReached
  BY ReachedAfter
<1>7. ASSUME NEW n \in Node, Boot(n) \/ Stop(n)
      PROVE  MapsReached /\ LedgerReached /\ MsgsReached
  <2>1. /\ versions' = [versions EXCEPT ![n] = NoVersions]
        /\ lastSeen' = [lastSeen EXCEPT ![n] = NoVersions]
        /\ msgs' = msgs
    BY <1>7 DEF Boot, Stop, FreshState
  <2>2. \A i, j \in Node : /\ versions'[i][j] \in {versions[i][j], NoStamp}
                           /\ lastSeen'[i][j] \in {lastSeen[i][j], NoStamp}
    BY <1>2, <2>1 DEF StampTypeOK, NoVersions
  <2>3. QED BY <1>3, <1>6, <2>1, <2>2, ReachedAfter
<1>8. ASSUME NEW n \in Node, Round(n) \/ AnnounceLeave(n)
      PROVE  MapsReached /\ LedgerReached /\ MsgsReached
  <2>1. /\ \/ versions' = versions
           \/ versions' = [versions EXCEPT ![n][n] = NextVersion(n)]
        /\ lastSeen' = lastSeen
        /\ Publish(n)
    BY <1>8 DEF Round, AnnounceLeave
  <2>2. \A i, j \in Node : \/ versions'[i][j] = versions[i][j]
                           \/ j = n /\ versions'[i][j] = NextVersion(n)
    BY <1>2, <2>1 DEF StampTypeOK
  <2>3. MapsReached
    BY <1>2, <1>8, <2>2, ReachedAfter, ReachedNext
  <2>4. \A m \in msgs' : \/ m \in msgs
                         \/ /\ m.origin = n /\ m.version = NextVersion(n)
                            /\ m.versions = versions'[n]
    BY <2>1 DEF Publish
  <2>5. MsgsReached
    BY <1>2, <1>8, <2>3, <2>4, ReachedAfter, ReachedNext
  <2>6. QED BY <1>5, <2>1, <2>3, <2>5
<1>9. ASSUME NEW n \in Node, NEW m \in msgs, MarkLastSeen(n, m)
      PROVE  LedgerReached
  <2>1. lastSeen' = [lastSeen EXCEPT ![n][m.origin] = maxVersion(@, m.version)]
    BY <1>9 DEF MarkLastSeen
  <2>2. \A i, j \in Node : \/ lastSeen'[i][j] = lastSeen[i][j]
                           \/ j = m.origin /\ lastSeen'[i][j] = m.version
    BY <1>2, <2>1 DEF StampTypeOK, maxVersion
  <2>3. QED BY <2>2, ReachedAfter
<1>10. ASSUME NEW n \in Node, NEW m \in msgs, MergeRemote(n, m)
       PROVE  MapsReached
  <2>1. PICK r \in [Node -> Stamp] :
          /\ versions' = [versions EXCEPT ![n] = r]
          /\ \A j \in Node : \/ r[j] = versions[n][j]
                             \/ j = n /\ r[j] = LocalVersion(n)
                             \/ r[j] = m.versions[j]
                             \/ j = m.origin /\ r[j] = m.version
    BY <1>2, <1>10, MergeRemoteVersions
  <2>2. \A s : s = LocalVersion(n) => Reached(n, s)'
    BY <1>2, LocalStamps, ReachedOwn, ReachedStable
  <2>3. ASSUME NEW j \in Node, NEW s, s = r[j]
        PROVE  Reached(j, s)'
    BY <2>1, <2>2, <2>3, ReachedAfter
  <2>4. \A i, j \in Node : \/ versions'[i][j] = versions[i][j]
                           \/ versions'[i][j] = r[j]
    BY <1>2, <2>1 DEF StampTypeOK
  <2>5. QED BY <2>3, <2>4, ReachedAfter
<1>11. ASSUME NEW n \in Node, NEW m \in msgs, Receive(n, m)
       PROVE  MapsReached /\ LedgerReached /\ MsgsReached
  BY <1>4, <1>5, <1>6, <1>9, <1>10, <1>11
  DEF Receive, IgnoreMessage, DropMessage, SkipEquivalent, MergeRemote
<1>12. ASSUME UNCHANGED <<versions, lastSeen, msgs>>
       PROVE  MapsReached /\ LedgerReached /\ MsgsReached
  BY <1>4, <1>5, <1>6, <1>12
<1>13. QED
  BY <1>7, <1>8, <1>11, <1>12 DEF Next, NodeStep, Recalculate, vars

\* The inductive invariant holds of every reachable state.
LEMMA Invariance == Spec => []IInv
<1>1. Init => IInv
  <2>1. ASSUME Init PROVE StampTypeOK
    BY <2>1, StampOrder DEF Init, StampTypeOK, NoVersions
  <2>2. ASSUME Init PROVE OwnVersionDominates
    BY <2>2, <2>1, ReachedOwn DEF Init, OwnVersionDominates, NoVersions
  <2>3. QED BY <2>1, <2>2 DEF IInv
<1>2. IInv /\ [Next]_vars => IInv'
  BY StampTypeStep, ReachedStep DEF IInv
<1>3. QED BY <1>1, <1>2, PTL DEF Spec

\* OwnVersionDominates, for any nodes, configurations and bounds: whatever
\* is lost, duplicated, reordered or cut short by a crash, no copy of a
\* node's contribution is ever newer than the node itself, so its next round
\* supersedes them all.
THEOREM OwnVersionsDominate == Spec => []OwnVersionDominates
<1>1. IInv => OwnVersionDominates
  BY DEF IInv
<1>2. QED BY <1>1, Invariance, PTL

-----------------------------------------------------------------------------
(* No stamp goes back while the node that holds it runs *)

Monotone ==
  \A i, j \in Node :
    Running(i) /\ Running(i)' => /\ AtMost(versions[i][j], versions'[i][j])
                                 /\ AtMost(lastSeen[i][j], lastSeen'[i][j])

\* A round may re-stamp the local contribution because every stamp of the
\* node, in its own maps too, is one it has reached.
LEMMA MonotoneStep ==
  ASSUME IInv, [Next]_vars
  PROVE  Monotone
<1>1. StampTypeOK
  BY DEF IInv
<1>2. \A i, j \in Node : /\ versions[i][j] \in Stamp /\ AtMost(versions[i][j], versions[i][j])
                         /\ lastSeen[i][j] \in Stamp /\ AtMost(lastSeen[i][j], lastSeen[i][j])
  BY <1>1, StampOrder DEF StampTypeOK
<1>3. ASSUME NEW n \in Node, Boot(n) \/ Stop(n)
      PROVE  Monotone
  <2>1. /\ versions' = [versions EXCEPT ![n] = NoVersions]
        /\ lastSeen' = [lastSeen EXCEPT ![n] = NoVersions]
        /\ ~ Running(n) \/ ~ Running(n)'
    BY <1>1, <1>3 DEF Boot, Stop, FreshState, Running, StampTypeOK
  <2>2. \A i \in Node : i = n \/ (versions'[i] = versions[i] /\ lastSeen'[i] = lastSeen[i])
    BY <1>1, <2>1 DEF StampTypeOK
  <2>3. QED BY <1>2, <2>1, <2>2 DEF Monotone
<1>4. ASSUME NEW n \in Node, Round(n)
      PROVE  Monotone
  <2>1. /\ versions' = [versions EXCEPT ![n][n] = NextVersion(n)]
        /\ lastSeen' = lastSeen
        /\ Running(n)
    BY <1>4 DEF Round, CanSend
  <2>2. AtMost(versions[n][n], NextVersion(n))
    <3>1. Reached(n, versions[n][n]) /\ versions[n][n] \in Stamp
      BY <1>2 DEF IInv, OwnVersionDominates
    <3>2. QED
      BY <1>1, <2>1, <3>1
      DEF StampTypeOK, Reached, Running, NextVersion, AtMost, Less, Stamp
  <2>3. \A i, j \in Node : \/ versions'[i][j] = versions[i][j]
                           \/ i = n /\ j = n /\ versions'[i][j] = NextVersion(n)
    BY <1>1, <2>1 DEF StampTypeOK
  <2>4. QED BY <1>2, <2>1, <2>2, <2>3 DEF Monotone
<1>5. ASSUME NEW n \in Node, NEW m \in msgs, MarkLastSeen(n, m)
      PROVE  \A i, j \in Node : AtMost(lastSeen[i][j], lastSeen'[i][j])
  <2>1. lastSeen' = [lastSeen EXCEPT ![n][m.origin] = maxVersion(@, m.version)]
    BY <1>5 DEF MarkLastSeen
  <2>2. m.origin \in Node /\ m.version \in Stamp
    BY <1>1 DEF StampTypeOK
  <2>3. AtMost(lastSeen[n][m.origin], maxVersion(lastSeen[n][m.origin], m.version))
    BY <1>2, <2>2, MaxVersion
  <2>4. \A i, j \in Node :
          \/ lastSeen'[i][j] = lastSeen[i][j]
          \/ /\ i = n /\ j = m.origin
             /\ lastSeen'[i][j] = maxVersion(lastSeen[n][m.origin], m.version)
    BY <1>1, <2>1 DEF StampTypeOK
  <2>5. QED BY <1>2, <2>3, <2>4
<1>6. ASSUME NEW n \in Node, NEW m \in msgs, MergeRemote(n, m)
      PROVE  \A i, j \in Node : AtMost(versions[i][j], versions'[i][j])
  <2>1. PICK r \in [Node -> Stamp] :
          /\ versions' = [versions EXCEPT ![n] = r]
          /\ \A j \in Node : AtMost(versions[n][j], r[j])
    BY <1>1, <1>6, MergeRemoteVersions
  <2>2. \A i, j \in Node : \/ versions'[i][j] = versions[i][j]
                           \/ i = n /\ versions'[i][j] = r[j]
    BY <1>1, <2>1 DEF StampTypeOK
  <2>3. QED BY <1>2, <2>1, <2>2
<1>7. ASSUME NEW n \in Node, NEW m \in msgs, Receive(n, m)
      PROVE  Monotone
  <2>1. CASE MergeRemote(n, m)
    <3>1. MarkLastSeen(n, m)
      BY <2>1 DEF MergeRemote
    <3>2. QED BY <1>5, <1>6, <2>1, <3>1 DEF Monotone
  <2>2. CASE SkipEquivalent(n, m)
    BY <1>2, <1>5, <2>2 DEF Monotone, SkipEquivalent
  <2>3. CASE IgnoreMessage(n, m) \/ DropMessage(n, m)
    BY <1>2, <2>3 DEF Monotone, IgnoreMessage, DropMessage
  <2>4. QED BY <1>7, <2>1, <2>2, <2>3 DEF Receive
<1>8. ASSUME UNCHANGED <<versions, lastSeen>>
      PROVE  Monotone
  BY <1>2, <1>8 DEF Monotone
<1>9. QED
  BY <1>3, <1>4, <1>7, <1>8 DEF Next, NodeStep, AnnounceLeave, Recalculate, vars

\* VersionsMonotone, for any nodes, configurations and bounds: neither a
\* contribution's stamp nor the ledger of last seen stamps of a running node
\* is ever rolled back, in whatever order datagrams arrive.
THEOREM VersionsNeverRegress == Spec => VersionsMonotone
<1>1. IInv /\ [Next]_vars => [Monotone]_vars
  BY MonotoneStep
<1>2. [Monotone]_vars <=>
        [\A i, j \in Node :
           Running(i) /\ Running(i)' => /\ AtMost(versions[i][j], versions'[i][j])
                                        /\ AtMost(lastSeen[i][j], lastSeen'[i][j])]_vars
  BY DEF Monotone
<1>3. QED BY <1>1, <1>2, Invariance, PTL DEF Spec, VersionsMonotone

-----------------------------------------------------------------------------
(* Types *)

\* An estimate is an integer: the nodes are finitely many.
LEMMA EstimateType ==
  ASSUME NEW agg \in Aggregations, NEW p, p.contributions \in [Node -> Int], NEW S
  PROVE  EstimateOver(agg, p, S) \in Int
<1> DEFINE f    == p.contributions
           keys == Known(p) \cap S
           vals == {f[j] : j \in keys}
<1>1. IsFiniteSet(keys) /\ \A j \in keys : f[j] \in Int
  <2>1. keys \subseteq Node
    BY DEF Known
  <2>2. QED BY <2>1, NodeAssumption, FS_Subset
<1>2. SumOf(f, keys) \in Int
  <2> HIDE DEF f, keys
  <2>1. QED BY <1>1, SumType
<1>3. CASE keys = {}
  BY <1>3 DEF EstimateOver
<1>4. CASE keys # {} /\ agg = "sum"
  BY <1>2, <1>4 DEF EstimateOver, SumOf
<1>5. CASE keys # {} /\ agg = "average"
  <2>1. Cardinality(keys) \in Nat /\ Cardinality(keys) # 0
    BY <1>1, <1>5, FS_CardinalityType, FS_EmptySet
  <2>2. SumOf(f, keys) \div Cardinality(keys) \in Int
    BY <1>2, <2>1
  <2>3. QED BY <1>5, <2>2 DEF EstimateOver, SumOf
<1>6. CASE keys # {} /\ agg = "min"
  <2>1. PICK j \in keys : \A i \in keys : f[j] <= f[i]
    BY <1>1, <1>6, LeastIndex
  <2>2. f[j] \in vals /\ \A y \in vals : f[j] <= y
    BY <2>1
  <2>3. Min(vals) \in vals
    BY <2>2 DEF Min
  <2>4. QED BY <1>1, <1>6, <2>3 DEF EstimateOver
<1>7. CASE keys # {} /\ agg = "max"
  <2>1. PICK j \in keys : \A i \in keys : f[i] <= f[j]
    BY <1>1, <1>7, GreatestIndex
  <2>2. f[j] \in vals /\ \A y \in vals : f[j] >= y
    BY <1>1, <2>1
  <2>3. Max(vals) \in vals
    BY <2>2 DEF Max
  <2>4. QED BY <1>1, <1>7, <2>3 DEF EstimateOver
<1>8. QED BY <1>3, <1>4, <1>5, <1>6, <1>7 DEF Aggregations

\* A node's own maps, and those of a datagram, hold integers under stamps.
LEMMA MapTypes ==
  ASSUME TypeOK
  PROVE  /\ \A n \in Node : /\ LocalMaps(n).contributions = contributions[n]
                            /\ contributions[n] \in [Node -> Int]
         /\ \A m \in msgs : Incoming(m).contributions \in [Node -> Int]
<1>1. ASSUME NEW m \in msgs
      PROVE  Incoming(m).contributions \in [Node -> Int]
  <2>1. m.contributions \in [Node -> Int] /\ m.value \in Int /\ m.origin \in Node
    BY DEF TypeOK, Message
  <2>2. \/ Incoming(m).contributions = m.contributions
        \/ Incoming(m).contributions = [m.contributions EXCEPT ![m.origin] = m.value]
    BY DEF Incoming, Materialise
  <2>3. QED BY <2>1, <2>2
<1>2. QED BY <1>1 DEF TypeOK, LocalMaps

\* What a merge leaves: integers in the map, and an integer as estimate.
LEMMA MergeTypes ==
  ASSUME TypeOK, NEW n \in Node, NEW m \in msgs
  PROVE  LET local  == LocalForMerge(aggregation[n], LocalMaps(n), n, value[n], LocalVersion(n))
             merged == Merge(aggregation[n], local, Incoming(m))
         IN  /\ merged.contributions \in [Node -> Int]
             /\ EstimateOver(aggregation[n], merged, Node) \in Int
<1> DEFINE agg    == aggregation[n]
           local  == LocalForMerge(agg, LocalMaps(n), n, value[n], LocalVersion(n))
           q      == Incoming(m)
           merged == Merge(agg, local, q)
<1>1. agg \in Aggregations /\ value[n] \in Int
  BY DEF TypeOK
<1>2. local.contributions \in [Node -> Int]
  <2>1. \/ local.contributions = contributions[n]
        \/ local.contributions = [contributions[n] EXCEPT ![n] = value[n]]
    BY MapTypes DEF LocalForMerge, Materialise
  <2>2. QED BY <1>1, <2>1, MapTypes
<1>3. q.contributions \in [Node -> Int]
  BY MapTypes
<1> HIDE DEF agg, local, q
<1>4. merged.contributions \in [Node -> Int]
  BY <1>2, <1>3 DEF Merge
<1> HIDE DEF merged
<1>5. EstimateOver(agg, merged, Node) \in Int
  BY <1>1, <1>4, EstimateType
<1>6. QED BY <1>4, <1>5 DEF agg, local, q, merged

\* Every action keeps the types.
LEMMA TypeStep ==
  ASSUME TypeOK, [Next]_vars
  PROVE  TypeOK'
<1> USE DEF TypeOK
<1>1. StampTypeOK'
  BY StampTypeStep
<1>2. ASSUME NEW n \in Node, FreshState(n)
      PROVE  /\ contributions' \in [Node -> [Node -> Int]]
             /\ seen' \in [Node -> SUBSET (Node \X Stamp)]
             /\ handling' \in [Node -> BOOLEAN]
  BY <1>2 DEF FreshState, NoContributions
<1>3. ASSUME NEW n \in Node, NEW agg \in Aggregations, NEW v \in Int, SeedValues(n, agg, v)
      PROVE  /\ aggregation' \in [Node -> Aggregations]
             /\ localValue' \in [Node -> Int]
             /\ value' \in [Node -> Int]
  BY <1>3 DEF SeedValues
<1>4. ASSUME NEW n \in Node, Boot(n)
      PROVE  TypeOK'
  <2>1. PICK c \in Configs[n] : SeedValues(n, c.aggregation, c.initialValue)
    BY <1>4 DEF Boot
  <2>2. c.aggregation \in Aggregations /\ c.initialValue \in Int
    BY ConfigsAssumption
  <2>3. FreshState(n) /\ msgs' = msgs
    BY <1>4 DEF Boot
  <2>4. QED BY <1>1, <1>2, <1>3, <2>1, <2>2, <2>3
<1>5. ASSUME NEW n \in Node, Stop(n)
      PROVE  TypeOK'
  <2>1. FreshState(n) /\ SeedValues(n, "sum", 0) /\ msgs' = msgs
    BY <1>5 DEF Stop
  <2>2. "sum" \in Aggregations /\ 0 \in Int
    BY DEF Aggregations
  <2>3. QED BY <1>1, <1>2, <1>3, <2>1, <2>2
<1>6. ASSUME NEW n \in Node, Publish(n), value' \in [Node -> Int],
             contributions' \in [Node -> [Node -> Int]]
      PROVE  msgs' \subseteq Message
  <2>1. versions' \in [Node -> [Node -> Stamp]]
    BY <1>1 DEF StampTypeOK
  <2>2. NextVersion(n) \in Stamp
    BY LocalStamps
  <2>3. QED BY <1>6, <2>1, <2>2 DEF Publish, Message
<1>7. ASSUME NEW n \in Node, Round(n)
      PROVE  TypeOK'
  <2>1. OwnContribution(n) \in Int
    BY DEF OwnContribution
  <2>2. contributions' \in [Node -> [Node -> Int]]
    BY <1>7, <2>1 DEF Round
  <2>3. localValue' \in [Node -> Int]
    BY <1>7, <2>1 DEF Round
  <2>4. value' \in [Node -> Int]
    <3> DEFINE p == [contributions |-> contributions'[n], versions |-> versions'[n]]
    <3>1. PICK view \in EligibleViews(n) :
            value' = [value EXCEPT ![n] = EstimateOver(aggregation[n], p, view)]
      BY <1>7 DEF Round
    <3>2. p.contributions \in [Node -> Int]
      BY <2>2
    <3> HIDE DEF p
    <3>3. EstimateOver(aggregation[n], p, view) \in Int
      BY <3>2, EstimateType
    <3>4. QED BY <3>1, <3>3
  <2>5. Publish(n) /\ UNCHANGED <<aggregation, seen, handling>>
    BY <1>7 DEF Round
  <2>6. QED BY <1>1, <1>6, <2>2, <2>3, <2>4, <2>5
<1>8. ASSUME NEW n \in Node, AnnounceLeave(n)
      PROVE  TypeOK'
  <2>1. /\ Publish(n)
        /\ UNCHANGED <<aggregation, localValue, value, contributions, seen, handling>>
    BY <1>8 DEF AnnounceLeave
  <2>2. QED BY <1>1, <1>6, <2>1
<1>9. ASSUME NEW n \in Node, Recalculate(n)
      PROVE  TypeOK'
  <2>1. value' \in [Node -> Int]
    <3> DEFINE p == LocalMaps(n)
    <3>1. PICK view \in EligibleViews(n) :
            \/ value' = value
            \/ value' = [value EXCEPT ![n] = EstimateOver(aggregation[n], p, view)]
      BY <1>9 DEF Recalculate
    <3>2. p.contributions \in [Node -> Int]
      BY MapTypes
    <3> HIDE DEF p
    <3>3. EstimateOver(aggregation[n], p, view) \in Int
      BY <3>2, EstimateType
    <3>4. QED BY <3>1, <3>3
  <2>2. QED BY <1>1, <1>9, <2>1 DEF Recalculate
<1>10. ASSUME NEW n \in Node, NEW m \in msgs, Receive(n, m)
       PROVE  TypeOK'
  <2>1. StartHandling(n) /\ UNCHANGED <<aggregation, localValue, msgs>>
    BY <1>10
    DEF Receive, IgnoreMessage, DropMessage, SkipEquivalent, MergeRemote
  <2>2. handling' \in [Node -> BOOLEAN]
    BY <2>1 DEF StartHandling
  <2>3. seen' \in [Node -> SUBSET (Node \X Stamp)]
    <3>1. MessageID(m) \in Node \X Stamp
      BY DEF MessageID, Message
    <3>2. seen' = seen \/ MarkSeen(n, m)
      BY <1>10
      DEF Receive, IgnoreMessage, DropMessage, SkipEquivalent, MergeRemote
    <3>3. QED BY <3>1, <3>2 DEF MarkSeen
  <2>4. value' \in [Node -> Int] /\ contributions' \in [Node -> [Node -> Int]]
    <3>1. CASE MergeRemote(n, m)
      BY <3>1, MergeTypes DEF MergeRemote
    <3>2. CASE UNCHANGED <<value, contributions>>
      BY <3>2
    <3>3. QED
      BY <1>10, <3>1, <3>2 DEF Receive, IgnoreMessage, DropMessage, SkipEquivalent
  <2>5. QED BY <1>1, <2>1, <2>2, <2>3, <2>4
<1>11. CASE UNCHANGED vars
  BY <1>1, <1>11 DEF vars
<1>12. QED
  BY <1>4, <1>5, <1>7, <1>8, <1>9, <1>10, <1>11 DEF Next, NodeStep

\* TypeOK: whatever is merged and derived, every variable and every datagram
\* keeps the type of the Go field it stands for; estimates are integers for
\* any finite cluster.
THEOREM EngineTypes == Spec => []TypeOK
<1>1. Init => TypeOK
  <2>1. Init => StampTypeOK
    BY StampOrder DEF Init, StampTypeOK, NoVersions
  <2>2. QED BY <2>1 DEF Init, TypeOK, NoContributions, Aggregations
<1>2. TypeOK /\ [Next]_vars => TypeOK'
  BY TypeStep
<1>3. QED BY <1>1, <1>2, PTL DEF Spec

-----------------------------------------------------------------------------
(* The datagrams of one boot *)

\* The order of stamps is total, transitive and antisymmetric.
LEMMA StampTotalOrder ==
  ASSUME NEW a \in Stamp, NEW b \in Stamp
  PROVE  /\ AtMost(a, b) \/ AtMost(b, a)
         /\ AtMost(a, b) => Less(a, b) \/ a = b
         /\ \A c \in Stamp : AtMost(a, b) /\ AtMost(b, c) => AtMost(a, c)
  BY DEF AtMost, Less, Stamp

OfBoot(m) == m.version.epoch = epoch[m.origin]

SameBoot(m, x) == m.origin = x.origin /\ m.version.epoch = x.version.epoch

\* Generations start at 1, and a datagram is newer than what it holds of its
\* own sender.
Stamped ==
  /\ \A n \in Node : Running(n) => epoch[n] # 0
  /\ \A m \in msgs : m.version.epoch # 0 /\ AtMost(m.versions[m.origin], m.version)

\* A running sender still holds all it has sent in this boot; only a leave
\* was sent without re-stamping its contribution.
SenderKeeps ==
  \A m \in msgs : Running(m.origin) /\ OfBoot(m) =>
    /\ m.aggregation = aggregation[m.origin]
    /\ \A j \in Node : AtMost(m.versions[j], versions[m.origin][j])
    /\ m.versions[m.origin] = m.version \/ status[m.origin] = "leaving"

\* The datagrams of one boot form a chain, in which at most one is a leave.
Chain ==
  \A m, x \in msgs : SameBoot(m, x) =>
    /\ m.aggregation = x.aggregation
    /\ m.version = x.version => m = x
    /\ Less(m.version, x.version) =>
         /\ \A j \in Node : AtMost(m.versions[j], x.versions[j])
         /\ \/ m.versions[m.origin] = m.version
            \/ x.versions[x.origin] = x.version

DatagramInv == TypeOK /\ OwnVersionDominates /\ Stamped /\ SenderKeeps /\ Chain

\* A process runs on in its boot, or starts one with the next generation
\* and nothing seen.
LEMMA ProcessStep ==
  ASSUME TypeOK, [Next]_vars, NEW o \in Node, Running(o)'
  PROVE  \/ /\ Running(o)
            /\ epoch'[o] = epoch[o]
            /\ aggregation'[o] = aggregation[o]
            /\ status[o] = "leaving" => status'[o] = "leaving"
         \/ /\ status[o] = "down"
            /\ epoch'[o] = epoch[o] + 1
            /\ lastSeen'[o] = NoVersions
<1> USE DEF TypeOK, StampTypeOK, Running
<1>1. ASSUME NEW n \in Node, Boot(n), o = n
      PROVE  status[o] = "down" /\ epoch'[o] = epoch[o] + 1 /\ lastSeen'[o] = NoVersions
  BY <1>1 DEF Boot, FreshState
<1>2. ASSUME NEW n \in Node, Boot(n) \/ Stop(n), o # n
      PROVE  UNCHANGED <<status[o], epoch[o], aggregation[o]>>
  BY <1>2 DEF Boot, Stop, SeedValues
<1>3. ASSUME NEW n \in Node, Stop(n)
      PROVE  o # n
  BY <1>3 DEF Stop
<1>4. ASSUME NEW n \in Node, AnnounceLeave(n)
      PROVE  /\ Running(o) /\ UNCHANGED <<epoch, aggregation>>
             /\ status[o] = "leaving" => status'[o] = "leaving"
  BY <1>4 DEF AnnounceLeave
<1>5. CASE UNCHANGED <<status, epoch, aggregation>>
  BY <1>5
<1>6. ASSUME NEW n \in Node, \/ Round(n) \/ Recalculate(n)
                             \/ \E m \in msgs : Receive(n, m)
      PROVE  UNCHANGED <<status, epoch, aggregation>>
  BY <1>6
  DEF Round, Recalculate, Receive, IgnoreMessage, DropMessage, SkipEquivalent, MergeRemote
<1>7. ASSUME NEW n \in Node, Boot(n)
      PROVE  o = n \/ UNCHANGED <<status[o], epoch[o], aggregation[o]>>
  BY <1>2, <1>7
<1>8. ASSUME NEW n \in Node, Stop(n)
      PROVE  UNCHANGED <<status[o], epoch[o], aggregation[o]>>
  BY <1>2, <1>3, <1>8
<1> DEFINE Goal == \/ /\ Running(o)
                      /\ epoch'[o] = epoch[o]
                      /\ aggregation'[o] = aggregation[o]
                      /\ status[o] = "leaving" => status'[o] = "leaving"
                   \/ /\ status[o] = "down"
                      /\ epoch'[o] = epoch[o] + 1
                      /\ lastSeen'[o] = NoVersions
<1>9. ASSUME NEW n \in Node, NodeStep(n)
      PROVE  Goal
  <2>1. CASE Boot(n)
    BY <1>1, <1>7, <2>1
  <2>2. CASE Stop(n)
    BY <1>8, <2>2
  <2>3. CASE AnnounceLeave(n)
    BY <1>4, <2>3
  <2>4. CASE \/ Round(n) \/ Recalculate(n) \/ \E m \in msgs : Receive(n, m)
    BY <1>5, <1>6, <2>4
  <2>5. QED BY <1>9, <2>1, <2>2, <2>3, <2>4 DEF NodeStep
<1>10. QED BY <1>5, <1>9 DEF Next, vars

\* A step puts at most one datagram on the network: that of a round, which
\* re-stamps the contribution of its sender, or of a leave.
LEMMA NewDatagram ==
  ASSUME TypeOK, NEW n \in Node, Round(n) \/ AnnounceLeave(n)
  PROVE  \E d \in Message :
           /\ msgs' = msgs \cup {d}
           /\ d.origin = n /\ d.version = NextVersion(n)
           /\ d.aggregation = aggregation[n]
           /\ d.value = value'[n]
           /\ d.contributions = contributions'[n]
           /\ d.versions = versions'[n]
           /\ \/ versions'[n][n] = NextVersion(n)
              \/ status[n] = "up" /\ status'[n] = "leaving"
<1> DEFINE d == [origin |-> n, version |-> NextVersion(n), aggregation |-> aggregation[n],
                 value |-> value'[n], contributions |-> contributions'[n],
                 versions |-> versions'[n]]
<1>1. msgs' = msgs \cup {d}
  BY DEF Round, AnnounceLeave, Publish
<1>2. \/ versions'[n][n] = NextVersion(n)
      \/ status[n] = "up" /\ status'[n] = "leaving"
  BY DEF Round, AnnounceLeave, TypeOK, StampTypeOK
<1>3. TypeOK'
  BY TypeStep DEF Next, NodeStep
<1>4. d \in Message
  BY <1>1, <1>3 DEF TypeOK
<1>5. QED BY <1>1, <1>2, <1>4

LEMMA OtherSteps ==
  ASSUME [Next]_vars, \A n \in Node : ~ Round(n) /\ ~ AnnounceLeave(n)
  PROVE  msgs' = msgs
  BY DEF Next, NodeStep, Boot, Stop, Recalculate, Receive, IgnoreMessage,
         DropMessage, SkipEquivalent, MergeRemote, vars

\* What the stamps of a datagram are compared with.
LEMMA DatagramStamps ==
  ASSUME TypeOK, NEW m \in msgs
  PROVE  /\ m.origin \in Node /\ m.version \in Stamp
         /\ \A j \in Node : m.versions[j] \in Stamp
         /\ \A i, j \in Node : versions[i][j] \in Stamp /\ lastSeen[i][j] \in Stamp
         /\ \A i \in Node : epoch[i] \in Nat /\ counter[i] \in Nat
  BY DEF TypeOK, StampTypeOK

\* Old datagrams and their senders after any step.
LEMMA KeptStep ==
  ASSUME DatagramInv, [Next]_vars, NEW m \in msgs, Running(m.origin)', OfBoot(m)'
  PROVE  /\ Running(m.origin) /\ OfBoot(m)
         /\ m.aggregation = aggregation'[m.origin]
         /\ \A j \in Node : AtMost(m.versions[j], versions'[m.origin][j])
         /\ m.versions[m.origin] = m.version \/ status'[m.origin] = "leaving"
<1> DEFINE o == m.origin
<1>1. IInv /\ TypeOK
  BY DEF IInv, DatagramInv, TypeOK
<1>2. o \in Node /\ m.version \in Stamp /\ epoch[o] \in Nat
  BY <1>1, DatagramStamps
<1>3. Running(o) /\ epoch'[o] = epoch[o] /\ aggregation'[o] = aggregation[o]
      /\ (status[o] = "leaving" => status'[o] = "leaving")
  <2>1. Reached(o, m.version)
    BY DEF DatagramInv, OwnVersionDominates
  <2>2. m.version.epoch \in Nat /\ m.version.epoch <= epoch[o]
    BY <1>2, <2>1 DEF Reached, Stamp
  <2>3. m.version.epoch = epoch'[o]
    BY DEF OfBoot
  <2>4. epoch'[o] # epoch[o] + 1
    BY <1>2, <2>2, <2>3
  <2>5. QED BY <1>1, <1>2, <2>4, ProcessStep
<1>4. OfBoot(m)
  BY <1>3 DEF OfBoot
<1>5. ASSUME NEW j \in Node
      PROVE  AtMost(m.versions[j], versions'[o][j])
  <2>1. AtMost(m.versions[j], versions[o][j])
    BY <1>3, <1>4 DEF DatagramInv, SenderKeeps
  <2>2. AtMost(versions[o][j], versions'[o][j])
    BY <1>1, <1>2, <1>3, MonotoneStep DEF Monotone
  <2>3. /\ m.versions[j] \in Stamp /\ versions[o][j] \in Stamp
        /\ versions'[o][j] \in Stamp
    BY <1>1, <1>2, TypeStep DEF TypeOK, StampTypeOK
  <2>4. QED BY <2>1, <2>2, <2>3, StampTotalOrder
<1>6. QED BY <1>3, <1>4, <1>5 DEF DatagramInv, SenderKeeps

\* Whatever a running node has reached is older than what it sends next.
LEMMA NextIsNewer ==
  ASSUME TypeOK, NEW n \in Node, Running(n), NEW s \in Stamp, Reached(n, s)
  PROVE  Less(s, NextVersion(n)) /\ AtMost(s, NextVersion(n)) /\ s # NextVersion(n)
<1>1. epoch[n] \in Nat /\ counter[n] \in Nat /\ s.epoch \in Nat /\ s.counter \in Nat
  BY DEF TypeOK, StampTypeOK, Stamp
<1>2. s.epoch < epoch[n] \/ (s.epoch = epoch[n] /\ s.counter <= counter[n])
  BY DEF Reached, Running
<1>3. QED BY <1>1, <1>2 DEF NextVersion, Less, AtMost

LEMMA StampedStep ==
  ASSUME DatagramInv, [Next]_vars
  PROVE  Stamped'
<1>1. TypeOK /\ TypeOK'
  BY TypeStep DEF DatagramInv
<1>2. ASSUME NEW n \in Node, Running(n)'
      PROVE  epoch'[n] # 0
  <2>1. epoch[n] \in Nat /\ (Running(n) => epoch[n] # 0)
    BY <1>1, DatagramStamps DEF DatagramInv, Stamped, TypeOK, StampTypeOK
  <2>2. QED BY <1>1, <1>2, <2>1, ProcessStep
<1>3. ASSUME NEW n \in Node, Round(n) \/ AnnounceLeave(n), NEW m \in msgs', m \notin msgs
      PROVE  m.version.epoch # 0 /\ AtMost(m.versions[m.origin], m.version)
  <2>1. m.origin = n /\ m.version = NextVersion(n) /\ m.versions = versions'[n]
    BY <1>1, <1>3, NewDatagram
  <2>2. Running(n)
    BY <1>3 DEF Round, AnnounceLeave, CanSend
  <2>3. m.version.epoch = epoch[n] /\ epoch[n] # 0
    BY <2>1, <2>2 DEF NextVersion, DatagramInv, Stamped
  <2>4. NextVersion(n) \in Stamp
    BY <1>1, LocalStamps DEF TypeOK
  <2>5. \/ versions'[n][n] = NextVersion(n)
        \/ versions'[n][n] = versions[n][n]
    BY <1>1, <1>3 DEF Round, AnnounceLeave, TypeOK, StampTypeOK
  <2>6. AtMost(versions'[n][n], NextVersion(n))
    <3>1. AtMost(NextVersion(n), NextVersion(n))
      BY <2>4, StampOrder
    <3>2. versions[n][n] \in Stamp /\ Reached(n, versions[n][n])
      BY <1>1 DEF TypeOK, StampTypeOK, DatagramInv, OwnVersionDominates
    <3>3. AtMost(versions[n][n], NextVersion(n))
      BY <1>1, <2>2, <3>2, NextIsNewer
    <3>4. QED BY <2>5, <3>1, <3>3
  <2>7. QED BY <2>1, <2>3, <2>6
<1>4. ASSUME NEW m \in msgs' PROVE m.version.epoch # 0 /\ AtMost(m.versions[m.origin], m.version)
  BY <1>3, OtherSteps DEF DatagramInv, Stamped
<1>5. QED BY <1>2, <1>4 DEF Stamped

LEMMA SenderStep ==
  ASSUME DatagramInv, [Next]_vars
  PROVE  SenderKeeps'
<1>1. TypeOK /\ TypeOK'
  BY TypeStep DEF DatagramInv
<1> DEFINE Kept(m) == /\ m.aggregation = aggregation'[m.origin]
                      /\ \A j \in Node : AtMost(m.versions[j], versions'[m.origin][j])
                      /\ m.versions[m.origin] = m.version \/ status'[m.origin] = "leaving"
<1>2. SUFFICES ASSUME NEW m \in msgs', Running(m.origin)', OfBoot(m)'
               PROVE  Kept(m)
  BY DEF SenderKeeps
<1>3. CASE m \in msgs
  BY <1>2, <1>3, KeptStep
<1>4. CASE m \notin msgs
  <2>1. PICK n \in Node : Round(n) \/ AnnounceLeave(n)
    BY <1>4, OtherSteps
  <2>2. /\ m.origin = n /\ m.version = NextVersion(n) /\ m.versions = versions'[n]
        /\ m.aggregation = aggregation[n]
        /\ versions'[n][n] = NextVersion(n) \/ status'[n] = "leaving"
    BY <1>1, <1>4, <2>1, NewDatagram
  <2>3. aggregation' = aggregation
    BY <2>1 DEF Round, AnnounceLeave
  <2>4. \A j \in Node : AtMost(versions'[n][j], versions'[n][j])
    BY <1>1, StampOrder DEF TypeOK, StampTypeOK
  <2>5. QED BY <2>2, <2>3, <2>4
<1>5. QED BY <1>3, <1>4

LEMMA ChainStep ==
  ASSUME DatagramInv, [Next]_vars
  PROVE  Chain'
<1>1. TypeOK /\ TypeOK'
  BY TypeStep DEF DatagramInv
<1> DEFINE Linked(m, x) ==
      /\ m.aggregation = x.aggregation
      /\ m.version = x.version => m = x
      /\ Less(m.version, x.version) =>
           /\ \A j \in Node : AtMost(m.versions[j], x.versions[j])
           /\ \/ m.versions[m.origin] = m.version
              \/ x.versions[x.origin] = x.version
<1>2. ASSUME NEW n \in Node, Round(n) \/ AnnounceLeave(n),
             NEW x \in msgs', x \notin msgs, NEW m \in msgs, SameBoot(m, x)
      PROVE  Linked(m, x) /\ Linked(x, m)
  <2>1. /\ x.origin = n /\ x.version = NextVersion(n) /\ x.versions = versions'[n]
        /\ x.aggregation = aggregation[n]
        /\ \/ versions'[n][n] = NextVersion(n)
           \/ status[n] = "up"
    BY <1>1, <1>2, NewDatagram
  <2>2. /\ Running(n) /\ Running(n)'
        /\ epoch' = epoch /\ aggregation' = aggregation
    BY <1>1, <1>2 DEF Round, AnnounceLeave, CanSend, Running, TypeOK, StampTypeOK
  <2>3. m.origin = n /\ OfBoot(m) /\ OfBoot(m)'
    BY <1>2, <2>1, <2>2 DEF SameBoot, OfBoot, NextVersion
  <2>4. m.version \in Stamp /\ Reached(n, m.version) /\ NextVersion(n) \in Stamp
    BY <1>1, <2>3, DatagramStamps, LocalStamps
    DEF DatagramInv, OwnVersionDominates, TypeOK
  <2>5. Less(m.version, x.version) /\ m.version # x.version
    BY <1>1, <2>1, <2>2, <2>4, NextIsNewer
  <2>6. ~ Less(x.version, m.version)
    BY <2>1, <2>4, <2>5 DEF Less, Stamp
  <2>7. /\ m.aggregation = aggregation'[n]
        /\ \A j \in Node : AtMost(m.versions[j], versions'[n][j])
    BY <2>2, <2>3, KeptStep
  <2>8. status[n] = "up" => m.versions[n] = m.version
    BY <2>2, <2>3 DEF DatagramInv, SenderKeeps
  <2>9. QED BY <2>1, <2>2, <2>3, <2>5, <2>6, <2>7, <2>8
<1>3. ASSUME NEW n \in Node, Round(n) \/ AnnounceLeave(n),
             NEW m \in msgs', NEW x \in msgs', m \notin msgs, x \notin msgs
      PROVE  Linked(m, x)
  <2>1. m = x /\ m.version = NextVersion(n)
    BY <1>1, <1>3, NewDatagram
  <2>2. ~ Less(m.version, m.version)
    BY <1>1, <2>1, LocalStamps DEF Less, Stamp, TypeOK
  <2>3. QED BY <2>1, <2>2
<1>4. ASSUME NEW m \in msgs', NEW x \in msgs', SameBoot(m, x)
      PROVE  Linked(m, x)
  <2>1. CASE m \in msgs /\ x \in msgs
    BY <1>4, <2>1 DEF DatagramInv, Chain
  <2>2. CASE m \notin msgs \/ x \notin msgs
    <3>1. PICK n \in Node : Round(n) \/ AnnounceLeave(n)
      BY <2>2, OtherSteps
    <3>2. SameBoot(x, m)
      BY <1>4 DEF SameBoot
    <3> HIDE DEF Linked
    <3>3. QED BY <1>2, <1>3, <1>4, <2>2, <3>1, <3>2
  <2>3. QED BY <2>1, <2>2
<1>5. QED BY <1>4 DEF Chain

\* The chain of a boot, its sender and its stamps, in every reachable state.
LEMMA DatagramInvariance == Spec => []DatagramInv
<1>1. Init => DatagramInv
  <2> SUFFICES ASSUME Init PROVE DatagramInv
    OBVIOUS
  <2>1. StampTypeOK
    BY StampOrder DEF Init, StampTypeOK, NoVersions
  <2>2. TypeOK
    BY <2>1 DEF Init, TypeOK, NoContributions, Aggregations
  <2>3. OwnVersionDominates
    BY <2>1, ReachedOwn DEF Init, OwnVersionDominates, NoVersions
  <2>4. Stamped /\ SenderKeeps /\ Chain
    BY DEF Init, Stamped, SenderKeeps, Chain, Running
  <2>5. QED BY <2>2, <2>3, <2>4 DEF DatagramInv
<1>2. ASSUME DatagramInv, [Next]_vars PROVE DatagramInv'
  <2>1. IInv
    BY <1>2 DEF DatagramInv, IInv, TypeOK
  <2>2. TypeOK' /\ OwnVersionDominates'
    BY <1>2, <2>1, TypeStep, ReachedStep DEF DatagramInv
  <2>3. QED BY <1>2, <2>2, StampedStep, SenderStep, ChainStep DEF DatagramInv
<1>3. QED BY <1>1, <1>2, PTL DEF Spec

-----------------------------------------------------------------------------
(* A stale datagram of the same boot has nothing to add *)

\* The stamps a receiver compares with: materialising fills in the stamp of
\* the sender where the maps have none.
LEMMA IncomingStamps ==
  ASSUME TypeOK, NEW m \in msgs
  PROVE  /\ \A j \in Node : /\ Incoming(m).versions[j] \in Stamp
                            /\ j # m.origin => Incoming(m).versions[j] = m.versions[j]
         /\ Incoming(m).versions[m.origin] = IF m.versions[m.origin] = NoStamp
                                             THEN m.version ELSE m.versions[m.origin]
<1>1. m.origin \in Node /\ m.version \in Stamp /\ m.versions \in [Node -> Stamp]
  BY DEF TypeOK, StampTypeOK
<1>2. CASE m.versions[m.origin] = NoStamp
  <2>1. Incoming(m).versions = [m.versions EXCEPT ![m.origin] = m.version]
    BY <1>1, <1>2 DEF Incoming, Materialise, Known
  <2>2. QED BY <1>1, <1>2, <2>1
<1>3. CASE m.versions[m.origin] # NoStamp
  <2>1. Incoming(m).versions = m.versions
    BY <1>1, <1>3 DEF Incoming, Materialise, Known
  <2>2. QED BY <1>1, <1>3, <2>1
<1>4. QED BY <1>2, <1>3

\* Of two datagrams of one boot the newer one carries, for every
\* contributor, the newer stamp.
LEMMA IncomingOrder ==
  ASSUME DatagramInv, NEW m \in msgs, NEW x \in msgs,
         SameBoot(m, x), AtMost(m.version, x.version)
  PROVE  \A j \in Node : AtMost(Incoming(m).versions[j], Incoming(x).versions[j])
<1> DEFINE o == m.origin
<1>1. TypeOK /\ x.origin = o
  BY DEF DatagramInv, SameBoot
<1>2. /\ o \in Node /\ m.version \in Stamp /\ x.version \in Stamp
      /\ \A j \in Node : m.versions[j] \in Stamp /\ x.versions[j] \in Stamp
      /\ \A j \in Node : Incoming(m).versions[j] \in Stamp /\ Incoming(x).versions[j] \in Stamp
  BY <1>1, DatagramStamps, IncomingStamps
<1>3. CASE m.version = x.version
  <2>1. m = x
    BY <1>3 DEF DatagramInv, Chain
  <2>2. QED BY <1>2, <2>1, StampOrder
<1>4. CASE Less(m.version, x.version)
  <2>1. /\ \A j \in Node : AtMost(m.versions[j], x.versions[j])
        /\ m.versions[o] = m.version \/ x.versions[o] = x.version
        /\ AtMost(m.versions[o], m.version)
        /\ m.version # NoStamp /\ x.version # NoStamp
    BY <1>1, <1>4 DEF DatagramInv, Chain, Stamped, NoStamp
  <2>2. AtMost(Incoming(m).versions[o], Incoming(x).versions[o])
    <3>1. /\ Incoming(m).versions[o] \in {m.version, m.versions[o]}
          /\ Incoming(x).versions[o] = IF x.versions[o] = NoStamp
                                       THEN x.version ELSE x.versions[o]
      BY <1>1, IncomingStamps
    <3>2. AtMost(Incoming(m).versions[o], m.version)
      BY <1>2, <2>1, <3>1, StampOrder
    <3>3. CASE Incoming(x).versions[o] = x.version
      BY <1>2, <3>2, <3>3, StampTotalOrder
    <3>4. CASE x.versions[o] # NoStamp /\ x.versions[o] # x.version
      <4>1. Incoming(x).versions[o] = x.versions[o] /\ m.versions[o] = m.version
        BY <2>1, <3>1, <3>4
      <4>2. QED BY <2>1, <3>1, <4>1, <1>2
    <3>5. QED BY <3>1, <3>3, <3>4
  <2>3. ASSUME NEW j \in Node, j # o
        PROVE  AtMost(Incoming(m).versions[j], Incoming(x).versions[j])
    BY <1>1, <2>1, <2>3, IncomingStamps
  <2>4. QED BY <2>2, <2>3
<1>5. QED BY <1>2, <1>3, <1>4, StampTotalOrder

\* A merge leaves no stamp older than the one that came in.
LEMMA MergeAbsorbs ==
  ASSUME NEW agg, NEW p, NEW q, NEW j \in Node,
         p.versions[j] \in Stamp, q.versions[j] \in Stamp
  PROVE  AtMost(q.versions[j], Merge(agg, p, q).versions[j])
<1>1. Merge(agg, p, q).versions[j] = IF Accepts(agg, p, q, j)
                                     THEN q.versions[j] ELSE p.versions[j]
  BY DEF Merge
<1>2. CASE Accepts(agg, p, q, j)
  BY <1>1, <1>2, StampOrder
<1>3. CASE ~ Accepts(agg, p, q, j)
  <2>1. q.versions[j] = NoStamp \/ ~ Less(p.versions[j], q.versions[j])
    BY <1>3 DEF Accepts, Known
  <2>2. QED BY <1>1, <1>3, <2>1, StampOrder DEF AtMost
<1>4. QED BY <1>2, <1>3

\* A sum node that processes a datagram, by a merge or as equivalent, then
\* holds all its stamps or newer ones.
LEMMA Absorbs ==
  ASSUME TypeOK, NEW n \in Node, aggregation[n] = "sum", NEW x \in msgs,
         SkipEquivalent(n, x) \/ MergeRemote(n, x)
  PROVE  \A j \in Node : AtMost(Incoming(x).versions[j], versions'[n][j])
<1>1. LocalMaps(n).versions = versions[n]
      /\ \A j \in Node : versions[n][j] \in Stamp /\ Incoming(x).versions[j] \in Stamp
  BY IncomingStamps DEF LocalMaps, TypeOK, StampTypeOK
<1>2. CASE SkipEquivalent(n, x)
  <2>1. LocalMaps(n) = Incoming(x) /\ versions' = versions
    BY <1>2 DEF SkipEquivalent, Equivalent, samePayload, samePayloadSemantically
  <2>2. QED BY <1>1, <2>1, StampOrder
<1>3. CASE MergeRemote(n, x)
  <2>1. versions' = [versions EXCEPT ![n] = Merge("sum", LocalMaps(n), Incoming(x)).versions]
    BY <1>3 DEF MergeRemote, LocalForMerge
  <2>2. versions'[n] = Merge("sum", LocalMaps(n), Incoming(x)).versions
    BY <2>1 DEF TypeOK, StampTypeOK
  <2>3. ASSUME NEW j \in Node
        PROVE  AtMost(Incoming(x).versions[j], Merge("sum", LocalMaps(n), Incoming(x)).versions[j])
    BY <1>1, MergeAbsorbs
  <2>4. QED BY <2>2, <2>3
<1>4. QED BY <1>2, <1>3

\* The ledger of a node that runs on moves only by datagrams it processes.
LEMMA LedgerStep ==
  ASSUME TypeOK, [Next]_vars, NEW n \in Node, Running(n), Running(n)', NEW o \in Node
  PROVE  \/ lastSeen'[n][o] = lastSeen[n][o]
         \/ \E x \in msgs : /\ x.origin = o /\ lastSeen'[n][o] = x.version
                            /\ SkipEquivalent(n, x) \/ MergeRemote(n, x)
<1> USE DEF TypeOK, StampTypeOK
<1>1. ASSUME NEW k \in Node, Boot(k) \/ Stop(k)
      PROVE  k # n /\ lastSeen'[n] = lastSeen[n]
  <2>1. k # n
    BY <1>1 DEF Boot, Stop, Running
  <2>2. QED BY <1>1, <2>1 DEF Boot, Stop, FreshState
<1>2. ASSUME NEW k \in Node, NEW x \in msgs, SkipEquivalent(k, x) \/ MergeRemote(k, x)
      PROVE  \/ lastSeen'[n][o] = lastSeen[n][o]
             \/ k = n /\ x.origin = o /\ lastSeen'[n][o] = x.version
  <2>1. lastSeen' = [lastSeen EXCEPT ![k][x.origin] = maxVersion(@, x.version)]
    BY <1>2 DEF SkipEquivalent, MergeRemote, MarkLastSeen
  <2>2. x.origin \in Node
    BY DatagramStamps
  <2>3. QED BY <2>1, <2>2 DEF maxVersion
<1>3. ASSUME NEW k \in Node, NEW x \in msgs, IgnoreMessage(k, x) \/ DropMessage(k, x)
      PROVE  lastSeen' = lastSeen
  BY <1>3 DEF IgnoreMessage, DropMessage
<1>4. ASSUME NEW k \in Node, Round(k) \/ AnnounceLeave(k) \/ Recalculate(k)
      PROVE  lastSeen' = lastSeen
  BY <1>4 DEF Round, AnnounceLeave, Recalculate
<1>5. CASE UNCHANGED vars
  BY <1>5 DEF vars
<1>6. QED BY <1>1, <1>2, <1>3, <1>4, <1>5 DEF Next, NodeStep, Receive

LosslessInv == DatagramInv /\ SumStaleDropLossless

LEMMA LosslessStep ==
  ASSUME LosslessInv, [Next]_vars
  PROVE  SumStaleDropLossless'
<1>1. DatagramInv /\ TypeOK /\ TypeOK' /\ IInv
  BY TypeStep DEF LosslessInv, DatagramInv, IInv, TypeOK
<1>2. SUFFICES ASSUME NEW n \in Node, NEW m \in msgs',
                      Running(n)', aggregation'[n] = "sum", m.aggregation = aggregation'[n],
                      m.origin # n,
                      m.version.epoch = lastSeen'[n][m.origin].epoch,
                      AtMost(m.version, lastSeen'[n][m.origin]),
                      NEW j \in Node
               PROVE  AtMost(Incoming(m).versions[j], versions'[n][j])
  BY DEF SumStaleDropLossless, Mismatched, Running
<1> DEFINE o == m.origin
<1>3. o \in Node /\ m.version \in Stamp /\ m.version.epoch # 0
  BY <1>1, StampedStep DEF TypeOK, StampTypeOK, Stamped
<1>4. m \in msgs
  <2> SUFFICES ASSUME m \notin msgs PROVE FALSE
    OBVIOUS
  <2>1. PICK k \in Node : Round(k) \/ AnnounceLeave(k)
    BY OtherSteps
  <2>2. o = k /\ m.version = NextVersion(k) /\ lastSeen' = lastSeen /\ Running(k)
    BY <1>1, <2>1, NewDatagram DEF Round, AnnounceLeave, CanSend
  <2>3. lastSeen[n][k] \in Stamp /\ Reached(k, lastSeen[n][k])
    BY <1>1 DEF DatagramInv, OwnVersionDominates, TypeOK, StampTypeOK
  <2>4. Less(lastSeen[n][k], m.version)
    BY <1>1, <2>2, <2>3, NextIsNewer
  <2>5. QED BY <1>2, <2>2, <2>4 DEF AtMost
<1>5. Running(n) /\ aggregation[n] = aggregation'[n]
  <2>1. lastSeen'[n] # NoVersions
    BY <1>2, <1>3 DEF NoVersions, NoStamp
  <2>2. QED BY <1>1, <1>2, <2>1, ProcessStep
<1>6. /\ versions[n][j] \in Stamp /\ versions'[n][j] \in Stamp
      /\ Incoming(m).versions[j] \in Stamp
      /\ AtMost(versions[n][j], versions'[n][j])
  <2>1. AtMost(versions[n][j], versions'[n][j])
    BY <1>1, <1>2, <1>5, MonotoneStep DEF Monotone
  <2>2. QED BY <1>1, <1>4, <2>1, IncomingStamps DEF TypeOK, StampTypeOK
<1>7. CASE lastSeen'[n][o] = lastSeen[n][o]
  <2>1. AtMost(Incoming(m).versions[j], versions[n][j])
    BY <1>2, <1>4, <1>5, <1>7 DEF LosslessInv, SumStaleDropLossless, Mismatched
  <2>2. QED BY <1>6, <2>1, StampTotalOrder
<1>8. ASSUME NEW x \in msgs, x.origin = o, lastSeen'[n][o] = x.version,
             SkipEquivalent(n, x) \/ MergeRemote(n, x)
      PROVE  AtMost(Incoming(m).versions[j], versions'[n][j])
  <2>1. SameBoot(m, x) /\ AtMost(m.version, x.version)
    BY <1>2, <1>8 DEF SameBoot
  <2>2. AtMost(Incoming(m).versions[j], Incoming(x).versions[j])
    BY <1>1, <1>4, <2>1, IncomingOrder
  <2>3. AtMost(Incoming(x).versions[j], versions'[n][j])
    BY <1>1, <1>2, <1>5, <1>8, Absorbs
  <2>4. Incoming(x).versions[j] \in Stamp
    BY <1>1, IncomingStamps
  <2>5. QED BY <1>6, <2>2, <2>3, <2>4, StampTotalOrder
<1>9. QED BY <1>1, <1>2, <1>3, <1>5, <1>7, <1>8, LedgerStep

\* SumStaleDropLossless, for any order of arrival, at the nodes that sum: once
\* such a node has processed a datagram of a boot, every older one of that
\* boot, dropped as stale or never received, has nothing to add.  A node that
\* takes an average, a minimum or a maximum may lose something: it skips a
\* datagram of its own stamp and estimate without reading the map.
THEOREM SumStaleDropsLoseNothing == Spec => []SumStaleDropLossless
<1>1. Init => SumStaleDropLossless
  BY DEF Init, SumStaleDropLossless
<1>2. SumStaleDropLossless /\ DatagramInv /\ [Next]_vars => SumStaleDropLossless'
  BY LosslessStep DEF LosslessInv
<1>3. QED BY <1>1, <1>2, DatagramInvariance, PTL DEF Spec

-----------------------------------------------------------------------------
(* The values behind the stamps *)

Extremal == {"min", "max"}

\* A running node or a datagram holds v as the contribution of j of stamp s.
Copy(agg, j, s, v) ==
  /\ s # NoStamp
  /\ \/ \E i \in Node : /\ Running(i) /\ aggregation[i] = agg
                        /\ versions[i][j] = s /\ contributions[i][j] = v
     \/ \E m \in msgs : /\ m.aggregation = agg
                        /\ Incoming(m).versions[j] = s /\ Incoming(m).contributions[j] = v

\* A node makes a copy of its own: in a round, or in a leave or a merge that
\* finds no contribution yet and takes the estimate.
RoundCopy(j, s, v) ==
  Round(j) /\ s = NextVersion(j) /\ v = OwnContribution(j)

LeaveCopy(j, s, v) ==
  AnnounceLeave(j) /\ s = NextVersion(j) /\ v = value[j] /\ versions[j][j] = NoStamp

MergeCopy(j, s, v) ==
  /\ \E m \in msgs : MergeRemote(j, m)
  /\ aggregation[j] \in Extremal
  /\ versions[j][j] = NoStamp /\ versions'[j][j] # NoStamp
  /\ s = LocalVersion(j) /\ v = value[j]

NewCopy(agg, j, s, v) ==
  Running(j) /\ aggregation[j] = agg /\ (RoundCopy(j, s, v) \/ LeaveCopy(j, s, v) \/ MergeCopy(j, s, v))

\* The entry of a datagram's maps for j, once materialised.
LEMMA IncomingEntry ==
  ASSUME NEW m \in Message, NEW j \in Node
  PROVE  \/ /\ Incoming(m).versions[j] = m.versions[j]
            /\ Incoming(m).contributions[j] = m.contributions[j]
         \/ /\ j = m.origin /\ m.versions[j] = NoStamp
            /\ Incoming(m).versions[j] = m.version
            /\ Incoming(m).contributions[j] = m.value
  BY DEF Message, Incoming, Materialise, Known

\* A merge leaves for j the entry of the datagram, or the one that was there,
\* or the materialised one.
LEMMA MergeEntry ==
  ASSUME TypeOK, NEW n \in Node, NEW m \in msgs, MergeRemote(n, m), NEW j \in Node
  PROVE  \/ /\ versions'[n][j] = Incoming(m).versions[j]
            /\ contributions'[n][j] = Incoming(m).contributions[j]
         \/ /\ versions'[n][j] = versions[n][j]
            /\ contributions'[n][j] = contributions[n][j]
         \/ /\ j = n /\ aggregation[n] \in Extremal /\ versions[n][n] = NoStamp
            /\ versions'[n][j] = LocalVersion(n)
            /\ contributions'[n][j] = value[n]
<1> DEFINE agg   == aggregation[n]
           local == LocalForMerge(agg, LocalMaps(n), n, value[n], LocalVersion(n))
           q     == Incoming(m)
<1>1. /\ versions'[n] = Merge(agg, local, q).versions
      /\ contributions'[n] = Merge(agg, local, q).contributions
  BY DEF MergeRemote, TypeOK, StampTypeOK
<1>2. \/ local.versions[j] = versions[n][j] /\ local.contributions[j] = contributions[n][j]
      \/ /\ j = n /\ agg \in Extremal /\ versions[n][n] = NoStamp
         /\ local.versions[j] = LocalVersion(n)
         /\ local.contributions[j] = value[n]
  <2>1. local = LocalMaps(n) =>
          local.versions[j] = versions[n][j] /\ local.contributions[j] = contributions[n][j]
    BY DEF LocalMaps
  <2>2. CASE local # LocalMaps(n)
    <3>1. /\ agg \in Extremal /\ versions[n][n] = NoStamp
          /\ local = [contributions |-> [contributions[n] EXCEPT ![n] = value[n]],
                      versions      |-> [versions[n] EXCEPT ![n] = LocalVersion(n)]]
      BY <2>2 DEF LocalForMerge, Materialise, Known, LocalMaps, Extremal
    <3>2. /\ contributions[n] \in [Node -> Int] /\ versions[n] \in [Node -> Stamp]
      BY DEF TypeOK, StampTypeOK
    <3>3. QED BY <3>1, <3>2
  <2>3. QED BY <2>1, <2>2
<1> HIDE DEF local, q
<1>3. \/ /\ versions'[n][j] = q.versions[j]
         /\ contributions'[n][j] = q.contributions[j]
      \/ /\ versions'[n][j] = local.versions[j]
         /\ contributions'[n][j] = local.contributions[j]
  BY <1>1 DEF Merge
<1>4. QED BY <1>2, <1>3 DEF q

\* A merge into maps that are not blank gives an extremal node an entry of
\* its own.
LEMMA MergeFills ==
  ASSUME TypeOK, Stamped, NEW n \in Node, NEW m \in msgs, MergeRemote(n, m),
         aggregation[n] \in Extremal, Known(LocalMaps(n)) # {} \/ value[n] # 0
  PROVE  versions'[n][n] # NoStamp
<1> DEFINE agg   == aggregation[n]
           local == LocalForMerge(agg, LocalMaps(n), n, value[n], LocalVersion(n))
           q     == Incoming(m)
<1>1. LocalVersion(n) # NoStamp /\ LocalVersion(n) \in Stamp /\ versions[n] \in [Node -> Stamp]
  <2>1. epoch[n] # 0
    BY DEF Stamped, MergeRemote, Receives
  <2>2. QED BY <2>1, LocalStamps DEF LocalVersion, NoStamp, TypeOK, StampTypeOK
<1>2. local = Materialise(LocalMaps(n), n, value[n], LocalVersion(n))
  BY DEF LocalForMerge, Extremal
<1>3. local.versions[n] # NoStamp /\ local.versions \in [Node -> Stamp]
  <2>1. CASE n \in Known(LocalMaps(n))
    BY <1>1, <1>2, <2>1 DEF Materialise, Known, LocalMaps
  <2>2. CASE n \notin Known(LocalMaps(n))
    <3>1. local.versions = [versions[n] EXCEPT ![n] = LocalVersion(n)]
      BY <1>2, <2>2 DEF Materialise, LocalMaps
    <3>2. QED BY <1>1, <3>1
  <2>3. QED BY <2>1, <2>2
<1>4. q.versions \in [Node -> Stamp]
  BY IncomingVersions DEF TypeOK
<1>5. versions'[n] = Merge(agg, local, q).versions
  BY DEF MergeRemote, TypeOK, StampTypeOK
<1> HIDE DEF agg, local, q
<1>6. AtMost(local.versions[n], versions'[n][n]) /\ versions'[n][n] \in Stamp
  BY <1>3, <1>4, <1>5, MergeVersions
<1>7. QED BY <1>3, <1>6 DEF AtMost, Less, Stamp, NoStamp

\* Where an entry of a running node comes from: the state before the step, a
\* datagram, or a copy the node makes of its own.
LEMMA HeldStep ==
  ASSUME TypeOK, [Next]_vars, NEW i \in Node, Running(i)', NEW j \in Node,
         versions'[i][j] # NoStamp
  PROVE  /\ Running(i) /\ aggregation'[i] = aggregation[i]
         /\ \/ versions'[i][j] = versions[i][j] /\ contributions'[i][j] = contributions[i][j]
            \/ \E m \in msgs : /\ m.aggregation = aggregation[i]
                               /\ versions'[i][j] = Incoming(m).versions[j]
                               /\ contributions'[i][j] = Incoming(m).contributions[j]
            \/ i = j /\ \/ RoundCopy(j, versions'[i][j], contributions'[i][j])
                        \/ MergeCopy(j, versions'[i][j], contributions'[i][j])
<1> DEFINE Same == versions'[i][j] = versions[i][j] /\ contributions'[i][j] = contributions[i][j]
           Runs == Running(i) /\ aggregation'[i] = aggregation[i]
           From == \E m \in msgs : /\ m.aggregation = aggregation[i]
                                   /\ versions'[i][j] = Incoming(m).versions[j]
                                   /\ contributions'[i][j] = Incoming(m).contributions[j]
           Own  == i = j /\ \/ RoundCopy(j, versions'[i][j], contributions'[i][j])
                            \/ MergeCopy(j, versions'[i][j], contributions'[i][j])
<1>1. /\ contributions \in [Node -> [Node -> Int]] /\ versions \in [Node -> [Node -> Stamp]]
      /\ aggregation \in [Node -> Aggregations] /\ status \in [Node -> {"down", "up", "leaving"}]
  BY DEF TypeOK, StampTypeOK
<1>2. ASSUME NEW n \in Node, Boot(n) \/ Stop(n)
      PROVE  Runs /\ Same
  <2>1. n # i
    BY <1>1, <1>2 DEF Boot, Stop, FreshState, NoVersions, Running
  <2>2. QED BY <1>1, <1>2, <2>1 DEF Boot, Stop, FreshState, SeedValues, Running
<1>3. ASSUME NEW n \in Node, Round(n)
      PROVE  Runs /\ (Same \/ Own)
  <2>1. Runs
    BY <1>3 DEF Round, Running
  <2>2. /\ contributions' = [contributions EXCEPT ![n][n] = OwnContribution(n)]
        /\ versions' = [versions EXCEPT ![n][n] = NextVersion(n)]
    BY <1>3 DEF Round
  <2>3. CASE i = n /\ j = n
    <3>1. versions'[n][n] = NextVersion(n) /\ contributions'[n][n] = OwnContribution(n)
      BY <1>1, <2>2
    <3>2. QED BY <1>3, <2>1, <2>3, <3>1 DEF RoundCopy
  <2>4. CASE i # n \/ j # n
    BY <1>1, <2>1, <2>2, <2>4
  <2>5. QED BY <2>1, <2>3, <2>4
<1>4. ASSUME NEW n \in Node, AnnounceLeave(n)
      PROVE  Runs /\ Same
  BY <1>4 DEF AnnounceLeave, CanSend, Running, TypeOK, StampTypeOK
<1>5. ASSUME NEW n \in Node, NEW m \in msgs, MergeRemote(n, m)
      PROVE  Runs /\ (Same \/ From \/ Own)
  <2>1. Runs /\ m.aggregation = aggregation[n]
    BY <1>5 DEF MergeRemote, Running, Mismatched
  <2>2. CASE i = n
    BY <1>5, <2>1, <2>2, MergeEntry DEF MergeCopy
  <2>3. CASE i # n
    <3>1. versions'[i] = versions[i] /\ contributions'[i] = contributions[i]
      <4>1. \E p, q : /\ contributions' = [contributions EXCEPT ![n] = p]
                      /\ versions' = [versions EXCEPT ![n] = q]
        BY <1>5 DEF MergeRemote
      <4>2. QED BY <1>1, <2>3, <4>1
    <3>2. QED BY <2>1, <3>1
  <2>4. QED BY <2>1, <2>2, <2>3
<1>6. CASE UNCHANGED <<status, aggregation, versions, contributions>>
  BY <1>6 DEF Running
<1>7. ASSUME NEW n \in Node, \/ Recalculate(n)
                             \/ \E m \in msgs : \/ IgnoreMessage(n, m) \/ DropMessage(n, m)
                                                \/ SkipEquivalent(n, m)
      PROVE  UNCHANGED <<status, aggregation, versions, contributions>>
  BY <1>7 DEF Recalculate, IgnoreMessage, DropMessage, SkipEquivalent
<1> HIDE DEF Same, Runs, From, Own
<1>8. Runs /\ (Same \/ From \/ Own)
  <2>1. CASE UNCHANGED vars
    BY <2>1, <1>6 DEF vars, Same, Runs
  <2>2. ASSUME NEW n \in Node, NodeStep(n)
        PROVE  Runs /\ (Same \/ From \/ Own)
    BY <1>2, <1>3, <1>4, <1>5, <1>6, <1>7, <2>2 DEF NodeStep, Receive, Same, Runs
  <2>3. QED BY <2>1, <2>2 DEF Next
<1>9. QED BY <1>8 DEF Same, Runs, From, Own

\* Every copy was there before the step, or is made by its own node in it.
LEMMA CopyStep ==
  ASSUME TypeOK, [Next]_vars, NEW agg, NEW j \in Node, NEW s, NEW v, Copy(agg, j, s, v)'
  PROVE  Copy(agg, j, s, v) \/ NewCopy(agg, j, s, v)
<1>1. s # NoStamp
  BY DEF Copy
<1>2. ASSUME NEW i \in Node, Running(i)', aggregation'[i] = agg,
             versions'[i][j] = s, contributions'[i][j] = v
      PROVE  Copy(agg, j, s, v) \/ NewCopy(agg, j, s, v)
  BY <1>1, <1>2, HeldStep DEF Copy, NewCopy
<1>3. ASSUME NEW m \in msgs', m \notin msgs, m.aggregation = agg,
             Incoming(m).versions[j] = s, Incoming(m).contributions[j] = v
      PROVE  Copy(agg, j, s, v) \/ NewCopy(agg, j, s, v)
  <2>1. PICK n \in Node : Round(n) \/ AnnounceLeave(n)
    BY <1>3, OtherSteps
  <2>2. /\ m \in Message
        /\ m.origin = n /\ m.version = NextVersion(n) /\ m.aggregation = aggregation[n]
        /\ m.value = value'[n] /\ m.contributions = contributions'[n]
        /\ m.versions = versions'[n]
    BY <1>3, <2>1, NewDatagram
  <2>3. Running(n) /\ Running(n)' /\ aggregation'[n] = agg
    BY <1>3, <2>1, <2>2 DEF Round, AnnounceLeave, CanSend, Running, TypeOK, StampTypeOK
  <2>4. CASE s = versions'[n][j] /\ v = contributions'[n][j]
    BY <1>2, <2>3, <2>4
  <2>5. CASE j = n /\ versions'[n][n] = NoStamp /\ s = NextVersion(n) /\ v = value'[n]
    <3>1. AnnounceLeave(n)
      BY <1>1, <2>1, <2>5 DEF Round, TypeOK, StampTypeOK
    <3>2. LeaveCopy(j, s, v)
      BY <2>5, <3>1 DEF LeaveCopy, AnnounceLeave
    <3>3. QED BY <1>3, <2>2, <2>3, <2>5, <3>2 DEF NewCopy
  <2>6. QED BY <1>3, <2>2, <2>4, <2>5, IncomingEntry
<1>4. ASSUME NEW m \in msgs, m.aggregation = agg,
             Incoming(m).versions[j] = s, Incoming(m).contributions[j] = v
      PROVE  Copy(agg, j, s, v)
  BY <1>1, <1>4 DEF Copy
<1>5. QED BY <1>2, <1>3, <1>4 DEF Copy

\* A copy is of a stamp its node has reached.
LEMMA CopyReached ==
  ASSUME DatagramInv, NEW agg, NEW j \in Node, NEW s, NEW v, Copy(agg, j, s, v)
  PROVE  s \in Stamp /\ Reached(j, s)
<1>1. TypeOK /\ OwnVersionDominates
  BY DEF DatagramInv
<1>2. ASSUME NEW i \in Node, versions[i][j] = s
      PROVE  s \in Stamp /\ Reached(j, s)
  BY <1>1, <1>2 DEF OwnVersionDominates, TypeOK, StampTypeOK
<1>3. ASSUME NEW m \in msgs, Incoming(m).versions[j] = s
      PROVE  s \in Stamp /\ Reached(j, s)
  <2>1. s \in Stamp /\ (s = m.versions[j] \/ (j = m.origin /\ s = m.version))
    BY <1>1, <1>3, IncomingVersions, DatagramStamps DEF TypeOK
  <2>2. Reached(m.origin, m.version) /\ Reached(j, m.versions[j])
    BY <1>1 DEF OwnVersionDominates
  <2>3. QED BY <2>1, <2>2
<1>4. QED BY <1>2, <1>3 DEF Copy

\* What a node makes is newer than every copy there is, unless it fills in
\* its contribution in a merge.
LEMMA NewCopyStamp ==
  ASSUME DatagramInv, NEW agg, NEW j \in Node, NEW s, NEW v, NewCopy(agg, j, s, v)
  PROVE  /\ s \in Stamp /\ s.epoch = epoch[j] /\ Running(j)
         /\ \/ MergeCopy(j, s, v)
            \/ s = NextVersion(j) /\ \A w : ~ Copy(agg, j, s, w)
<1>1. TypeOK /\ Running(j)
  BY DEF DatagramInv, NewCopy
<1>2. /\ LocalVersion(j) \in Stamp /\ NextVersion(j) \in Stamp
      /\ LocalVersion(j).epoch = epoch[j] /\ NextVersion(j).epoch = epoch[j]
  BY <1>1, LocalStamps DEF TypeOK, LocalVersion, NextVersion
<1>3. CASE MergeCopy(j, s, v)
  BY <1>1, <1>2, <1>3 DEF MergeCopy
<1>4. CASE s = NextVersion(j)
  <2>1. \A w : ~ Copy(agg, j, s, w)
    BY <1>1, <1>2, <1>4, CopyReached, NextIsNewer
  <2>2. QED BY <1>1, <1>2, <1>4, <2>1
<1>5. QED BY <1>3, <1>4 DEF NewCopy, RoundCopy, LeaveCopy

-----------------------------------------------------------------------------
(* The values an extremal node starts from *)

\* A min or max node keeps the value it was configured with.
Seeded ==
  \A n \in Node : Running(n) /\ aggregation[n] \in Extremal =>
    [aggregation |-> aggregation[n], initialValue |-> localValue[n]] \in Configs[n]

\* Until it has a contribution of its own it has none at all, and exposes
\* its configured value, unless that is zero.
Filled ==
  \A n \in Node :
    /\ Running(n) /\ aggregation[n] \in Extremal
    /\ versions[n][n] = NoStamp /\ localValue[n] # 0
    => Known(LocalMaps(n)) = {} /\ value[n] = localValue[n]

SeedInv == DatagramInv /\ Seeded /\ Filled

\* What a boot seeds is a configuration.
LEMMA BootSeeds ==
  ASSUME TypeOK, NEW n \in Node, Boot(n)
  PROVE  /\ [aggregation |-> aggregation'[n], initialValue |-> localValue'[n]] \in Configs[n]
         /\ value'[n] = localValue'[n]
         /\ Known(LocalMaps(n))' = {}
<1>1. PICK c \in Configs[n] : SeedValues(n, c.aggregation, c.initialValue)
  BY DEF Boot
<1>2. c = [aggregation |-> c.aggregation, initialValue |-> c.initialValue]
  BY ConfigsAssumption
<1>3. /\ aggregation'[n] = c.aggregation /\ localValue'[n] = c.initialValue
      /\ value'[n] = c.initialValue
  BY <1>1 DEF SeedValues, TypeOK
<1>4. versions'[n] = NoVersions
  BY DEF Boot, FreshState, TypeOK, StampTypeOK
<1>5. Known(LocalMaps(n))' = {}
  BY <1>4 DEF Known, LocalMaps, NoVersions
<1>6. QED BY <1>1, <1>2, <1>3, <1>5

\* What a step does to the values of an extremal node.
LEMMA ValueStep ==
  ASSUME TypeOK, [Next]_vars, NEW n \in Node, Running(n)', aggregation'[n] \in Extremal
  PROVE  \/ Boot(n)
         \/ /\ Running(n) /\ aggregation'[n] = aggregation[n] /\ localValue'[n] = localValue[n]
            /\ \/ value'[n] = value[n] /\ versions'[n] = versions[n]
               \/ Round(n) \/ Recalculate(n) \/ \E m \in msgs : MergeRemote(n, m)
<1> DEFINE Runs == /\ Running(n) /\ aggregation'[n] = aggregation[n]
                   /\ localValue'[n] = localValue[n]
           Same == value'[n] = value[n] /\ versions'[n] = versions[n]
<1>1. /\ versions \in [Node -> [Node -> Stamp]] /\ value \in [Node -> Int]
      /\ aggregation \in [Node -> Aggregations] /\ localValue \in [Node -> Int]
      /\ status \in [Node -> {"down", "up", "leaving"}]
  BY DEF TypeOK, StampTypeOK
<1>2. ASSUME NEW k \in Node, Boot(k) \/ Stop(k)
      PROVE  Boot(n) \/ (Runs /\ Same)
  <2>1. CASE k = n
    BY <1>1, <1>2, <2>1 DEF Stop, Running
  <2>2. CASE k # n
    BY <1>1, <1>2, <2>2 DEF Boot, Stop, FreshState, SeedValues, Running
  <2>3. QED BY <2>1, <2>2
<1>3. ASSUME NEW k \in Node, Round(k)
      PROVE  Runs /\ (Same \/ Round(n))
  <2>1. /\ UNCHANGED <<status, aggregation>>
        /\ \E a, b : /\ versions' = [versions EXCEPT ![k][k] = a]
                     /\ value' = [value EXCEPT ![k] = b]
        /\ \/ localValue' = localValue
           \/ k # n /\ \E c : localValue' = [localValue EXCEPT ![k] = c]
           \/ k = n /\ aggregation[k] \in {"sum", "average"}
    BY <1>3 DEF Round
  <2>2. Running(n) /\ aggregation'[n] = aggregation[n] /\ localValue'[n] = localValue[n]
    BY <1>1, <2>1 DEF Running, Extremal
  <2>3. CASE k # n
    BY <1>1, <2>1, <2>2, <2>3
  <2>4. QED BY <1>3, <2>2, <2>3
<1>4. ASSUME NEW k \in Node, AnnounceLeave(k)
      PROVE  Runs /\ Same
  BY <1>1, <1>4 DEF AnnounceLeave, CanSend, Running
<1>5. ASSUME NEW k \in Node, NEW m \in msgs, MergeRemote(k, m)
      PROVE  Runs /\ (Same \/ MergeRemote(n, m))
  <2>1. /\ UNCHANGED <<status, aggregation, localValue>>
        /\ \E a, b : /\ versions' = [versions EXCEPT ![k] = a]
                     /\ value' = value \/ value' = [value EXCEPT ![k] = b]
    BY <1>5 DEF MergeRemote
  <2>2. QED BY <1>1, <1>5, <2>1 DEF Running
<1>6. ASSUME NEW k \in Node, Recalculate(k)
      PROVE  Runs /\ (Same \/ Recalculate(n))
  <2>1. /\ UNCHANGED <<status, aggregation, localValue, versions>>
        /\ value' = value \/ \E b : value' = [value EXCEPT ![k] = b]
    BY <1>6 DEF Recalculate
  <2>2. QED BY <1>1, <1>6, <2>1 DEF Running
<1>7. ASSUME UNCHANGED <<status, aggregation, localValue, versions, value>>
      PROVE  Runs /\ Same
  BY <1>7 DEF Running
<1>8. ASSUME NEW k \in Node, NEW m \in msgs,
             IgnoreMessage(k, m) \/ DropMessage(k, m) \/ SkipEquivalent(k, m)
      PROVE  UNCHANGED <<status, aggregation, localValue, versions, value>>
  BY <1>8 DEF IgnoreMessage, DropMessage, SkipEquivalent
<1> HIDE DEF Runs, Same
<1> DEFINE Goal == Boot(n) \/ (Runs /\ (Same \/ Round(n) \/ Recalculate(n)
                                          \/ \E m \in msgs : MergeRemote(n, m)))
<1>9. ASSUME NEW k \in Node, NEW m \in msgs, Receive(k, m)
      PROVE  Goal
  BY <1>5, <1>7, <1>8, <1>9 DEF Receive
<1>10. ASSUME NEW k \in Node, NodeStep(k)
       PROVE  Goal
  BY <1>2, <1>3, <1>4, <1>6, <1>9, <1>10 DEF NodeStep
<1>11. ASSUME UNCHANGED vars PROVE Goal
  BY <1>7, <1>11 DEF vars
<1>12. Goal
  BY <1>10, <1>11 DEF Next
<1>13. QED BY <1>12 DEF Runs, Same

\* A node whose configured value is not zero and that has no contribution of
\* its own after the step had none before, and kept its estimate.
LEMMA StillBlank ==
  ASSUME SeedInv, [Next]_vars, NEW n \in Node, Running(n), Running(n)',
         aggregation'[n] \in Extremal, versions'[n][n] = NoStamp, localValue[n] # 0
  PROVE  /\ versions'[n] = versions[n] /\ versions[n][n] = NoStamp
         /\ value'[n] = value[n] /\ localValue'[n] = localValue[n]
         /\ aggregation'[n] = aggregation[n]
<1>1. TypeOK /\ IInv /\ Stamped /\ Filled
  BY DEF SeedInv, DatagramInv, IInv, TypeOK
<1>2. /\ aggregation'[n] = aggregation[n] /\ localValue'[n] = localValue[n]
      /\ \/ value'[n] = value[n] /\ versions'[n] = versions[n]
         \/ Round(n) \/ Recalculate(n) \/ \E m \in msgs : MergeRemote(n, m)
  <2>1. ~ Boot(n)
    BY DEF Boot, Running
  <2>2. QED BY <1>1, <2>1, ValueStep
<1>3. versions[n][n] = NoStamp
  <2>1. versions[n][n] \in Stamp /\ AtMost(versions[n][n], NoStamp)
    BY <1>1, MonotoneStep DEF Monotone, TypeOK, StampTypeOK
  <2>2. QED BY <2>1 DEF AtMost, Less, Stamp, NoStamp
<1>4. Known(LocalMaps(n)) = {} /\ value[n] = localValue[n]
  BY <1>1, <1>2, <1>3 DEF Filled
<1>5. ~ Round(n)
  <2>1. ASSUME Round(n) PROVE FALSE
    <3>1. versions'[n][n] = NextVersion(n)
      BY <1>1, <2>1 DEF Round, TypeOK, StampTypeOK
    <3>2. counter[n] \in Nat
      BY <1>1 DEF TypeOK, StampTypeOK
    <3>3. QED BY <3>1, <3>2 DEF NextVersion, NoStamp
  <2>2. QED BY <2>1
<1>6. ASSUME NEW m \in msgs, MergeRemote(n, m) PROVE FALSE
  BY <1>1, <1>2, <1>4, <1>6, MergeFills
<1>7. CASE Recalculate(n)
  BY <1>2, <1>3, <1>4, <1>7 DEF Recalculate
<1>8. QED BY <1>2, <1>3, <1>5, <1>6, <1>7

LEMMA SeedStep ==
  ASSUME SeedInv, [Next]_vars
  PROVE  Seeded' /\ Filled'
<1>1. TypeOK
  BY DEF SeedInv, DatagramInv
<1>2. ASSUME NEW n \in Node, Running(n)', aggregation'[n] \in Extremal
      PROVE  [aggregation |-> aggregation'[n], initialValue |-> localValue'[n]] \in Configs[n]
  <2>1. CASE Boot(n)
    BY <1>1, <2>1, BootSeeds
  <2>2. CASE ~ Boot(n)
    <3>1. Running(n) /\ aggregation'[n] = aggregation[n] /\ localValue'[n] = localValue[n]
      BY <1>1, <1>2, <2>2, ValueStep
    <3>2. QED BY <1>2, <3>1 DEF SeedInv, Seeded
  <2>3. QED BY <2>1, <2>2
<1>3. ASSUME NEW n \in Node, Running(n)', aggregation'[n] \in Extremal,
             versions'[n][n] = NoStamp, localValue'[n] # 0
      PROVE  Known(LocalMaps(n))' = {} /\ value'[n] = localValue'[n]
  <2>1. CASE Boot(n)
    BY <1>1, <2>1, BootSeeds
  <2>2. CASE ~ Boot(n)
    <3>1. Running(n) /\ localValue'[n] = localValue[n]
      BY <1>1, <1>3, <2>2, ValueStep
    <3>2. /\ versions'[n] = versions[n] /\ versions[n][n] = NoStamp
          /\ value'[n] = value[n] /\ aggregation'[n] = aggregation[n]
      BY <1>3, <3>1, StillBlank
    <3>3. Known(LocalMaps(n)) = {} /\ value[n] = localValue[n]
      BY <1>3, <3>1, <3>2 DEF SeedInv, Filled
    <3>4. QED BY <3>1, <3>2, <3>3 DEF Known, LocalMaps
  <2>3. QED BY <2>1, <2>2
<1>4. QED BY <1>2, <1>3 DEF Seeded, Filled

-----------------------------------------------------------------------------
(* A stamp identifies a contribution *)

\* The nodes that may leave are not configured with a zero minimum or
\* maximum.  Such a node would merge without filling in its contribution,
\* could announce its leave before its first round, and then show two
\* estimates under the stamp of the leave.
LeaversCarryValue ==
  \A n \in Node : n \in Leavers =>
    \A c \in Configs[n] : c.aggregation \in Extremal => c.initialValue # 0

\* While an extremal node has no contribution of its own, the only copies of
\* it of this boot come from its leave, and hold its estimate.
Blank ==
  \A n \in Node : \A s, v :
    /\ Running(n) /\ aggregation[n] \in Extremal /\ versions[n][n] = NoStamp
    /\ Copy(aggregation[n], n, s, v) /\ s.epoch = epoch[n]
    => n \in Leavers /\ v = value[n]

Agree ==
  \A agg \in Aggregations : \A j \in Node : \A s, v, w :
    Copy(agg, j, s, v) /\ Copy(agg, j, s, w) => v = w

CopyInv == SeedInv /\ Blank /\ Agree

LEMMA BlankStep ==
  ASSUME LeaversCarryValue, CopyInv, [Next]_vars
  PROVE  Blank'
<1>1. SeedInv /\ DatagramInv /\ TypeOK /\ TypeOK' /\ IInv /\ Stamped /\ Seeded /\ Filled
  BY TypeStep DEF CopyInv, SeedInv, DatagramInv, IInv, TypeOK
<1>2. SUFFICES ASSUME NEW n \in Node, NEW s, NEW v, NEW agg, agg = aggregation'[n],
                      Running(n)', agg \in Extremal, versions'[n][n] = NoStamp,
                      Copy(agg, n, s, v)', s.epoch = epoch'[n]
               PROVE  n \in Leavers /\ v = value'[n]
  BY DEF Blank, Copy
<1>3. Copy(agg, n, s, v) \/ NewCopy(agg, n, s, v)
  BY <1>1, <1>2, CopyStep
<1>4. /\ Running(n) /\ epoch'[n] = epoch[n] /\ agg = aggregation[n]
  <2>1. CASE status[n] = "down" /\ epoch'[n] = epoch[n] + 1
    <3>1. ~ NewCopy(agg, n, s, v)
      BY <2>1 DEF NewCopy, Running
    <3>2. s \in Stamp /\ Reached(n, s) /\ epoch[n] \in Nat
      BY <1>1, <1>3, <3>1, CopyReached DEF TypeOK, StampTypeOK
    <3>3. s.epoch \in Nat /\ s.epoch <= epoch[n]
      BY <3>2 DEF Reached, Stamp
    <3>4. QED BY <1>2, <2>1, <3>2, <3>3
  <2>2. QED BY <1>1, <1>2, <2>1, ProcessStep
<1>5. versions[n][n] = NoStamp
  <2>1. versions[n][n] \in Stamp /\ AtMost(versions[n][n], NoStamp)
    BY <1>1, <1>2, <1>4, MonotoneStep DEF Monotone, TypeOK, StampTypeOK
  <2>2. QED BY <2>1 DEF AtMost, Less, Stamp, NoStamp
<1>6. ~ RoundCopy(n, s, v) /\ ~ MergeCopy(n, s, v)
  <2>1. NextVersion(n) # NoStamp
    BY <1>1 DEF NextVersion, NoStamp, TypeOK, StampTypeOK
  <2>2. Round(n) => versions'[n][n] = NextVersion(n)
    BY <1>1 DEF Round, TypeOK, StampTypeOK
  <2>3. QED BY <1>2, <2>1, <2>2 DEF RoundCopy, MergeCopy
<1>7. n \in Leavers /\ v = value[n]
  <2>1. CASE Copy(agg, n, s, v)
    BY <1>2, <1>4, <1>5, <2>1 DEF CopyInv, Blank
  <2>2. CASE LeaveCopy(n, s, v)
    BY <2>2 DEF LeaveCopy, AnnounceLeave
  <2>3. QED BY <1>3, <1>6, <2>1, <2>2 DEF NewCopy
<1>8. localValue[n] # 0
  BY <1>1, <1>2, <1>4, <1>7 DEF Seeded, LeaversCarryValue
<1>9. QED BY <1>1, <1>2, <1>4, <1>7, <1>8, StillBlank

\* The copies a node makes in one step agree.
LEMMA NewCopiesAgree ==
  ASSUME TypeOK, NEW agg, NEW j \in Node, NEW s, NEW v, NEW w,
         NewCopy(agg, j, s, v), NewCopy(agg, j, s, w)
  PROVE  v = w
<1>1. LocalVersion(j) # NextVersion(j)
  BY DEF LocalVersion, NextVersion, TypeOK, StampTypeOK
<1>2. ~ (Round(j) /\ AnnounceLeave(j))
  BY DEF Round, AnnounceLeave, TypeOK, StampTypeOK
<1>3. QED BY <1>1, <1>2 DEF NewCopy, RoundCopy, LeaveCopy, MergeCopy

LEMMA AgreeStep ==
  ASSUME CopyInv, [Next]_vars
  PROVE  Agree'
<1>1. DatagramInv /\ TypeOK
  BY DEF CopyInv, SeedInv, DatagramInv
<1>2. SUFFICES ASSUME NEW agg \in Aggregations, NEW j \in Node, NEW s, NEW v, NEW w,
                      Copy(agg, j, s, v)', Copy(agg, j, s, w)'
               PROVE  v = w
  BY DEF Agree
<1>3. ASSUME NEW x, NEW y, Copy(agg, j, s, x), NewCopy(agg, j, s, y)
      PROVE  x = y
  <2>1. MergeCopy(j, s, y) /\ Running(j) /\ s.epoch = epoch[j]
    BY <1>1, <1>3, NewCopyStamp
  <2>2. /\ aggregation[j] \in Extremal /\ aggregation[j] = agg
        /\ versions[j][j] = NoStamp /\ y = value[j]
    BY <1>3, <2>1 DEF MergeCopy, NewCopy
  <2>3. x = value[j]
    BY <1>3, <2>1, <2>2 DEF CopyInv, Blank
  <2>4. QED BY <2>2, <2>3
<1>4. ASSUME NEW x, Copy(agg, j, s, x)'
      PROVE  Copy(agg, j, s, x) \/ NewCopy(agg, j, s, x)
  BY <1>1, <1>4, CopyStep
<1>5. CASE Copy(agg, j, s, v) /\ Copy(agg, j, s, w)
  BY <1>5 DEF CopyInv, Agree
<1>6. CASE NewCopy(agg, j, s, v) /\ NewCopy(agg, j, s, w)
  BY <1>1, <1>6, NewCopiesAgree
<1>7. QED BY <1>2, <1>3, <1>4, <1>5, <1>6

\* Seeded and Filled need no hypothesis.
LEMMA SeedInvariance == Spec => []SeedInv
<1>1. Init => Seeded /\ Filled
  BY DEF Init, Seeded, Filled, Running
<1>2. Seeded /\ Filled /\ DatagramInv /\ [Next]_vars => Seeded' /\ Filled'
  BY SeedStep DEF SeedInv
<1>3. Seeded /\ Filled /\ DatagramInv => SeedInv
  BY DEF SeedInv
<1>4. QED BY <1>1, <1>2, <1>3, DatagramInvariance, PTL DEF Spec

\* Two replicas with the same stamp for a node hold copies of that stamp.
LEMMA CopiesAreCompatible ==
  ASSUME TypeOK, Agree
  PROVE  StampIdentifiesContribution
<1>1. ASSUME NEW agg, NEW p \in Replicas(agg), NEW j \in Known(p)
      PROVE  j \in Node /\ Copy(agg, j, p.versions[j], p.contributions[j])
  BY DEF Replicas, Known, Copy, LocalMaps
<1>2. QED BY <1>1 DEF StampIdentifiesContribution, Compatible, Agree

\* StampIdentifiesContribution, for any cluster, any configurations and any
\* order of arrival, provided no node that may leave carries a zero minimum
\* or maximum: the tie-break of the merge never decides between nodes.
THEOREM StampsIdentifyContributions ==
  ASSUME LeaversCarryValue
  PROVE  Spec => []StampIdentifiesContribution
<1>1. Init => Blank /\ Agree
  BY DEF Init, Blank, Agree, Copy, Running
<1>2. SeedInv /\ Blank /\ Agree /\ [Next]_vars => Blank' /\ Agree'
  BY BlankStep, AgreeStep DEF CopyInv
<1>3. SeedInv /\ Blank /\ Agree => StampIdentifiesContribution
  BY CopiesAreCompatible DEF SeedInv, DatagramInv
<1>4. QED BY <1>1, <1>2, <1>3, SeedInvariance, PTL DEF Spec

-----------------------------------------------------------------------------
(* A contribution is a configured value *)

\* No node is configured with zero, which a round takes for "not seeded";
\* and a node that may leave, and may so publish its estimate as its own
\* contribution before it has one, runs a minimum or a maximum.
ValuesStandForThemselves ==
  \A n \in Node : \A c \in Configs[n] :
    c.initialValue # 0 /\ (n \in Leavers => c.aggregation \in Extremal)

\* A running node keeps a value it was configured with, and every copy of a
\* contribution is one.
LocalConfigured ==
  \A n \in Node : Running(n) =>
    [aggregation |-> aggregation[n], initialValue |-> localValue[n]] \in Configs[n]

Configured ==
  \A agg \in Aggregations : \A j \in Node : \A s, v :
    Copy(agg, j, s, v) => [aggregation |-> agg, initialValue |-> v] \in Configs[j]

\* The value of a node moves with a boot, or with the first round of a sum
\* or an average, which takes it from the contribution.
LEMMA LocalValueStep ==
  ASSUME TypeOK, [Next]_vars, NEW n \in Node, Running(n)'
  PROVE  \/ Boot(n)
         \/ /\ Running(n) /\ aggregation'[n] = aggregation[n]
            /\ \/ localValue'[n] = localValue[n]
               \/ versions[n][n] = NoStamp /\ localValue'[n] = OwnContribution(n)
<1> DEFINE Goal == \/ Boot(n)
                   \/ /\ Running(n) /\ aggregation'[n] = aggregation[n]
                      /\ \/ localValue'[n] = localValue[n]
                         \/ versions[n][n] = NoStamp /\ localValue'[n] = OwnContribution(n)
<1>1. /\ aggregation \in [Node -> Aggregations] /\ localValue \in [Node -> Int]
      /\ status \in [Node -> {"down", "up", "leaving"}]
  BY DEF TypeOK, StampTypeOK
<1>2. ASSUME NEW k \in Node, Boot(k) \/ Stop(k)
      PROVE  Goal
  <2>1. CASE k = n
    BY <1>1, <1>2, <2>1 DEF Stop, Running
  <2>2. CASE k # n
    BY <1>1, <1>2, <2>2 DEF Boot, Stop, SeedValues, Running
  <2>3. QED BY <2>1, <2>2
<1>3. ASSUME NEW k \in Node, Round(k)
      PROVE  Goal
  <2>1. /\ UNCHANGED <<status, aggregation>>
        /\ \/ localValue' = localValue
           \/ /\ k \notin Known(LocalMaps(k))
              /\ localValue' = [localValue EXCEPT ![k] = OwnContribution(k)]
    BY <1>3 DEF Round
  <2>2. k \notin Known(LocalMaps(k)) => versions[k][k] = NoStamp
    BY DEF Known, LocalMaps
  <2>3. QED BY <1>1, <2>1, <2>2 DEF Running
<1>4. ASSUME UNCHANGED <<aggregation, localValue>>, Running(n)
      PROVE  Goal
  BY <1>4
<1>5. ASSUME NEW k \in Node, \/ AnnounceLeave(k) \/ Recalculate(k)
                             \/ \E m \in msgs : Receive(k, m)
      PROVE  UNCHANGED <<aggregation, localValue>> /\ Running(n)
  BY <1>1, <1>5
  DEF AnnounceLeave, CanSend, Running, Recalculate, Receive, IgnoreMessage, DropMessage,
      SkipEquivalent, MergeRemote
<1>6. ASSUME UNCHANGED vars
      PROVE  UNCHANGED <<aggregation, localValue>> /\ Running(n)
  BY <1>6 DEF vars, Running
<1> HIDE DEF Goal
<1>7. Goal
  BY <1>2, <1>3, <1>4, <1>5, <1>6 DEF Next, NodeStep
<1>8. QED BY <1>7 DEF Goal

ConfiguredInv == SeedInv /\ LocalConfigured /\ Configured

\* What a round publishes is configured.
LEMMA OwnConfigured ==
  ASSUME ValuesStandForThemselves, ConfiguredInv, NEW n \in Node, Running(n)
  PROVE  [aggregation |-> aggregation[n], initialValue |-> OwnContribution(n)] \in Configs[n]
<1>1. aggregation[n] \in Aggregations
  BY DEF ConfiguredInv, SeedInv, DatagramInv, TypeOK
<1>2. [aggregation |-> aggregation[n], initialValue |-> localValue[n]] \in Configs[n]
  BY DEF ConfiguredInv, LocalConfigured
<1>3. localValue[n] # 0
  BY <1>2 DEF ValuesStandForThemselves
<1>4. CASE n \in Known(LocalMaps(n))
  <2>1. Copy(aggregation[n], n, versions[n][n], contributions[n][n])
    BY <1>4 DEF Copy, Known, LocalMaps
  <2>2. QED BY <1>1, <1>4, <2>1 DEF ConfiguredInv, Configured, OwnContribution
<1>5. CASE n \notin Known(LocalMaps(n))
  BY <1>2, <1>3, <1>5 DEF OwnContribution
<1>6. QED BY <1>4, <1>5

\* So is every copy a node makes.
LEMMA NewConfigured ==
  ASSUME ValuesStandForThemselves, ConfiguredInv, NEW agg, NEW j \in Node, NEW s, NEW v,
         NewCopy(agg, j, s, v)
  PROVE  [aggregation |-> agg, initialValue |-> v] \in Configs[j]
<1>1. Running(j) /\ agg = aggregation[j]
  BY DEF NewCopy
<1>2. [aggregation |-> agg, initialValue |-> localValue[j]] \in Configs[j]
  BY <1>1 DEF ConfiguredInv, LocalConfigured
<1>3. localValue[j] # 0 /\ (j \in Leavers => agg \in Extremal)
  BY <1>2 DEF ValuesStandForThemselves
<1>4. CASE RoundCopy(j, s, v)
  BY <1>1, <1>4, OwnConfigured DEF RoundCopy
<1>5. CASE LeaveCopy(j, s, v) \/ MergeCopy(j, s, v)
  <2>1. agg \in Extremal /\ versions[j][j] = NoStamp /\ v = value[j]
    BY <1>1, <1>3, <1>5 DEF LeaveCopy, MergeCopy, AnnounceLeave
  <2>2. v = localValue[j]
    BY <1>1, <1>3, <2>1 DEF ConfiguredInv, SeedInv, Filled
  <2>3. QED BY <1>2, <2>2
<1>6. QED BY <1>4, <1>5 DEF NewCopy

LEMMA ConfiguredStep ==
  ASSUME ValuesStandForThemselves, ConfiguredInv, [Next]_vars
  PROVE  LocalConfigured' /\ Configured'
<1>1. TypeOK
  BY DEF ConfiguredInv, SeedInv, DatagramInv
<1>2. ASSUME NEW n \in Node, Running(n)'
      PROVE  [aggregation |-> aggregation'[n], initialValue |-> localValue'[n]] \in Configs[n]
  <2>1. CASE Boot(n)
    BY <1>1, <2>1, BootSeeds
  <2>2. CASE ~ Boot(n)
    <3>1. /\ Running(n) /\ aggregation'[n] = aggregation[n]
          /\ localValue'[n] = localValue[n] \/ localValue'[n] = OwnContribution(n)
      BY <1>1, <1>2, <2>2, LocalValueStep
    <3>2. [aggregation |-> aggregation[n], initialValue |-> localValue[n]] \in Configs[n]
      BY <3>1 DEF ConfiguredInv, LocalConfigured
    <3>3. QED BY <3>1, <3>2, OwnConfigured
  <2>3. QED BY <2>1, <2>2
<1>3. ASSUME NEW agg \in Aggregations, NEW j \in Node, NEW s, NEW v, Copy(agg, j, s, v)'
      PROVE  [aggregation |-> agg, initialValue |-> v] \in Configs[j]
  <2>1. CASE Copy(agg, j, s, v)
    BY <2>1 DEF ConfiguredInv, Configured
  <2>2. CASE NewCopy(agg, j, s, v)
    BY <2>2, NewConfigured
  <2>3. QED BY <1>1, <1>3, <2>1, <2>2, CopyStep
<1>4. QED BY <1>2, <1>3 DEF LocalConfigured, Configured

\* ContributionIsConfigured, for any cluster of nodes with nonzero values
\* whose leavers run a minimum or a maximum: no estimate is ever fed back as
\* a contribution, and the contributions of two aggregations never mix.
THEOREM ContributionsAreConfigured ==
  ASSUME ValuesStandForThemselves
  PROVE  Spec => []ContributionIsConfigured
<1>1. Init => LocalConfigured /\ Configured
  BY DEF Init, LocalConfigured, Configured, Copy, Running
<1>2. SeedInv /\ LocalConfigured /\ Configured /\ [Next]_vars => LocalConfigured' /\ Configured'
  BY ConfiguredStep DEF ConfiguredInv
<1>3. Configured => ContributionIsConfigured
  <2>1. ASSUME NEW agg, NEW p \in Replicas(agg), NEW j \in Known(p)
        PROVE  j \in Node /\ Copy(agg, j, p.versions[j], p.contributions[j])
    BY DEF Replicas, Known, Copy, LocalMaps
  <2>2. QED BY <2>1 DEF ContributionIsConfigured, Configured
<1>4. QED BY <1>1, <1>2, <1>3, SeedInvariance, PTL DEF Spec

-----------------------------------------------------------------------------
(* Estimates *)

\* What a step leaves of a running node that has contributions: its estimate
\* and its maps, or an estimate derived from the maps, or a merge.
LEMMA EstimateStep ==
  ASSUME TypeOK, [Next]_vars, NEW n \in Node, Running(n)', Known(LocalMaps(n))' # {}
  PROVE  /\ Running(n) /\ aggregation'[n] = aggregation[n]
         /\ EligibleViews(n) \subseteq EligibleViews(n)'
         /\ \/ /\ UNCHANGED <<value[n], LocalMaps(n)>>
               /\ handling'[n] \/ handling'[n] = handling[n]
            \/ \E view \in EligibleViews(n)' :
                 value'[n] = EstimateOver(aggregation'[n], LocalMaps(n)', view)
            \/ handling'[n] /\ \E m \in msgs : MergeRemote(n, m)
<1> DEFINE Runs == /\ Running(n) /\ aggregation'[n] = aggregation[n]
                   /\ EligibleViews(n) \subseteq EligibleViews(n)'
           Same == /\ UNCHANGED <<value[n], LocalMaps(n)>>
                   /\ handling'[n] \/ handling'[n] = handling[n]
           Derived == \E view \in EligibleViews(n)' :
                        value'[n] = EstimateOver(aggregation'[n], LocalMaps(n)', view)
           Merged == handling'[n] /\ \E m \in msgs : MergeRemote(n, m)
<1>1. /\ status \in [Node -> {"down", "up", "leaving"}]
      /\ aggregation \in [Node -> Aggregations] /\ value \in [Node -> Int]
      /\ contributions \in [Node -> [Node -> Int]] /\ versions \in [Node -> [Node -> Stamp]]
      /\ handling \in [Node -> BOOLEAN]
  BY DEF TypeOK, StampTypeOK
<1>2. ASSUME Running(n), UNCHANGED <<status[n], aggregation[n]>> \/
                         (AnnounceLeave(n) /\ UNCHANGED aggregation)
      PROVE  Runs
  BY <1>1, <1>2 DEF EligibleViews, AnnounceLeave, Running
<1>3. ASSUME UNCHANGED <<value[n], contributions[n], versions[n]>>
      PROVE  UNCHANGED <<value[n], LocalMaps(n)>>
  BY <1>3 DEF LocalMaps
<1>4. ASSUME NEW k \in Node, Boot(k) \/ Stop(k)
      PROVE  Runs /\ Same
  <2>1. k # n
    BY <1>1, <1>4 DEF Boot, Stop, FreshState, Running, Known, LocalMaps, NoVersions
  <2>2. /\ status'[n] = status[n] /\ aggregation'[n] = aggregation[n] /\ handling'[n] = handling[n]
        /\ value'[n] = value[n] /\ contributions'[n] = contributions[n]
        /\ versions'[n] = versions[n]
    BY <1>1, <1>4, <2>1 DEF Boot, Stop, FreshState, SeedValues
  <2>3. Running(n)
    BY <2>2 DEF Running
  <2>4. QED BY <1>2, <1>3, <2>2, <2>3
<1>5. ASSUME NEW k \in Node, Round(k)
      PROVE  Runs /\ (Same \/ Derived)
  <2>1. PICK view \in EligibleViews(k) :
          value' = [value EXCEPT ![k] =
                     EstimateOver(aggregation[k],
                       [contributions |-> contributions'[k], versions |-> versions'[k]], view)]
    BY <1>5 DEF Round
  <2>2. /\ UNCHANGED <<status, aggregation, handling>>
        /\ contributions' = [contributions EXCEPT ![k][k] = OwnContribution(k)]
        /\ versions' = [versions EXCEPT ![k][k] = NextVersion(k)]
    BY <1>5 DEF Round
  <2>3. Runs
    BY <1>2, <2>2 DEF Running
  <2>4. CASE k = n
    <3>1. value'[n] = EstimateOver(aggregation[n], LocalMaps(n)', view)
      BY <1>1, <2>1, <2>4 DEF LocalMaps
    <3>2. QED BY <2>1, <2>2, <2>3, <2>4, <3>1
  <2>5. CASE k # n
    BY <1>1, <1>3, <2>1, <2>2, <2>3, <2>5
  <2>6. QED BY <2>4, <2>5
<1>6. ASSUME NEW k \in Node, AnnounceLeave(k)
      PROVE  Runs /\ Same
  <2>1. /\ UNCHANGED <<aggregation, value, contributions, versions, handling>>
        /\ status' = [status EXCEPT ![k] = "leaving"] /\ status[k] = "up"
    BY <1>6 DEF AnnounceLeave
  <2>2. Running(n)
    BY <1>1, <2>1 DEF Running
  <2>3. QED BY <1>1, <1>2, <1>3, <1>6, <2>1, <2>2
<1>7. ASSUME NEW k \in Node, Recalculate(k)
      PROVE  Runs /\ (Same \/ Derived)
  <2>1. PICK view \in EligibleViews(k) :
          value' = IF Known(LocalMaps(k)) = {} THEN value
                   ELSE [value EXCEPT ![k] = EstimateOver(aggregation[k], LocalMaps(k), view)]
    BY <1>7 DEF Recalculate
  <2>2. /\ UNCHANGED <<status, aggregation, contributions, versions>>
        /\ handling' = [handling EXCEPT ![k] = FALSE]
    BY <1>7 DEF Recalculate
  <2>3. Runs
    BY <1>2, <2>2 DEF Running
  <2>4. LocalMaps(n)' = LocalMaps(n) /\ Known(LocalMaps(n)) # {}
    BY <2>2 DEF LocalMaps, Known
  <2>5. CASE k = n
    <3>1. value'[n] = EstimateOver(aggregation'[n], LocalMaps(n)', view)
      BY <1>1, <2>1, <2>2, <2>4, <2>5
    <3>2. QED BY <2>1, <2>3, <2>5, <3>1
  <2>6. CASE k # n
    BY <1>1, <1>3, <2>1, <2>2, <2>3, <2>6
  <2>7. QED BY <2>5, <2>6
<1>8. ASSUME NEW k \in Node, NEW m \in msgs, MergeRemote(k, m)
      PROVE  Runs /\ (Same \/ Merged)
  <2>1. /\ UNCHANGED <<status, aggregation>>
        /\ handling' = [handling EXCEPT ![k] = TRUE]
        /\ \E a, b, c : /\ contributions' = [contributions EXCEPT ![k] = a]
                        /\ versions' = [versions EXCEPT ![k] = b]
                        /\ value' = value \/ value' = [value EXCEPT ![k] = c]
    BY <1>8 DEF MergeRemote, StartHandling
  <2>2. Runs
    BY <1>2, <2>1 DEF Running
  <2>3. CASE k = n
    BY <1>1, <1>8, <2>1, <2>2, <2>3
  <2>4. CASE k # n
    BY <1>1, <1>3, <2>1, <2>2, <2>4
  <2>5. QED BY <2>3, <2>4
<1>9. ASSUME UNCHANGED <<status, aggregation, value, contributions, versions>>,
             handling' = handling \/ \E k \in Node : StartHandling(k)
      PROVE  Runs /\ Same
  BY <1>1, <1>2, <1>3, <1>9 DEF Running, StartHandling
<1>10. ASSUME NEW k \in Node, NEW m \in msgs,
              IgnoreMessage(k, m) \/ DropMessage(k, m) \/ SkipEquivalent(k, m)
       PROVE  Runs /\ Same
  BY <1>9, <1>10 DEF IgnoreMessage, DropMessage, SkipEquivalent
<1> HIDE DEF Runs, Same, Derived, Merged
<1>11. ASSUME NEW k \in Node, NEW m \in msgs, Receive(k, m)
       PROVE  Runs /\ (Same \/ Merged)
  BY <1>8, <1>10, <1>11 DEF Receive
<1>12. ASSUME UNCHANGED vars PROVE Runs /\ Same
  BY <1>9, <1>12 DEF vars
<1>13. Runs /\ (Same \/ Derived \/ Merged)
  BY <1>4, <1>5, <1>6, <1>7, <1>11, <1>12 DEF Next, NodeStep
<1>14. QED BY <1>13 DEF Runs, Same, Derived, Merged

\* EstimateIsCurrent, for any cluster, any views and any configurations:
\* whatever rounds, merges, leaves and fast paths do, the estimate between
\* two datagrams follows from the contributions a node holds at that moment.
THEOREM EstimatesAreCurrent == Spec => []EstimateIsCurrent
<1>1. Init => EstimateIsCurrent
  BY DEF Init, EstimateIsCurrent, Running
<1>2. ASSUME TypeOK, EstimateIsCurrent, [Next]_vars
      PROVE  EstimateIsCurrent'
  <2>1. SUFFICES ASSUME NEW n \in Node, Running(n)', ~ handling'[n], Known(LocalMaps(n))' # {}
                 PROVE  \E view \in EligibleViews(n)' :
                          value'[n] = EstimateOver(aggregation'[n], LocalMaps(n)', view)
    BY DEF EstimateIsCurrent
  <2>2. CASE \E view \in EligibleViews(n)' :
               value'[n] = EstimateOver(aggregation'[n], LocalMaps(n)', view)
    BY <2>2
  <2>3. CASE UNCHANGED <<value[n], LocalMaps(n)>> /\ handling'[n] = handling[n]
    <3>1. Running(n) /\ aggregation'[n] = aggregation[n]
          /\ EligibleViews(n) \subseteq EligibleViews(n)'
      BY <1>2, <2>1, EstimateStep
    <3>2. Known(LocalMaps(n)) # {} /\ ~ handling[n]
      BY <2>1, <2>3
    <3>3. PICK view \in EligibleViews(n) :
            value[n] = EstimateOver(aggregation[n], LocalMaps(n), view)
      BY <1>2, <3>1, <3>2 DEF EstimateIsCurrent
    <3>4. value'[n] = EstimateOver(aggregation'[n], LocalMaps(n)', view)
      BY <2>3, <3>1, <3>3
    <3>5. QED BY <3>1, <3>3, <3>4
  <2>4. QED BY <1>2, <2>1, <2>2, <2>3, EstimateStep
<1>3. QED BY <1>1, <1>2, EngineTypes, PTL DEF Spec

-----------------------------------------------------------------------------
(* Convergence *)

\* A merge either derives the estimate anew, over all contributors, or
\* leaves maps and estimate as they are.
LEMMA MergeEstimate ==
  ASSUME SeedInv, NEW n \in Node, NEW m \in msgs, MergeRemote(n, m), localValue[n] # 0
  PROVE  \/ value'[n] = EstimateOver(aggregation[n], LocalMaps(n)', Node)
         \/ UNCHANGED <<value[n], LocalMaps(n)>>
<1> DEFINE agg    == aggregation[n]
           local  == LocalForMerge(agg, LocalMaps(n), n, value[n], LocalVersion(n))
           q      == Incoming(m)
           merged == Merge(agg, local, q)
<1>1. TypeOK /\ Stamped /\ Filled
  BY DEF SeedInv, DatagramInv
<1>2. /\ value \in [Node -> Int] /\ contributions \in [Node -> [Node -> Int]]
      /\ versions \in [Node -> [Node -> Stamp]]
  BY <1>1 DEF TypeOK, StampTypeOK
<1>3. /\ contributions'[n] = merged.contributions /\ versions'[n] = merged.versions
      /\ IF MergeChanges(agg, local, q)
         THEN value' = [value EXCEPT ![n] = EstimateOver(agg, merged, Node)]
         ELSE value' = value
      /\ m.origin # n /\ Running(n)
  BY <1>2 DEF MergeRemote, Ignored, Receives
<1>4. LocalMaps(n)' = merged
  BY <1>3 DEF LocalMaps, Merge
<1>5. CASE MergeChanges(agg, local, q)
  <2>1. value'[n] = EstimateOver(agg, merged, Node)
    BY <1>2, <1>3, <1>5
  <2>2. QED BY <1>4, <2>1
<1>6. CASE ~ MergeChanges(agg, local, q)
  <2>1. local = LocalMaps(n)
    <3>1. SUFFICES ASSUME local # LocalMaps(n) PROVE FALSE
      OBVIOUS
    <3>2. /\ agg \in Extremal /\ versions[n][n] = NoStamp
          /\ local = [contributions |-> [contributions[n] EXCEPT ![n] = value[n]],
                      versions      |-> [versions[n] EXCEPT ![n] = LocalVersion(n)]]
      BY <3>1 DEF LocalForMerge, Materialise, Known, LocalMaps, Extremal
    <3>3. Known(LocalMaps(n)) = {}
      BY <1>1, <1>3, <3>2 DEF Filled
    <3> DEFINE o == m.origin
    <3>4. o \in Node /\ m.version \in Stamp /\ m.version # NoStamp
      BY <1>1, DatagramStamps DEF Stamped, NoStamp
    <3>5. local.versions[o] = NoStamp
      BY <1>2, <1>3, <3>2, <3>3, <3>4 DEF Known, LocalMaps
    <3>6. q.versions[o] \in Stamp /\ q.versions[o] # NoStamp
      BY <1>1, <3>4, IncomingStamps
    <3>7. Less(local.versions[o], q.versions[o])
      BY <3>5, <3>6 DEF Less, NoStamp, Stamp
    <3> HIDE DEF local, q, agg
    <3>8. Accepts(agg, local, q, o)
      BY <3>4, <3>6, <3>7 DEF Accepts, Known
    <3>9. QED BY <1>6, <3>4, <3>8 DEF MergeChanges
  <2>2. merged = LocalMaps(n)
    <3>1. \A j \in Node : ~ Accepts(agg, local, q, j)
      BY <1>6 DEF MergeChanges
    <3>2. contributions[n] \in [Node -> Int] /\ versions[n] \in [Node -> Stamp]
      BY <1>2
    <3>3. /\ merged.contributions = [j \in Node |-> local.contributions[j]]
          /\ merged.versions = [j \in Node |-> local.versions[j]]
      BY <3>1 DEF Merge
    <3>4. merged.contributions = contributions[n] /\ merged.versions = versions[n]
      BY <2>1, <3>2, <3>3 DEF LocalMaps
    <3>5. QED BY <3>4 DEF Merge, LocalMaps
  <2>3. QED BY <1>3, <1>4, <1>6, <2>2
<1>7. QED BY <1>5, <1>6

\* Also while its handler is between its critical sections a node exposes an
\* estimate of what it holds: over a view of its own, or over all nodes.
Follows ==
  \A n \in Node : Running(n) /\ Known(LocalMaps(n)) # {} =>
    \E view \in EligibleViews(n) \cup {Node} :
      value[n] = EstimateOver(aggregation[n], LocalMaps(n), view)

LEMMA FollowsStep ==
  ASSUME ValuesStandForThemselves, ConfiguredInv, Follows, [Next]_vars
  PROVE  Follows'
<1>1. TypeOK /\ SeedInv
  BY DEF ConfiguredInv, SeedInv, DatagramInv
<1>2. SUFFICES ASSUME NEW n \in Node, Running(n)', Known(LocalMaps(n))' # {}
               PROVE  \E view \in EligibleViews(n)' \cup {Node} :
                        value'[n] = EstimateOver(aggregation'[n], LocalMaps(n)', view)
  BY DEF Follows
<1>3. /\ Running(n) /\ aggregation'[n] = aggregation[n]
      /\ EligibleViews(n) \subseteq EligibleViews(n)'
  BY <1>1, <1>2, EstimateStep
<1>4. localValue[n] # 0
  <2>1. [aggregation |-> aggregation[n], initialValue |-> localValue[n]] \in Configs[n]
    BY <1>3 DEF ConfiguredInv, LocalConfigured
  <2>2. QED BY <2>1 DEF ValuesStandForThemselves
<1>5. CASE UNCHANGED <<value[n], LocalMaps(n)>>
  <2>1. PICK view \in EligibleViews(n) \cup {Node} :
          value[n] = EstimateOver(aggregation[n], LocalMaps(n), view)
    BY <1>2, <1>3, <1>5 DEF Follows
  <2>2. value'[n] = EstimateOver(aggregation'[n], LocalMaps(n)', view)
    BY <1>3, <1>5, <2>1
  <2>3. QED BY <1>3, <2>1, <2>2
<1>6. CASE \E view \in EligibleViews(n)' :
             value'[n] = EstimateOver(aggregation'[n], LocalMaps(n)', view)
  BY <1>6
<1>7. ASSUME NEW m \in msgs, MergeRemote(n, m)
      PROVE  \/ value'[n] = EstimateOver(aggregation'[n], LocalMaps(n)', Node)
             \/ UNCHANGED <<value[n], LocalMaps(n)>>
  BY <1>1, <1>3, <1>4, <1>7, MergeEstimate
<1>8. CASE \E m \in msgs : MergeRemote(n, m)
  BY <1>5, <1>7, <1>8
<1>9. QED BY <1>1, <1>2, <1>5, <1>6, <1>8, EstimateStep

\* Two pairs of maps with the same contributions of the same nodes.
LEMMA SameEstimate ==
  ASSUME NEW agg \in Aggregations, NEW p, NEW q, NEW S,
         p.contributions = q.contributions, Known(p) = Known(q)
  PROVE  EstimateOver(agg, p, S) = EstimateOver(agg, q, S)
<1> DEFINE f    == p.contributions
           keys == Known(p) \cap S
           vals == {f[j] : j \in keys}
           est  == CASE keys = {}                    -> 0
                     [] keys # {} /\ agg = "sum"     -> SumOf(f, keys)
                     [] keys # {} /\ agg = "average" -> SumOf(f, keys) \div Cardinality(keys)
                     [] keys # {} /\ agg = "min"     -> Min(vals)
                     [] keys # {} /\ agg = "max"     -> Max(vals)
<1>1. EstimateOver(agg, p, S) = est
  BY DEF EstimateOver, SumOf
<1>2. EstimateOver(agg, q, S) = est
  BY DEF EstimateOver, SumOf
<1>3. QED BY <1>1, <1>2

\* What a running node exposes is, at every moment, the aggregate of values
\* the nodes were configured with: of those it has contributions of, as far
\* as a view of its membership, or the merge just done, counts them.
AggregatesConfigured ==
  \A n \in Node : Running(n) /\ Known(LocalMaps(n)) # {} =>
    /\ \E view \in EligibleViews(n) \cup {Node} :
         value[n] = EstimateOver(aggregation[n], LocalMaps(n), view)
    /\ \A j \in Known(LocalMaps(n)) :
         [aggregation |-> aggregation[n], initialValue |-> contributions[n][j]] \in Configs[j]

FollowsInv == ConfiguredInv /\ Follows

LEMMA FollowsInvariance ==
  ASSUME ValuesStandForThemselves
  PROVE  Spec => []FollowsInv
<1>1. Init => LocalConfigured /\ Configured /\ Follows
  BY DEF Init, LocalConfigured, Configured, Copy, Follows, Running
<1>2. SeedInv /\ LocalConfigured /\ Configured /\ Follows /\ [Next]_vars
        => LocalConfigured' /\ Configured' /\ Follows'
  BY ConfiguredStep, FollowsStep DEF ConfiguredInv
<1>3. SeedInv /\ LocalConfigured /\ Configured /\ Follows => FollowsInv
  BY DEF FollowsInv, ConfiguredInv
<1>4. QED BY <1>1, <1>2, <1>3, SeedInvariance, PTL DEF Spec

\* For any cluster and any views, between the two critical sections of a
\* handler too: an estimate is never anything but an aggregate of configured
\* values, if these are not zero and only nodes of minimum or maximum leave.
THEOREM EstimatesAggregateConfigured ==
  ASSUME ValuesStandForThemselves
  PROVE  Spec => []AggregatesConfigured
<1>1. ASSUME FollowsInv PROVE AggregatesConfigured
  <2>1. SUFFICES ASSUME NEW n \in Node, Running(n), NEW j \in Known(LocalMaps(n))
                 PROVE  [aggregation |-> aggregation[n],
                         initialValue |-> contributions[n][j]] \in Configs[j]
    BY <1>1 DEF AggregatesConfigured, FollowsInv, Follows
  <2>2. j \in Node /\ Copy(aggregation[n], j, versions[n][j], contributions[n][j])
    BY <2>1 DEF Copy, Known, LocalMaps
  <2>3. aggregation[n] \in Aggregations
    BY <1>1 DEF FollowsInv, ConfiguredInv, SeedInv, DatagramInv, TypeOK
  <2>4. QED BY <1>1, <2>2, <2>3 DEF FollowsInv, ConfiguredInv, Configured
<1>2. QED BY <1>1, FollowsInvariance, PTL

\* Every membership holds all nodes alive, and nobody leaves ...
FullMembership == Views = {Node} /\ Leavers = {}

\* ... and a node has one value for each aggregation, which a restart keeps.
OneValueEach ==
  \A n \in Node : \A c, d \in Configs[n] :
    c.aggregation = d.aggregation => c.initialValue = d.initialValue

NobodyLeaves == \A n \in Node : status[n] # "leaving"

LEMMA NobodyLeavesStep ==
  ASSUME FullMembership, TypeOK, NobodyLeaves, [Next]_vars
  PROVE  NobodyLeaves'
<1>1. SUFFICES ASSUME NEW n \in Node, status'[n] = "leaving"
               PROVE  FALSE
  BY DEF NobodyLeaves
<1>2. status[n] # "leaving"
  BY DEF NobodyLeaves
<1>3. ASSUME NEW k \in Node, Boot(k) \/ Stop(k)
      PROVE  FALSE
  BY <1>1, <1>2, <1>3 DEF Boot, Stop, TypeOK, StampTypeOK
<1>4. ASSUME NEW k \in Node, AnnounceLeave(k)
      PROVE  FALSE
  BY <1>4 DEF AnnounceLeave, FullMembership
<1>5. ASSUME NEW k \in Node, \/ Round(k) \/ Recalculate(k)
                             \/ \E m \in msgs : Receive(k, m)
      PROVE  status' = status
  BY <1>5
  DEF Round, Recalculate, Receive, IgnoreMessage, DropMessage, SkipEquivalent, MergeRemote
<1>6. status' # status
  BY <1>1, <1>2
<1>7. QED BY <1>3, <1>4, <1>5, <1>6 DEF Next, NodeStep, vars

\* A cluster whose nodes all know of each other exposes the true aggregate.
LEMMA CompleteConverged ==
  ASSUME FullMembership, OneValueEach, FollowsInv, NobodyLeaves, Stable, Complete
  PROVE  Converged
<1>1. TypeOK /\ Stamped /\ Follows /\ ConfiguredInv
  BY DEF FollowsInv, ConfiguredInv, SeedInv, DatagramInv
<1>2. SUFFICES ASSUME NEW n \in Node
               PROVE  value[n] = EstimateOver(aggregation[n],
                        [contributions |-> localValue,
                         versions      |-> [j \in Node |-> LocalVersion(j)]], Node)
  BY DEF Converged
<1> DEFINE truth == [contributions |-> localValue,
                     versions      |-> [j \in Node |-> LocalVersion(j)]]
<1>3. /\ contributions[n] \in [Node -> Int] /\ localValue \in [Node -> Int]
      /\ aggregation[n] \in Aggregations /\ status[n] \in {"down", "up", "leaving"}
  BY <1>1 DEF TypeOK, StampTypeOK
<1>4. /\ Running(n) /\ Known(LocalMaps(n)) = Node
      /\ \A j \in Node : Running(j) /\ aggregation[j] = aggregation[n]
  BY DEF Stable, Complete
<1>5. value[n] = EstimateOver(aggregation[n], LocalMaps(n), Node)
  <2>1. \A view \in EligibleViews(n) : view = Node
    BY DEF EligibleViews, FullMembership, NobodyLeaves
  <2>2. QED BY <1>1, <1>4, <2>1 DEF Follows
<1>6. ASSUME NEW j \in Node
      PROVE  contributions[n][j] = localValue[j]
  <2>1. Copy(aggregation[n], j, versions[n][j], contributions[n][j])
    BY <1>4 DEF Copy, Known, LocalMaps
  <2>2. [aggregation |-> aggregation[n], initialValue |-> contributions[n][j]] \in Configs[j]
    BY <1>1, <1>3, <2>1 DEF ConfiguredInv, Configured
  <2>3. [aggregation |-> aggregation[n], initialValue |-> localValue[j]] \in Configs[j]
    BY <1>1, <1>4 DEF ConfiguredInv, LocalConfigured
  <2>4. QED BY <2>2, <2>3 DEF OneValueEach
<1>7. LocalMaps(n).contributions = truth.contributions
  BY <1>3, <1>6 DEF LocalMaps
<1>8. Known(truth) = Node
  BY <1>1, <1>4 DEF Known, Stamped, LocalVersion, NoStamp
<1> HIDE DEF truth
<1>9. EstimateOver(aggregation[n], LocalMaps(n), Node) = EstimateOver(aggregation[n], truth, Node)
  BY <1>3, <1>4, <1>7, <1>8, SameEstimate
<1>10. QED BY <1>5, <1>9 DEF truth

\* A node that has heard of all others does not forget them while it runs.
LEMMA CompleteStays ==
  ASSUME IInv, Stable, Complete, [Next]_vars, Stable'
  PROVE  Complete'
<1>1. SUFFICES ASSUME NEW n \in Node, NEW j \in Node
               PROVE  versions'[n][j] # NoStamp
  BY DEF Complete, Known, LocalMaps
<1>2. Running(n) /\ Running(n)' /\ versions[n][j] # NoStamp
  BY DEF Stable, Complete, Known, LocalMaps
<1>3. AtMost(versions[n][j], versions'[n][j]) /\ versions[n][j] \in Stamp
  BY <1>2, MonotoneStep DEF Monotone, IInv, StampTypeOK
<1>4. QED BY <1>2, <1>3 DEF AtMost, Less, Stamp, NoStamp

\* CompleteIsConverged, for any cluster whose memberships are full, whose
\* nodes keep nonzero values across restarts and do not leave.
THEOREM CompleteClustersConverge ==
  ASSUME FullMembership, OneValueEach, ValuesStandForThemselves
  PROVE  Spec => []CompleteIsConverged
<1>1. Init => NobodyLeaves
  BY DEF Init, NobodyLeaves
<1>2. FollowsInv /\ NobodyLeaves /\ [Next]_vars => NobodyLeaves'
  BY NobodyLeavesStep DEF FollowsInv, ConfiguredInv, SeedInv, DatagramInv
<1>3. FollowsInv /\ NobodyLeaves => CompleteIsConverged
  BY CompleteConverged DEF CompleteIsConverged
<1>4. QED BY <1>1, <1>2, <1>3, FollowsInvariance, PTL DEF Spec

\* EstimatesConverge, up to delivery: if the nodes, once crashes have
\* stopped, come to hear of each other, all estimates become the true
\* aggregate and stay so, with no fairness but that.
THEOREM HearingConverges ==
  ASSUME FullMembership, OneValueEach, ValuesStandForThemselves
  PROVE  Spec /\ (<>[]Stable => <>([]Stable /\ Complete)) => EstimatesConverge
<1>1. IInv /\ Stable /\ Complete /\ [Next]_vars /\ Stable' => Complete'
  BY CompleteStays
<1>2. CompleteIsConverged /\ Stable /\ Complete => Converged
  BY DEF CompleteIsConverged
<1>3. Spec => []IInv /\ []CompleteIsConverged /\ [][Next]_vars
  BY Invariance, CompleteClustersConverge, PTL DEF Spec
<1>4. QED BY <1>1, <1>2, <1>3, PTL DEF EstimatesConverge
=============================================================================
