-------------------------- MODULE MembershipProofs --------------------------
(***************************************************************************)
(* Safety of the membership protocol, for every set of nodes, seeds and    *)
(* timeouts and every bound on boots and datagrams: generations dominate,  *)
(* a Set holds a node once, and what is over does not come back.           *)
(*                                                                         *)
(* The first part is about the operations on one slot.  A slot with at     *)
(* most one record has one of three shapes; the operations are computed on *)
(* these, and each advances the slot: it leaves at most one record and     *)
(* never forgets that an incarnation is over.                              *)
(*                                                                         *)
(* Every action changes a slot only by operations that advance it, with    *)
(* incarnations that the node has reached.  What an action makes of the    *)
(* Sets is proved apart from the datagrams, so that the last part can use  *)
(* it for Cluster, the two halves of a node put together.                  *)
(*                                                                         *)
(* There the protocol runs in smaller steps: a round sends a digest of a   *)
(* snapshot that may have become old, and the handler merges the digest of *)
(* a datagram that may meanwhile be lost.  The invariant adds what the     *)
(* snapshots and the datagrams being handled hold, and ties what the       *)
(* estimates count to the contributions that exist.                        *)
(***************************************************************************)
EXTENDS Cluster, TLAPS

\* The only record is the peer e under f, or its watermark.
OnlyPeer(f, e) == [peers      |-> [g \in Forms |-> IF g = f THEN e ELSE Absent],
                   watermarks |-> [g \in Forms |-> Absent]]

OnlyMark(f, e) == [peers      |-> [g \in Forms |-> Absent],
                   watermarks |-> [g \in Forms |-> IF g = f THEN e ELSE Absent]]

Shaped(s) ==
  \/ s = EmptySlot
  \/ \E f \in Forms, e \in Entries : s = OnlyPeer(f, e) \/ s = OnlyMark(f, e)

-----------------------------------------------------------------------------
(* Shapes *)

\* Ages are the numbers from 0 up to one past every timeout.
LEMMA AgesType == MaxAge \in Nat /\ 0 \in Ages /\ Ages \subseteq Nat
  BY TimeoutsAssumption DEF MaxAge, Ages

\* No entry looks like the absence of one.
LEMMA AbsentIsNoEntry == \A e \in Entries : e # Absent /\ e.incarnation \in Nat
  BY DEF Entries, Absent, Statuses

\* A slot with one record at most has one of the shapes, and conversely.
LEMMA ShapeOfOneRecord ==
  ASSUME NEW s \in Slots, OneRecord(s)
  PROVE  Shaped(s)
<1>1. /\ s = [peers |-> s.peers, watermarks |-> s.watermarks]
      /\ s.peers = [g \in Forms |-> s.peers[g]]
      /\ s.watermarks = [g \in Forms |-> s.watermarks[g]]
      /\ \A g \in Forms : s.peers[g] \in Entries \cup {Absent}
      /\ \A g \in Forms : s.watermarks[g] \in Entries \cup {Absent}
  BY DEF Slots
<1>2. \A f, g \in Forms : s.peers[f] # Absent => s.watermarks[g] = Absent
  <2>1. SUFFICES ASSUME NEW f \in Forms, NEW g \in Forms,
                        s.peers[f] # Absent, s.watermarks[g] # Absent
                 PROVE  FALSE
    OBVIOUS
  <2>2. <<"peer", f>> \in Records(s) /\ <<"watermark", g>> \in Records(s)
    BY <2>1 DEF Records
  <2>3. <<"peer", f>> = <<"watermark", g>>
    BY <2>2 DEF OneRecord
  <2>4. QED BY <2>3
<1>3. \A f, g \in Forms : s.peers[f] # Absent /\ s.peers[g] # Absent => f = g
  <2>1. SUFFICES ASSUME NEW f \in Forms, NEW g \in Forms,
                        s.peers[f] # Absent, s.peers[g] # Absent
                 PROVE  f = g
    OBVIOUS
  <2>2. <<"peer", f>> \in Records(s) /\ <<"peer", g>> \in Records(s)
    BY <2>1 DEF Records
  <2>3. QED BY <2>2 DEF OneRecord
<1>4. \A f, g \in Forms : s.watermarks[f] # Absent /\ s.watermarks[g] # Absent => f = g
  <2>1. SUFFICES ASSUME NEW f \in Forms, NEW g \in Forms,
                        s.watermarks[f] # Absent, s.watermarks[g] # Absent
                 PROVE  f = g
    OBVIOUS
  <2>2. <<"watermark", f>> \in Records(s) /\ <<"watermark", g>> \in Records(s)
    BY <2>1 DEF Records
  <2>3. QED BY <2>2 DEF OneRecord
<1>5. CASE \E f \in Forms : s.peers[f] # Absent
  <2>1. PICK f \in Forms : s.peers[f] # Absent
    BY <1>5
  <2>2. s.peers[f] \in Entries
    BY <2>1, <1>1
  <2>3. s = OnlyPeer(f, s.peers[f])
    BY <2>1, <1>1, <1>2, <1>3 DEF OnlyPeer
  <2>4. QED BY <2>2, <2>3 DEF Shaped
<1>6. CASE \E f \in Forms : s.watermarks[f] # Absent
  <2>1. PICK f \in Forms : s.watermarks[f] # Absent
    BY <1>6
  <2>2. s.watermarks[f] \in Entries
    BY <2>1, <1>1
  <2>3. s = OnlyMark(f, s.watermarks[f])
    BY <2>1, <1>1, <1>2, <1>4 DEF OnlyMark
  <2>4. QED BY <2>2, <2>3 DEF Shaped
<1>7. CASE \A f \in Forms : s.peers[f] = Absent /\ s.watermarks[f] = Absent
  BY <1>7, <1>1 DEF EmptySlot, Shaped
<1>8. QED BY <1>5, <1>6, <1>7

\* Each shape is a slot with at most one record.
LEMMA ShapedSlot ==
  ASSUME NEW s, Shaped(s)
  PROVE  s \in Slots /\ OneRecord(s)
<1>1. CASE s = EmptySlot
  BY <1>1 DEF EmptySlot, Slots, OneRecord, Records
<1>2. ASSUME NEW f \in Forms, NEW e \in Entries, s = OnlyPeer(f, e)
      PROVE  s \in Slots /\ OneRecord(s)
  <2>1. s \in Slots
    BY <1>2 DEF OnlyPeer, Slots
  <2>2. \A g \in Forms : (s.peers[g] # Absent => g = f) /\ s.watermarks[g] = Absent
    BY <1>2 DEF OnlyPeer
  <2>3. Records(s) \subseteq {<<"peer", f>>}
    BY <2>2 DEF Records
  <2>4. QED BY <2>1, <2>3 DEF OneRecord
<1>3. ASSUME NEW f \in Forms, NEW e \in Entries, s = OnlyMark(f, e)
      PROVE  s \in Slots /\ OneRecord(s)
  <2>1. s \in Slots
    BY <1>3 DEF OnlyMark, Slots
  <2>2. \A g \in Forms : (s.watermarks[g] # Absent => g = f) /\ s.peers[g] = Absent
    BY <1>3 DEF OnlyMark
  <2>3. Records(s) \subseteq {<<"watermark", f>>}
    BY <2>2 DEF Records
  <2>4. QED BY <2>1, <2>3 DEF OneRecord
<1>4. QED BY <1>1, <1>2, <1>3 DEF Shaped

-----------------------------------------------------------------------------
(* The operations on the shapes *)

\* There are two keys.
LEMMA FormsTwo ==
  ASSUME NEW f \in Forms, NEW g \in Forms
  PROVE  Other(f) \in Forms /\ Other(f) # f /\ g \in {f, Other(f)}
  BY DEF Forms, Other

\* Whatever the key asked for, a look-up finds the only record.
LEMMA LookUps ==
  ASSUME NEW f \in Forms, NEW h \in Forms, NEW e \in Entries
  PROVE  /\ Resolve(OnlyPeer(h, e).peers, f) = h
         /\ Resolve(OnlyMark(h, e).watermarks, f) = h
         /\ Current(OnlyPeer(h, e), f) = e
         /\ Watermark(OnlyMark(h, e), f) = e
         /\ Current(OnlyMark(h, e), f) = Absent
         /\ Watermark(OnlyPeer(h, e), f) = Absent
         /\ DropWatermark(OnlyMark(h, e), f) = EmptySlot
         /\ DropWatermark(OnlyPeer(h, e), f) = OnlyPeer(h, e)
<1>1. e # Absent
  BY AbsentIsNoEntry
<1>2. /\ Resolve(OnlyPeer(h, e).peers, f) = h
      /\ Resolve(OnlyMark(h, e).watermarks, f) = h
  BY <1>1, FormsTwo DEF Resolve, OnlyPeer, OnlyMark
<1>3. /\ Resolve(OnlyMark(h, e).peers, f) = f
      /\ Resolve(OnlyPeer(h, e).watermarks, f) = f
  BY FormsTwo DEF Resolve, OnlyPeer, OnlyMark
<1>4. /\ Current(OnlyPeer(h, e), f) = e
      /\ Watermark(OnlyMark(h, e), f) = e
      /\ Current(OnlyMark(h, e), f) = Absent
      /\ Watermark(OnlyPeer(h, e), f) = Absent
  BY <1>2, <1>3 DEF Current, Watermark, OnlyPeer, OnlyMark
<1>5. DropWatermark(OnlyMark(h, e), f) = EmptySlot
  <2>1. [OnlyMark(h, e).watermarks EXCEPT ![h] = Absent] = [g \in Forms |-> Absent]
    BY DEF OnlyMark
  <2>2. DropWatermark(OnlyMark(h, e), f) =
          [OnlyMark(h, e) EXCEPT !.watermarks = [OnlyMark(h, e).watermarks EXCEPT ![h] = Absent]]
    BY <1>2, Zenon DEF DropWatermark
  <2>3. QED BY <2>1, <2>2 DEF OnlyMark, EmptySlot
<1>6. DropWatermark(OnlyPeer(h, e), f) = OnlyPeer(h, e)
  BY <1>3 DEF DropWatermark, OnlyPeer
<1>7. QED BY <1>2, <1>4, <1>5, <1>6

\* A look-up in an empty slot finds nothing.
LEMMA LookUpsEmpty ==
  ASSUME NEW f \in Forms
  PROVE  /\ Resolve(EmptySlot.peers, f) = f
         /\ Current(EmptySlot, f) = Absent
         /\ Watermark(EmptySlot, f) = Absent
         /\ DropWatermark(EmptySlot, f) = EmptySlot
<1>1. /\ Resolve(EmptySlot.peers, f) = f
      /\ Resolve(EmptySlot.watermarks, f) = f
  BY FormsTwo DEF Resolve, EmptySlot
<1>2. QED BY <1>1 DEF Current, Watermark, DropWatermark, EmptySlot

\* What remains of a slot with one peer when its peers are replaced.
LEMMA PeersReplaced ==
  ASSUME NEW h, NEW e, NEW P
  PROVE  [OnlyPeer(h, e) EXCEPT !.peers = P]
         = [peers |-> P, watermarks |-> [g \in Forms |-> Absent]]
<1>1. \A A, B : [[peers |-> A, watermarks |-> B] EXCEPT !.peers = P]
                = [peers |-> P, watermarks |-> B]
  OBVIOUS
<1>2. QED BY <1>1, Zenon DEF OnlyPeer

\* A peer placed in an empty slot is its only record.
LEMMA PlaceEmpty ==
  ASSUME NEW f \in Forms, NEW u
  PROVE  Place(EmptySlot, f, u) = OnlyPeer(f, u)
  BY LookUpsEmpty DEF Place, EmptySlot, OnlyPeer

\* A peer placed under either key displaces the one that was there.
LEMMA Places ==
  ASSUME NEW f \in Forms, NEW h \in Forms, NEW e \in Entries, NEW u
  PROVE  Place(OnlyPeer(h, e), f, u) = OnlyPeer(f, u)
<1>2. Resolve(OnlyPeer(h, e).peers, f) = h
  BY LookUps
<1>3. Place(OnlyPeer(h, e), f, u) = OnlyPeer(f, u)
  <2> DEFINE P == [g \in Forms |-> IF g = f THEN u ELSE IF g = h THEN Absent
                                   ELSE OnlyPeer(h, e).peers[g]]
  <2>1. Place(OnlyPeer(h, e), f, u) = [OnlyPeer(h, e) EXCEPT !.peers = P]
    BY <1>2, Zenon DEF Place
  <2>2. \A g \in Forms : g # h => OnlyPeer(h, e).peers[g] = Absent
    BY DEF OnlyPeer
  <2>3. P = [g \in Forms |-> IF g = f THEN u ELSE Absent]
    BY <2>2
  <2>4. [OnlyPeer(h, e) EXCEPT !.peers = P] = [peers |-> P, watermarks |-> [g \in Forms |-> Absent]]
    BY PeersReplaced
  <2>5. QED BY <2>1, <2>3, <2>4 DEF OnlyPeer
<1>4. QED BY <1>3

\* Upsert of an unknown node.
LEMMA UpsertEmpty ==
  ASSUME NEW f \in Forms, NEW u \in Entries
  PROVE  Upsert(EmptySlot, f, u) = OnlyPeer(f, u)
  BY LookUpsEmpty, PlaceEmpty DEF Upsert, Blocked

\* Upsert of a known node, and of a pruned one.
LEMMA UpsertShapes ==
  ASSUME NEW f \in Forms, NEW h \in Forms, NEW e \in Entries, NEW u \in Entries
  PROVE  /\ Upsert(OnlyPeer(h, e), f, u) =
              IF e.incarnation < u.incarnation THEN OnlyPeer(f, u)
              ELSE IF u.incarnation < e.incarnation THEN OnlyPeer(h, e)
              ELSE OnlyPeer(f, [status      |-> maxStatus(e.status, u.status),
                                incarnation |-> e.incarnation,
                                age         |-> Lesser(e.age, u.age)])
         /\ Upsert(OnlyMark(h, e), f, u) =
              IF \/ u.incarnation < e.incarnation
                 \/ /\ u.incarnation = e.incarnation
                    /\ rankStatus(u.status) <= rankStatus(e.status)
              THEN OnlyMark(h, e) ELSE OnlyPeer(f, u)
<1>1. e # Absent
  BY AbsentIsNoEntry
<1>3. Upsert(OnlyPeer(h, e), f, u) =
              IF e.incarnation < u.incarnation THEN OnlyPeer(f, u)
              ELSE IF u.incarnation < e.incarnation THEN OnlyPeer(h, e)
              ELSE OnlyPeer(f, [status      |-> maxStatus(e.status, u.status),
                                incarnation |-> e.incarnation,
                                age         |-> Lesser(e.age, u.age)])
  BY <1>1, LookUps, Places DEF Upsert, Blocked
<1>4. Upsert(OnlyMark(h, e), f, u) =
              IF \/ u.incarnation < e.incarnation
                 \/ /\ u.incarnation = e.incarnation
                    /\ rankStatus(u.status) <= rankStatus(e.status)
              THEN OnlyMark(h, e) ELSE OnlyPeer(f, u)
  BY <1>1, LookUps, PlaceEmpty DEF Upsert, Blocked
<1>5. QED BY <1>3, <1>4

\* A heartbeat of an unknown node changes nothing.
LEMMA HeartbeatEmpty ==
  ASSUME NEW inc, NEW age
  PROVE  ObserveHeartbeat(EmptySlot, inc, age) = EmptySlot
<1>1. "canonical" \in Forms
  BY DEF Forms
<1>2. QED BY <1>1, LookUpsEmpty DEF ObserveHeartbeat

\* A heartbeat of a known node promotes its alias unless it is stale.
LEMMA HeartbeatShapes ==
  ASSUME NEW h \in Forms, NEW e \in Entries, NEW inc, NEW age
  PROVE  /\ ObserveHeartbeat(OnlyMark(h, e), inc, age) = OnlyMark(h, e)
         /\ ObserveHeartbeat(OnlyPeer(h, e), inc, age) =
              IF inc < e.incarnation \/ (inc = e.incarnation /\ Terminal(e))
              THEN OnlyPeer(h, e)
              ELSE OnlyPeer("canonical", [status      |-> "alive",
                                          incarnation |-> inc,
                                          age         |-> Lesser(e.age, age)])
<1>1. e # Absent /\ "canonical" \in Forms
  BY AbsentIsNoEntry DEF Forms
<1>2. ObserveHeartbeat(OnlyMark(h, e), inc, age) = OnlyMark(h, e)
  BY <1>1, LookUps DEF ObserveHeartbeat
<1> DEFINE a == [status |-> "alive", incarnation |-> inc, age |-> Lesser(e.age, age)]
<1>3. Current(OnlyPeer(h, e), "canonical") = e
  BY <1>1, LookUps
<1>4. Place(OnlyPeer(h, e), "canonical", a) = OnlyPeer("canonical", a)
  BY <1>1, Places
<1>5. DropWatermark(OnlyPeer("canonical", a), "canonical") = OnlyPeer("canonical", a)
  BY <1>1, FormsTwo DEF DropWatermark, OnlyPeer, Resolve
<1>6. ObserveHeartbeat(OnlyPeer(h, e), inc, age) =
              IF inc < e.incarnation \/ (inc = e.incarnation /\ Terminal(e))
              THEN OnlyPeer(h, e) ELSE OnlyPeer("canonical", a)
  BY <1>1, <1>3, <1>4, <1>5 DEF ObserveHeartbeat
<1>7. QED BY <1>2, <1>6

\* The operations that treat every peer of the slot alike, of an empty one.
LEMMA SweepEmpty ==
  /\ ApplyTimeoutTransitions(EmptySlot) = EmptySlot
  /\ AgedSlot(EmptySlot) = EmptySlot
  /\ Prune(EmptySlot) = EmptySlot
<1>1. Expire(Absent) = Absent /\ Aged(Absent) = Absent /\ ~ Prunable(Absent)
  BY DEF Expire, Aged, Prunable
<1>2. QED BY <1>1 DEF ApplyTimeoutTransitions, AgedSlot, Prune, EmptySlot

\* The same, of a slot with a record.
LEMMA SweepShapes ==
  ASSUME NEW h \in Forms, NEW e \in Entries
  PROVE  /\ ApplyTimeoutTransitions(OnlyMark(h, e)) = OnlyMark(h, e)
         /\ ApplyTimeoutTransitions(OnlyPeer(h, e)) = OnlyPeer(h, Expire(e))
         /\ AgedSlot(OnlyMark(h, e)) = OnlyMark(h, e)
         /\ AgedSlot(OnlyPeer(h, e)) = OnlyPeer(h, Aged(e))
         /\ Prune(OnlyMark(h, e)) = OnlyMark(h, e)
         /\ Prune(OnlyPeer(h, e)) = IF Prunable(e) THEN OnlyMark(h, [e EXCEPT !.age = 0])
                                    ELSE OnlyPeer(h, e)
<1>1. Expire(Absent) = Absent /\ Aged(Absent) = Absent /\ ~ Prunable(Absent)
  BY DEF Expire, Aged, Prunable
<1>2. ApplyTimeoutTransitions(OnlyMark(h, e)) = OnlyMark(h, e)
  BY <1>1 DEF ApplyTimeoutTransitions, OnlyMark
<1>3. ApplyTimeoutTransitions(OnlyPeer(h, e)) = OnlyPeer(h, Expire(e))
  <2> DEFINE P == [f \in Forms |-> Expire(OnlyPeer(h, e).peers[f])]
  <2>1. ApplyTimeoutTransitions(OnlyPeer(h, e)) = [OnlyPeer(h, e) EXCEPT !.peers = P]
    BY Zenon DEF ApplyTimeoutTransitions
  <2>2. P = [g \in Forms |-> IF g = h THEN Expire(e) ELSE Absent]
    BY <1>1 DEF OnlyPeer
  <2>3. [OnlyPeer(h, e) EXCEPT !.peers = P] = [peers |-> P, watermarks |-> [g \in Forms |-> Absent]]
    BY PeersReplaced
  <2>4. QED BY <2>1, <2>2, <2>3 DEF OnlyPeer
<1>6. AgedSlot(OnlyMark(h, e)) = OnlyMark(h, e)
  BY <1>1 DEF AgedSlot, OnlyMark
<1>7. AgedSlot(OnlyPeer(h, e)) = OnlyPeer(h, Aged(e))
  <2> DEFINE P == [f \in Forms |-> Aged(OnlyPeer(h, e).peers[f])]
  <2>1. AgedSlot(OnlyPeer(h, e)) = [OnlyPeer(h, e) EXCEPT !.peers = P]
    BY Zenon DEF AgedSlot
  <2>2. P = [g \in Forms |-> IF g = h THEN Aged(e) ELSE Absent]
    BY <1>1 DEF OnlyPeer
  <2>3. [OnlyPeer(h, e) EXCEPT !.peers = P] = [peers |-> P, watermarks |-> [g \in Forms |-> Absent]]
    BY PeersReplaced
  <2>4. QED BY <2>1, <2>2, <2>3 DEF OnlyPeer
<1>4. Prune(OnlyMark(h, e)) = OnlyMark(h, e)
  BY <1>1 DEF Prune, OnlyMark
<1>5. Prune(OnlyPeer(h, e)) = IF Prunable(e) THEN OnlyMark(h, [e EXCEPT !.age = 0])
                              ELSE OnlyPeer(h, e)
  BY <1>1 DEF Prune, OnlyMark, OnlyPeer
<1>8. QED BY <1>2, <1>3, <1>4, <1>5, <1>6, <1>7

-----------------------------------------------------------------------------
(* What the shapes say *)

\* An entry by which incarnation g is over.
Ends(e, g) == e.incarnation > g \/ (e.incarnation = g /\ Terminal(e))

\* Which incarnations a slot with one record bounds, buries and holds live.
LEMMA ShapesSay ==
  ASSUME NEW f \in Forms, NEW e \in Entries, NEW g \in Nat
  PROVE  /\ Bounded(OnlyPeer(f, e), g) <=> e.incarnation <= g
         /\ Bounded(OnlyMark(f, e), g) <=> e.incarnation <= g
         /\ Buried(OnlyPeer(f, e), g) <=> Ends(e, g)
         /\ Buried(OnlyMark(f, e), g) <=> Ends(e, g)
         /\ ~ HeldLive(OnlyMark(f, e), g)
         /\ HeldLive(OnlyPeer(f, e), g) => ~ Ends(e, g)
         /\ HeldLive(OnlyPeer(f, e), g) <=> e.incarnation = g /\ ~ Terminal(e)
<1>1. /\ Absent.incarnation = 0
      /\ Absent.status \notin {"alive", "suspect"}
      /\ e # Absent
      /\ e.incarnation \in Nat
      /\ e.status \in Statuses
  BY AbsentIsNoEntry DEF Absent, Entries
<1>2. \A h \in Forms : /\ OnlyPeer(f, e).peers[h] = IF h = f THEN e ELSE Absent
                       /\ OnlyPeer(f, e).watermarks[h] = Absent
                       /\ OnlyMark(f, e).peers[h] = Absent
                       /\ OnlyMark(f, e).watermarks[h] = IF h = f THEN e ELSE Absent
  BY DEF OnlyPeer, OnlyMark
<1>3. /\ Bounded(OnlyPeer(f, e), g) <=> e.incarnation <= g
      /\ Bounded(OnlyMark(f, e), g) <=> e.incarnation <= g
  BY <1>1, <1>2 DEF Bounded
<1>4. /\ Buried(OnlyPeer(f, e), g) <=> Ends(e, g)
      /\ Buried(OnlyMark(f, e), g) <=> Ends(e, g)
  BY <1>1, <1>2 DEF Buried, Ends
<1>5. /\ ~ HeldLive(OnlyMark(f, e), g)
      /\ HeldLive(OnlyPeer(f, e), g) => ~ Ends(e, g)
  BY <1>1, <1>2 DEF HeldLive, Ends, Terminal
<1>6. HeldLive(OnlyPeer(f, e), g) <=> e.incarnation = g /\ ~ Terminal(e)
  BY <1>1, <1>2 DEF HeldLive, Terminal, Statuses
<1>7. QED BY <1>3, <1>4, <1>5, <1>6

\* An empty slot bounds all incarnations, buries and holds none.
LEMMA EmptySays ==
  ASSUME NEW g \in Nat
  PROVE  Bounded(EmptySlot, g) /\ ~ Buried(EmptySlot, g) /\ ~ HeldLive(EmptySlot, g)
  BY DEF Bounded, Buried, HeldLive, EmptySlot, Absent

\* An incarnation that is over is not held live beside it.
LEMMA BuriedNotLive ==
  ASSUME NEW s \in Slots, OneRecord(s), NEW g \in Nat, Buried(s, g)
  PROVE  ~ HeldLive(s, g)
<1>1. Shaped(s)
  BY ShapeOfOneRecord
<1>2. CASE s = EmptySlot
  BY <1>2, EmptySays
<1>3. ASSUME NEW f \in Forms, NEW e \in Entries,
             s = OnlyPeer(f, e) \/ s = OnlyMark(f, e)
      PROVE  ~ HeldLive(s, g)
  BY <1>3, ShapesSay
<1>4. QED BY <1>1, <1>2, <1>3 DEF Shaped

-----------------------------------------------------------------------------
(* What the operations promise *)

\* From s to r at most one record is left, no incarnation appears but those
\* up to b, none that was over begins again, and the one held live stays so
\* until it is over.
Advances(s, r, b) ==
  /\ r \in Slots
  /\ OneRecord(r)
  /\ \A g \in Nat : /\ Bounded(s, g) /\ b <= g => Bounded(r, g)
                    /\ Buried(s, g) => Buried(r, g)
                    /\ HeldLive(s, g) => HeldLive(r, g) \/ Buried(r, g)

\* A slot left alone advances.
LEMMA AdvancesSame ==
  ASSUME NEW s \in Slots, OneRecord(s), NEW b
  PROVE  Advances(s, s, b)
  BY DEF Advances

\* Two operations in a row advance a slot if each does.
LEMMA AdvancesTwice ==
  ASSUME NEW s, NEW r, NEW q, NEW b, Advances(s, r, b), Advances(r, q, b)
  PROVE  Advances(s, q, b)
  BY DEF Advances

\* The entry e takes the place of the only record, d; as a watermark only
\* if it is terminal.
LEMMA AdvancesPeer ==
  ASSUME NEW s, NEW f \in Forms, NEW d \in Entries, NEW e \in Entries, NEW b \in Nat,
         \E h \in Forms : s = OnlyPeer(h, d) \/ s = OnlyMark(h, d),
         e.incarnation <= b \/ e.incarnation = d.incarnation,
         d.incarnation <= e.incarnation,
         \A g \in Nat : Ends(d, g) => Ends(e, g)
  PROVE  /\ Advances(s, OnlyPeer(f, e), b)
         /\ Terminal(e) => Advances(s, OnlyMark(f, e), b)
<1>1. Shaped(OnlyPeer(f, e)) /\ Shaped(OnlyMark(f, e))
  BY DEF Shaped
<1>2. \A g \in Nat : Bounded(s, g) <=> d.incarnation <= g
  BY ShapesSay
<1>3. \A g \in Nat : Buried(s, g) <=> Ends(d, g)
  BY ShapesSay
<1>4. \A g \in Nat : /\ Bounded(OnlyPeer(f, e), g) <=> e.incarnation <= g
                     /\ Bounded(OnlyMark(f, e), g) <=> e.incarnation <= g
                     /\ Buried(OnlyPeer(f, e), g) <=> Ends(e, g)
                     /\ Buried(OnlyMark(f, e), g) <=> Ends(e, g)
                     /\ HeldLive(OnlyPeer(f, e), g) <=> e.incarnation = g /\ ~ Terminal(e)
  BY ShapesSay
<1>5. e.incarnation \in Nat /\ d.incarnation \in Nat
  BY AbsentIsNoEntry
<1>6. \A g \in Nat : d.incarnation <= g /\ b <= g => e.incarnation <= g
  BY <1>5
<1>7. ASSUME NEW g \in Nat, HeldLive(s, g)
      PROVE  Ends(e, g) \/ (e.incarnation = g /\ ~ Terminal(e))
  <2>1. d.incarnation = g
    BY <1>7, ShapesSay
  <2>2. QED BY <1>5, <2>1 DEF Ends
<1>8. ASSUME NEW g \in Nat, HeldLive(s, g), Terminal(e)
      PROVE  Ends(e, g)
  BY <1>7, <1>8
<1>9. Advances(s, OnlyPeer(f, e), b)
  BY <1>1, <1>2, <1>3, <1>4, <1>6, <1>7, ShapedSlot DEF Advances
<1>10. ASSUME Terminal(e) PROVE Advances(s, OnlyMark(f, e), b)
  BY <1>1, <1>2, <1>3, <1>4, <1>6, <1>8, <1>10, ShapedSlot DEF Advances
<1>11. QED BY <1>9, <1>10

\* The first record of a slot.
LEMMA AdvancesEmpty ==
  ASSUME NEW f \in Forms, NEW e \in Entries
  PROVE  Advances(EmptySlot, OnlyPeer(f, e), e.incarnation)
<1>1. Shaped(OnlyPeer(f, e))
  BY DEF Shaped
<1>2. \A g \in Nat : ~ Buried(EmptySlot, g) /\ ~ HeldLive(EmptySlot, g)
  BY EmptySays
<1>3. \A g \in Nat : e.incarnation <= g => Bounded(OnlyPeer(f, e), g)
  BY ShapesSay
<1>4. QED BY <1>1, <1>2, <1>3, ShapedSlot DEF Advances

\* Merged statuses are as final as the older one.
LEMMA MaxStatus ==
  ASSUME NEW a \in Statuses, NEW b \in Statuses
  PROVE  /\ maxStatus(a, b) \in {a, b}
         /\ a \in {"dead", "leave"} => maxStatus(a, b) \in {"dead", "leave"}
         /\ a \in {"dead", "leave"} /\ ~ (rankStatus(b) <= rankStatus(a)) => b \in {"dead", "leave"}
  BY DEF maxStatus, rankStatus, Statuses

\* The younger of two ages is an age.
LEMMA LesserAge ==
  ASSUME NEW a \in Ages, NEW b \in Ages
  PROVE  Lesser(a, b) \in Ages
  BY DEF Lesser

\* The fields of an entry.
LEMMA EntryFields ==
  ASSUME NEW e \in Entries
  PROVE  e.status \in Statuses /\ e.incarnation \in Nat /\ e.age \in Ages
  BY DEF Entries

\* Upsert merges no status below the one it has and no incarnation below it.
LEMMA UpsertAdvances ==
  ASSUME NEW s \in Slots, OneRecord(s), NEW f \in Forms, NEW u \in Entries
  PROVE  Advances(s, Upsert(s, f, u), u.incarnation)
<1>1. Shaped(s)
  BY ShapeOfOneRecord
<1>2. CASE s = EmptySlot
  BY <1>2, UpsertEmpty, AdvancesEmpty
<1>3. ASSUME NEW h \in Forms, NEW e \in Entries, s = OnlyPeer(h, e)
      PROVE  Advances(s, Upsert(s, f, u), u.incarnation)
  <2> DEFINE merged == [status      |-> maxStatus(e.status, u.status),
                        incarnation |-> e.incarnation,
                        age         |-> Lesser(e.age, u.age)]
  <2>1. /\ e.status \in Statuses /\ e.incarnation \in Nat /\ e.age \in Ages
        /\ u.status \in Statuses /\ u.incarnation \in Nat /\ u.age \in Ages
    BY EntryFields
  <2>2. merged \in Entries
    BY <2>1, MaxStatus, LesserAge DEF Entries
  <2>3. \A g \in Nat : Ends(e, g) => Ends(merged, g)
    BY <2>1, MaxStatus DEF Ends, Terminal
  <2>4. Advances(s, OnlyPeer(f, merged), u.incarnation)
    <3> merged.incarnation = e.incarnation /\ e.incarnation <= merged.incarnation
      BY <2>1
    <3> HIDE DEF merged
    <3> QED BY <1>3, <2>1, <2>2, <2>3, AdvancesPeer
  <2>5. ASSUME e.incarnation < u.incarnation
        PROVE  Advances(s, OnlyPeer(f, u), u.incarnation)
    <3>1. \A g \in Nat : Ends(e, g) => Ends(u, g)
      BY <2>1, <2>5 DEF Ends
    <3>2. u.incarnation <= u.incarnation /\ e.incarnation <= u.incarnation
      BY <2>1, <2>5
    <3>3. QED BY <1>3, <2>1, <3>1, <3>2, AdvancesPeer
  <2>6. Advances(s, s, u.incarnation)
    BY AdvancesSame
  <2>7. Upsert(s, f, u) \in {OnlyPeer(f, u), s, OnlyPeer(f, merged)}
        /\ (Upsert(s, f, u) = OnlyPeer(f, u)
            => e.incarnation < u.incarnation \/ OnlyPeer(f, u) \in {s, OnlyPeer(f, merged)})
    BY <1>3, UpsertShapes
  <2> HIDE DEF merged
  <2>8. QED BY <2>4, <2>5, <2>6, <2>7
<1>4. ASSUME NEW h \in Forms, NEW e \in Entries, s = OnlyMark(h, e)
      PROVE  Advances(s, Upsert(s, f, u), u.incarnation)
  <2>1. /\ e.status \in Statuses /\ e.incarnation \in Nat
        /\ u.status \in Statuses /\ u.incarnation \in Nat
    BY EntryFields
  <2>2. CASE \/ u.incarnation < e.incarnation
             \/ /\ u.incarnation = e.incarnation
                /\ rankStatus(u.status) <= rankStatus(e.status)
    <3>1. Upsert(s, f, u) = s
      BY <1>4, <2>2, UpsertShapes
    <3>2. QED BY <3>1, AdvancesSame
  <2>3. CASE ~ (\/ u.incarnation < e.incarnation
                \/ /\ u.incarnation = e.incarnation
                   /\ rankStatus(u.status) <= rankStatus(e.status))
    <3>1. Upsert(s, f, u) = OnlyPeer(f, u)
      BY <1>4, <2>3, UpsertShapes
    <3>2. \/ e.incarnation < u.incarnation
          \/ e.incarnation = u.incarnation /\ (Terminal(e) => Terminal(u))
      BY <2>1, <2>3, MaxStatus DEF Terminal
    <3>3. \A g \in Nat : Ends(e, g) => Ends(u, g)
      BY <2>1, <3>2 DEF Ends
    <3>4. u.incarnation <= u.incarnation /\ e.incarnation <= u.incarnation
      BY <2>1, <3>2
    <3>5. Advances(s, OnlyPeer(f, u), u.incarnation)
      BY <1>4, <2>1, <3>3, <3>4, AdvancesPeer
    <3>6. QED BY <3>1, <3>5
  <2>4. QED BY <2>2, <2>3
<1>5. QED BY <1>1, <1>2, <1>3, <1>4 DEF Shaped

\* A heartbeat revives only a later incarnation, or one not dead or left.
LEMMA HeartbeatAdvances ==
  ASSUME NEW s \in Slots, OneRecord(s), NEW inc \in Nat, NEW age \in Ages
  PROVE  Advances(s, ObserveHeartbeat(s, inc, age), inc)
<1>1. Shaped(s)
  BY ShapeOfOneRecord
<1>2. Advances(s, s, inc)
  BY AdvancesSame
<1>3. CASE s = EmptySlot
  BY <1>2, <1>3, HeartbeatEmpty
<1>4. ASSUME NEW h \in Forms, NEW e \in Entries, s = OnlyMark(h, e)
      PROVE  Advances(s, ObserveHeartbeat(s, inc, age), inc)
  BY <1>2, <1>4, HeartbeatShapes
<1>5. ASSUME NEW h \in Forms, NEW e \in Entries, s = OnlyPeer(h, e)
      PROVE  Advances(s, ObserveHeartbeat(s, inc, age), inc)
  <2> DEFINE a == [status      |-> "alive",
                   incarnation |-> inc,
                   age         |-> Lesser(e.age, age)]
  <2>1. e.status \in Statuses /\ e.incarnation \in Nat /\ e.age \in Ages
    BY EntryFields
  <2>2. CASE inc < e.incarnation \/ (inc = e.incarnation /\ Terminal(e))
    BY <1>2, <1>5, <2>2, HeartbeatShapes
  <2>3. CASE ~ (inc < e.incarnation \/ (inc = e.incarnation /\ Terminal(e)))
    <3>1. ObserveHeartbeat(s, inc, age) = OnlyPeer("canonical", a)
      BY <1>5, <2>3, HeartbeatShapes
    <3>2. a \in Entries
      BY <2>1, LesserAge DEF Entries, Statuses
    <3>3. \A g \in Nat : Ends(e, g) => Ends(a, g)
      BY <2>1, <2>3 DEF Ends
    <3>4. a.incarnation <= inc /\ e.incarnation <= a.incarnation
      BY <2>1, <2>3
    <3> HIDE DEF a
    <3>5. "canonical" \in Forms
      BY DEF Forms
    <3>6. Advances(s, OnlyPeer("canonical", a), inc)
      BY <1>5, <3>2, <3>3, <3>4, <3>5, AdvancesPeer
    <3>7. QED BY <3>1, <3>6
  <2>4. QED BY <2>2, <2>3
<1>6. QED BY <1>1, <1>3, <1>4, <1>5 DEF Shaped

\* An entry whose node is silent moves towards its end only.
LEMMA ExpireEntry ==
  ASSUME NEW e \in Entries
  PROVE  /\ Expire(e) \in Entries
         /\ Expire(e).incarnation = e.incarnation
         /\ Terminal(e) => Terminal(Expire(e))
<1>1. e.status \in Statuses /\ e.incarnation \in Nat /\ e.age \in Ages
  BY EntryFields
<1>2. /\ nextStatusForElapsed(e) \in Statuses
      /\ Terminal(e) => nextStatusForElapsed(e) \in {"dead", "leave"}
  BY <1>1 DEF nextStatusForElapsed, Terminal, Statuses
<1>3. CASE e.status = "leave"
  BY <1>3 DEF Expire
<1>4. CASE e.status # "leave"
  <2>1. Expire(e) = [e EXCEPT !.status = nextStatusForElapsed(e)]
    BY <1>4, AbsentIsNoEntry DEF Expire
  <2>2. e = [status |-> e.status, incarnation |-> e.incarnation, age |-> e.age]
    BY DEF Entries
  <2>3. Expire(e) = [status |-> nextStatusForElapsed(e), incarnation |-> e.incarnation, age |-> e.age]
    BY <2>1, <2>2
  <2>4. QED BY <1>1, <1>2, <2>3 DEF Entries, Terminal
<1>5. QED BY <1>3, <1>4

\* Ageing changes the age alone.
LEMMA AgedEntry ==
  ASSUME NEW e \in Entries
  PROVE  /\ Aged(e) \in Entries
         /\ Aged(e).incarnation = e.incarnation
         /\ Aged(e).status = e.status
<1>1. e.status \in Statuses /\ e.incarnation \in Nat /\ e.age \in Ages
  BY EntryFields
<1>2. CASE e.age = MaxAge
  BY <1>2 DEF Aged
<1>3. CASE e.age # MaxAge
  <2>1. e.age + 1 \in Ages
    BY <1>1, <1>3, AgesType DEF Ages
  <2>2. Aged(e) = [e EXCEPT !.age = e.age + 1]
    BY <1>3, AbsentIsNoEntry DEF Aged
  <2>3. e = [status |-> e.status, incarnation |-> e.incarnation, age |-> e.age]
    BY DEF Entries
  <2>4. Aged(e) = [status |-> e.status, incarnation |-> e.incarnation, age |-> e.age + 1]
    BY <2>2, <2>3
  <2>5. QED BY <1>1, <2>1, <2>4 DEF Entries
<1>4. QED BY <1>2, <1>3

\* Time, silence and the retention do not revive anybody.
LEMMA SweepAdvances ==
  ASSUME NEW s \in Slots, OneRecord(s)
  PROVE  /\ Advances(s, ApplyTimeoutTransitions(s), 0)
         /\ Advances(s, AgedSlot(s), 0)
         /\ Advances(s, Prune(s), 0)
<1>1. Shaped(s)
  BY ShapeOfOneRecord
<1>2. Advances(s, s, 0)
  BY AdvancesSame
<1>3. CASE s = EmptySlot
  BY <1>2, <1>3, SweepEmpty
<1>4. ASSUME NEW h \in Forms, NEW e \in Entries, s = OnlyMark(h, e)
      PROVE  /\ Advances(s, ApplyTimeoutTransitions(s), 0)
             /\ Advances(s, AgedSlot(s), 0)
             /\ Advances(s, Prune(s), 0)
  BY <1>2, <1>4, SweepShapes
<1>5. ASSUME NEW h \in Forms, NEW e \in Entries, s = OnlyPeer(h, e)
      PROVE  /\ Advances(s, ApplyTimeoutTransitions(s), 0)
             /\ Advances(s, AgedSlot(s), 0)
             /\ Advances(s, Prune(s), 0)
  <2>1. e.status \in Statuses /\ e.incarnation \in Nat /\ e.age \in Ages
    BY EntryFields
  <2>2. Advances(s, ApplyTimeoutTransitions(s), 0)
    <3>1. \A g \in Nat : Ends(e, g) => Ends(Expire(e), g)
      BY ExpireEntry DEF Ends
    <3>2. Advances(s, OnlyPeer(h, Expire(e)), 0)
      BY <1>5, <2>1, <3>1, ExpireEntry, AdvancesPeer
    <3>3. QED BY <1>5, <3>2, SweepShapes
  <2>3. Advances(s, AgedSlot(s), 0)
    <3>1. \A g \in Nat : Ends(e, g) => Ends(Aged(e), g)
      BY AgedEntry DEF Ends, Terminal
    <3>2. Advances(s, OnlyPeer(h, Aged(e)), 0)
      BY <1>5, <2>1, <3>1, AgedEntry, AdvancesPeer
    <3>3. QED BY <1>5, <3>2, SweepShapes
  <2>4. Advances(s, Prune(s), 0)
    <3> DEFINE w == [e EXCEPT !.age = 0]
    <3>1. w \in Entries /\ w.incarnation = e.incarnation /\ w.status = e.status
      BY <2>1, AgesType DEF Entries
    <3> HIDE DEF w
    <3>2. \A g \in Nat : Ends(e, g) => Ends(w, g)
      BY <3>1 DEF Ends, Terminal
    <3>3. ASSUME Prunable(e) PROVE Advances(s, OnlyMark(h, w), 0)
      <4>1. Terminal(w) /\ e.incarnation <= w.incarnation
        BY <2>1, <3>1, <3>3 DEF Prunable, Terminal
      <4>2. QED BY <1>5, <3>1, <3>2, <4>1, AdvancesPeer
    <3>4. Prune(s) = s \/ (Prunable(e) /\ Prune(s) = OnlyMark(h, w))
      BY <1>5, SweepShapes DEF w
    <3>5. QED BY <1>2, <3>3, <3>4
  <2>5. QED BY <2>2, <2>3, <2>4
<1>6. QED BY <1>1, <1>3, <1>4, <1>5 DEF Shaped

\* The node's own entry, marked left.
LEMMA LeaveAdvances ==
  ASSUME NEW e \in Entries, NEW s, s = OnlyPeer("canonical", e)
  PROVE  /\ \E d \in Entries : /\ LeaveAt(s) = OnlyPeer("canonical", d)
                              /\ d.incarnation = e.incarnation
                              /\ d.status = "leave"
         /\ Advances(s, LeaveAt(s), 0)
<1> DEFINE d == [e EXCEPT !.status = "leave", !.age = 0]
<1>1. d \in Entries /\ d.incarnation = e.incarnation /\ d.status = "leave"
  BY EntryFields, AgesType DEF Entries, Statuses
<1>2. LeaveAt(s) = OnlyPeer("canonical", d)
  <2> DEFINE P == [s.peers EXCEPT !["canonical"] = d]
  <2>1. "canonical" \in Forms
    BY DEF Forms
  <2>2. s.peers["canonical"] = e
    BY <2>1 DEF OnlyPeer
  <2>3. P = [g \in Forms |-> IF g = "canonical" THEN d ELSE Absent]
    <3> HIDE DEF d
    <3> QED BY <2>1 DEF OnlyPeer
  <2>4. LeaveAt(s) = [s EXCEPT !.peers = P]
    BY <2>2, Zenon DEF LeaveAt
  <2>5. [s EXCEPT !.peers = P] = [peers |-> P, watermarks |-> [g \in Forms |-> Absent]]
    BY PeersReplaced
  <2>6. QED BY <2>3, <2>4, <2>5, Zenon DEF OnlyPeer
<1> HIDE DEF d
<1>3. "canonical" \in Forms
  BY DEF Forms
<1>4. \A g \in Nat : Ends(e, g) => Ends(d, g)
  BY <1>1 DEF Ends, Terminal
<1>5. Advances(s, OnlyPeer("canonical", d), 0)
  BY <1>1, <1>3, <1>4, EntryFields, AdvancesPeer
<1>6. QED BY <1>1, <1>2, <1>5

-----------------------------------------------------------------------------
(* What a slot remembers *)

\* An empty slot knows of none.
LEMMA EmptyRemembers == OverIn(EmptySlot) = 0 /\ ~ LiveIn(EmptySlot)
<1>1. /\ OverBy(Absent) = 0
      /\ Absent.status \notin {"alive", "suspect"}
      /\ "canonical" \in Forms
  BY DEF Absent, OverBy, Terminal, Forms
<1>2. \A f \in Forms : EmptySlot.peers[f] = Absent /\ EmptySlot.watermarks[f] = Absent
  BY DEF EmptySlot
<1> DEFINE K == {OverBy(EmptySlot.peers[g]) : g \in Forms}
                \cup {OverBy(EmptySlot.watermarks[g]) : g \in Forms}
<1>3. K = {0}
  BY <1>1, <1>2
<1> HIDE DEF K
<1>4. 0 = CHOOSE h \in K : \A l \in K : l <= h
  BY <1>3
<1>5. QED BY <1>1, <1>2, <1>4 DEF OverIn, LiveIn, K

\* How many incarnations the shapes know to be over, and whether live.
LEMMA ShapesRemember ==
  ASSUME NEW f \in Forms, NEW e \in Entries
  PROVE  /\ OverIn(OnlyPeer(f, e)) = OverBy(e) /\ OverIn(OnlyMark(f, e)) = OverBy(e)
         /\ LiveIn(OnlyPeer(f, e)) <=> ~ Terminal(e)
         /\ ~ LiveIn(OnlyMark(f, e))
<1>1. /\ OverBy(Absent) = 0
      /\ Absent.status \notin {"alive", "suspect"}
      /\ OverBy(e) \in Nat
      /\ e.status \in Statuses
  BY DEF Absent, OverBy, Terminal, Entries
<1>2. \A h \in Forms : /\ OnlyPeer(f, e).peers[h] = IF h = f THEN e ELSE Absent
                       /\ OnlyPeer(f, e).watermarks[h] = Absent
                       /\ OnlyMark(f, e).peers[h] = Absent
                       /\ OnlyMark(f, e).watermarks[h] = IF h = f THEN e ELSE Absent
  BY DEF OnlyPeer, OnlyMark
<1> DEFINE K(s) == {OverBy(s.peers[g]) : g \in Forms} \cup {OverBy(s.watermarks[g]) : g \in Forms}
<1>3. ASSUME NEW s, NEW k, k \in K(s), K(s) \subseteq Nat, \A h \in K(s) : h <= k
      PROVE  OverIn(s) = k
  <2>1. \A h \in K(s) : (\A l \in K(s) : l <= h) => h = k
    BY <1>3
  <2> HIDE DEF K
  <2>2. k = CHOOSE h \in K(s) : \A l \in K(s) : l <= h
    BY <1>3, <2>1
  <2>3. QED BY <2>2 DEF OverIn, K
<1>4. /\ K(OnlyPeer(f, e)) \subseteq {0, OverBy(e)} /\ OverBy(e) \in K(OnlyPeer(f, e))
      /\ K(OnlyMark(f, e)) \subseteq {0, OverBy(e)} /\ OverBy(e) \in K(OnlyMark(f, e))
  BY <1>1, <1>2 DEF Forms
<1> HIDE DEF K
<1>5. /\ OverIn(OnlyPeer(f, e)) = OverBy(e)
      /\ OverIn(OnlyMark(f, e)) = OverBy(e)
  BY <1>1, <1>3, <1>4
<1>6. /\ LiveIn(OnlyPeer(f, e)) <=> ~ Terminal(e)
      /\ ~ LiveIn(OnlyMark(f, e))
  BY <1>1, <1>2 DEF LiveIn, Terminal, Statuses
<1>7. QED BY <1>5, <1>6

\* The incarnations that are over are the first ones, at most one more than
\* were opened, and the one held live is the next.
LEMMA SlotRemembers ==
  ASSUME NEW s \in Slots, OneRecord(s)
  PROVE  /\ OverIn(s) \in Nat
         /\ \A g \in Nat : Buried(s, g) <=> g < OverIn(s)
         /\ LiveIn(s) <=> HeldLive(s, OverIn(s))
         /\ \A g \in Nat : Bounded(s, g) => /\ OverIn(s) <= g + 1
                                            /\ LiveIn(s) => OverIn(s) <= g
<1>1. Shaped(s)
  BY ShapeOfOneRecord
<1>2. CASE s = EmptySlot
  <2>1. OverIn(s) = 0 /\ ~ LiveIn(s)
    BY <1>2, EmptyRemembers
  <2>2. QED BY <1>2, <2>1, EmptySays
<1>3. ASSUME NEW f \in Forms, NEW e \in Entries, s = OnlyPeer(f, e) \/ s = OnlyMark(f, e)
      PROVE  /\ OverIn(s) \in Nat
             /\ \A g \in Nat : Buried(s, g) <=> g < OverIn(s)
             /\ LiveIn(s) <=> HeldLive(s, OverIn(s))
             /\ \A g \in Nat : Bounded(s, g) => /\ OverIn(s) <= g + 1
                                                /\ LiveIn(s) => OverIn(s) <= g
  <2>1. e.incarnation \in Nat
    BY EntryFields
  <2>2. OverIn(s) = OverBy(e) /\ OverBy(e) \in Nat
    BY <1>3, <2>1, ShapesRemember DEF OverBy
  <2>3. LiveIn(s) <=> s = OnlyPeer(f, e) /\ ~ Terminal(e)
    BY <1>3, ShapesRemember
  <2>4. \A g \in Nat : Ends(e, g) <=> g < OverBy(e)
    BY <2>1 DEF Ends, OverBy
  <2>5. \A g \in Nat : /\ Bounded(s, g) <=> e.incarnation <= g
                       /\ Buried(s, g) <=> Ends(e, g)
                       /\ HeldLive(s, g) <=> s = OnlyPeer(f, e) /\ e.incarnation = g /\ ~ Terminal(e)
    BY <1>3, ShapesSay
  <2>6. ~ Terminal(e) => OverBy(e) = e.incarnation
    BY DEF OverBy
  <2>7. OverBy(e) <= e.incarnation + 1
    BY <2>1 DEF OverBy
  <2>8. QED BY <2>1, <2>2, <2>3, <2>4, <2>5, <2>6, <2>7
<1>4. QED BY <1>1, <1>2, <1>3 DEF Shaped

\* A slot that advances does not remember less, and what it no longer holds
\* live is over.
LEMMA AdvancesRemember ==
  ASSUME NEW s \in Slots, OneRecord(s), NEW b \in Nat, Bounded(s, b),
         NEW r, Advances(s, r, b)
  PROVE  /\ OverIn(r) \in OverIn(s) .. b + 1
         /\ LiveIn(r) => OverIn(r) <= b
         /\ LiveIn(s) /\ ~ LiveIn(r) => OverIn(s) < OverIn(r)
<1>1. /\ r \in Slots /\ OneRecord(r) /\ Bounded(r, b) /\ b <= b
      /\ \A g \in Nat : /\ Buried(s, g) => Buried(r, g)
                        /\ HeldLive(s, g) => HeldLive(r, g) \/ Buried(r, g)
  BY DEF Advances
<1> DEFINE k == OverIn(s)
           l == OverIn(r)
<1>2. /\ k \in Nat /\ l \in Nat
      /\ \A g \in Nat : Buried(s, g) <=> g < k
      /\ \A g \in Nat : Buried(r, g) <=> g < l
      /\ LiveIn(s) <=> HeldLive(s, k)
      /\ l <= b + 1
      /\ LiveIn(r) => l <= b
  <2>1. k \in Nat /\ (\A g \in Nat : Buried(s, g) <=> g < k) /\ (LiveIn(s) <=> HeldLive(s, k))
    BY SlotRemembers
  <2>2. l \in Nat /\ (\A g \in Nat : Buried(r, g) <=> g < l)
    BY <1>1, SlotRemembers
  <2>3. l <= b + 1 /\ (LiveIn(r) => l <= b)
    BY <1>1, SlotRemembers
  <2>4. QED BY <2>1, <2>2, <2>3
<1> HIDE DEF k, l
<1>3. k <= l
  <2>1. CASE k = 0
    BY <1>2, <2>1
  <2>2. CASE k # 0
    <3>1. k - 1 \in Nat /\ k - 1 < k
      BY <1>2, <2>2
    <3>2. k - 1 < l
      BY <1>1, <1>2, <3>1
    <3>3. QED BY <1>2, <3>2
  <2>3. QED BY <2>1, <2>2
<1>4. ASSUME LiveIn(s), ~ LiveIn(r) PROVE k < l
  <2>1. HeldLive(r, k) \/ Buried(r, k)
    BY <1>1, <1>2, <1>4
  <2>2. CASE HeldLive(r, k)
    <3>1. LiveIn(r)
      BY <2>2 DEF HeldLive, LiveIn
    <3>2. QED BY <1>4, <3>1
  <2>3. QED BY <1>2, <2>1, <2>2
<1>5. QED BY <1>2, <1>3, <1>4 DEF k, l

\* Nobody learns from the passing of time alone.
LEMMA AgedRemembers ==
  ASSUME NEW s \in Slots, OneRecord(s)
  PROVE  OverIn(AgedSlot(s)) = OverIn(s) /\ (LiveIn(AgedSlot(s)) <=> LiveIn(s))
<1>1. Shaped(s)
  BY ShapeOfOneRecord
<1>2. ASSUME NEW f \in Forms, NEW e \in Entries, s = OnlyPeer(f, e)
      PROVE  OverIn(AgedSlot(s)) = OverIn(s) /\ (LiveIn(AgedSlot(s)) <=> LiveIn(s))
  <2>1. AgedSlot(s) = OnlyPeer(f, Aged(e)) /\ Aged(e) \in Entries
    BY <1>2, SweepShapes, AgedEntry
  <2>2. OverBy(Aged(e)) = OverBy(e) /\ (Terminal(Aged(e)) <=> Terminal(e))
    BY AgedEntry DEF OverBy, Terminal
  <2>3. QED BY <1>2, <2>1, <2>2, ShapesRemember
<1>3. QED BY <1>1, <1>2, SweepEmpty, SweepShapes DEF Shaped

\* A bound on the incarnations that appear may be loosened.
LEMMA AdvancesFurther ==
  ASSUME NEW s, NEW r, NEW a \in Nat, NEW b \in Nat, a <= b, Advances(s, r, a)
  PROVE  Advances(s, r, b)
  BY DEF Advances

\* A bound on the incarnations held may be loosened.
LEMMA BoundedFurther ==
  ASSUME NEW s \in Slots, NEW a \in Nat, NEW b \in Nat, a <= b, Bounded(s, a)
  PROVE  Bounded(s, b)
<1>1. \A f \in Forms : s.peers[f].incarnation \in Nat /\ s.watermarks[f].incarnation \in Nat
  BY AbsentIsNoEntry DEF Slots, Absent
<1>2. QED BY <1>1 DEF Bounded

\* The empty slot satisfies all that is asked of a slot.
LEMMA EmptyFits ==
  ASSUME NEW g \in Nat
  PROVE  EmptySlot \in Slots /\ OneRecord(EmptySlot) /\ Bounded(EmptySlot, g)
  BY ShapedSlot, EmptySays DEF Shaped

-----------------------------------------------------------------------------
(* The protocol *)

\* What a running node of generation g holds of itself: an entry under its
\* node ID, alive until it leaves.
Own(s, g, state) ==
  \E e \in Entries : /\ s = OnlyPeer("canonical", e)
                     /\ e.incarnation = g
                     /\ e.status = IF state = "up" THEN "alive" ELSE "leave"

\* Nothing a node merges, prunes or expires is about itself, so a leave
\* always finds the entry it marks.
SelfSlots == \A n \in Node : Running(n) => Own(slots[n][n], generation[n], status[n])

\* What the Sets hold.
SlotInv ==
  /\ status \in [Node -> {"down", "up", "leaving"}]
  /\ generation \in [Node -> Nat]
  /\ slots \in [Node -> [Node -> Slots]]
  /\ \A i, j \in Node : OneRecord(slots[i][j]) /\ Bounded(slots[i][j], generation[j])
  /\ SelfSlots

\* What a step from there does to them.
SlotStep ==
  /\ SlotInv'
  /\ \A j \in Node : generation[j] <= generation'[j]
  /\ \A i, j \in Node :
       Running(i) /\ Running(i)' => Advances(slots[i][j], slots'[i][j], generation[j])
  /\ Memory!Next \/ UNCHANGED Memory!vars

-----------------------------------------------------------------------------
(* Digests and datagrams *)

Digests == [Node -> [form : Forms, entry : Entries \cup {Absent}]]

\* What a digest carries for a node has a numeric incarnation, which ageing keeps.
LEMMA EntryOrAbsent ==
  ASSUME NEW e \in Entries \cup {Absent}
  PROVE  /\ e.incarnation \in Nat
         /\ Aged(e) \in Entries \cup {Absent}
         /\ Aged(e).incarnation = e.incarnation
<1>1. CASE e = Absent
  BY <1>1 DEF Absent, Aged
<1>2. CASE e \in Entries
  BY <1>2, AgedEntry, AbsentIsNoEntry
<1>3. QED BY <1>1, <1>2

\* A digest says nothing that the Set does not hold.
LEMMA DigestOfSet ==
  ASSUME NEW peers \in [Node -> Slots]
  PROVE  /\ Digest(peers) \in Digests
         /\ \A j \in Node : \A g \in Nat :
              Bounded(peers[j], g) => Digest(peers)[j].entry.incarnation <= g
<1> DEFINE Form(p) == IF p["canonical"] # Absent THEN "canonical" ELSE "placeholder"
<1>1. Digest(peers) = [j \in Node |-> [form  |-> Form(peers[j].peers),
                                       entry |-> peers[j].peers[Form(peers[j].peers)]]]
  BY DEF Digest
<1>2. \A p : Form(p) \in Forms
  BY DEF Forms
<1> HIDE DEF Form
<1>3. \A j \in Node : \A f \in Forms : peers[j].peers[f] \in Entries \cup {Absent}
  BY DEF Slots
<1>4. Digest(peers) \in Digests
  BY <1>1, <1>2, <1>3 DEF Digests
<1>5. \A j \in Node : \A g \in Nat :
        Bounded(peers[j], g) => Digest(peers)[j].entry.incarnation <= g
  BY <1>1, <1>2 DEF Bounded
<1>6. QED BY <1>4, <1>5

\* A digest sent to nodes makes datagrams.
LEMMA SentDatagrams ==
  ASSUME NEW d \in Digests, NEW n \in Node, NEW S \in SUBSET Node
  PROVE  {[from |-> n, to |-> j, age |-> 0, digest |-> d] : j \in S} \subseteq Datagrams
  BY AgesType DEF Datagrams, Digests

\* In the network a datagram only grows older.
LEMMA AgedDatagram ==
  ASSUME NEW m \in Datagrams
  PROVE  /\ AgedMessage(m) \in Datagrams
         /\ \A j \in Node :
              AgedMessage(m).digest[j].entry.incarnation = m.digest[j].entry.incarnation
<1> DEFINE a == IF m.age = MaxAge THEN m.age ELSE m.age + 1
           D == [j \in Node |-> [form  |-> m.digest[j].form,
                                 entry |-> Aged(m.digest[j].entry)]]
<1>1. /\ m = [from |-> m.from, to |-> m.to, age |-> m.age, digest |-> m.digest]
      /\ m.from \in Node /\ m.to \in Node /\ m.age \in Ages
      /\ m.digest \in [Node -> [form : Forms, entry : Entries \cup {Absent}]]
  BY DEF Datagrams
<1>2. a \in Ages
  BY <1>1, AgesType DEF Ages
<1>3. \A j \in Node :
        /\ m.digest[j].form \in Forms
        /\ m.digest[j].entry \in Entries \cup {Absent}
  BY <1>1
<1>4. \A j \in Node :
        /\ Aged(m.digest[j].entry) \in Entries \cup {Absent}
        /\ Aged(m.digest[j].entry).incarnation = m.digest[j].entry.incarnation
  BY <1>3, EntryOrAbsent
<1>5. D \in [Node -> [form : Forms, entry : Entries \cup {Absent}]]
  BY <1>3, <1>4
<1>6. \A j \in Node : D[j].entry.incarnation = m.digest[j].entry.incarnation
  BY <1>4
<1>7. AgedMessage(m) = [from |-> m.from, to |-> m.to, age |-> a, digest |-> D]
  <2>1. AgedMessage(m) = [m EXCEPT !.age = a, !.digest = D]
    BY Zenon DEF AgedMessage
  <2> HIDE DEF a, D
  <2>2. QED BY <1>1, <2>1
<1> HIDE DEF a, D
<1>8. AgedMessage(m) \in Datagrams
  BY <1>1, <1>2, <1>5, <1>7 DEF Datagrams
<1>9. QED BY <1>6, <1>7, <1>8

\* A digest that claims no incarnation its node has not reached.
Fits(d) == d \in Digests /\ \A j \in Node : d[j].entry.incarnation <= generation[j]

\* A later generation fits it as well.
LEMMA FitsFurther ==
  ASSUME generation \in [Node -> Nat], generation' \in [Node -> Nat],
         \A j \in Node : generation[j] <= generation'[j], NEW d, Fits(d)
  PROVE  Fits(d)'
<1>1. SUFFICES ASSUME NEW j \in Node PROVE d[j].entry.incarnation <= generation'[j]
  BY DEF Fits
<1>2. d[j].entry.incarnation \in Nat /\ d[j].entry.incarnation <= generation[j]
  BY EntryOrAbsent DEF Fits, Digests
<1>3. generation[j] \in Nat /\ generation'[j] \in Nat
  OBVIOUS
<1>4. QED BY <1>2, <1>3

\* The inductive invariant.
IInv == SlotInv /\ \A m \in msgs : m \in Datagrams /\ Fits(m.digest)

-----------------------------------------------------------------------------
(* The Sets *)

\* What the invariant says of one slot.
LEMMA Facts ==
  ASSUME SlotInv
  PROVE  /\ status \in [Node -> {"down", "up", "leaving"}]
         /\ generation \in [Node -> Nat]
         /\ slots \in [Node -> [Node -> Slots]]
         /\ \A i, j \in Node : /\ slots[i][j] \in Slots
                               /\ OneRecord(slots[i][j])
                               /\ Bounded(slots[i][j], generation[j])
                               /\ Advances(slots[i][j], slots[i][j], generation[j])
<1>1. /\ status \in [Node -> {"down", "up", "leaving"}]
      /\ generation \in [Node -> Nat]
      /\ slots \in [Node -> [Node -> Slots]]
  BY DEF SlotInv
<1>2. \A i, j \in Node : /\ slots[i][j] \in Slots
                         /\ OneRecord(slots[i][j])
                         /\ Bounded(slots[i][j], generation[j])
  BY <1>1 DEF SlotInv
<1>3. QED BY <1>1, <1>2, AdvancesSame

\* A step without a boot or a stop, in which every slot advances.
LEMMA Advancing ==
  ASSUME SlotInv,
         status' \in [Node -> {"down", "up", "leaving"}],
         generation' = generation,
         slots' \in [Node -> [Node -> Slots]],
         \A i, j \in Node : Advances(slots[i][j], slots'[i][j], generation[j]),
         \A n \in Node : Running(n)' => Own(slots'[n][n], generation[n], status'[n]),
         Memory!Next \/ UNCHANGED Memory!vars
  PROVE  SlotStep
<1>1. generation \in [Node -> Nat] /\ \A j \in Node : generation[j] <= generation'[j]
  BY Facts
<1>2. ASSUME NEW i \in Node, NEW j \in Node
      PROVE  OneRecord(slots'[i][j]) /\ Bounded(slots'[i][j], generation'[j])
  <2>1. Bounded(slots[i][j], generation[j]) /\ generation[j] \in Nat
    BY Facts
  <2>2. Advances(slots[i][j], slots'[i][j], generation[j])
    OBVIOUS
  <2>3. QED BY <2>1, <2>2 DEF Advances
<1>3. SelfSlots'
  BY DEF SelfSlots
<1>4. QED BY <1>1, <1>2, <1>3 DEF SlotStep, SlotInv

\* What the nodes remember, entry by entry.
LEMMA MemoryEntries ==
  /\ \A i, j \in Node : OverAt[i][j] = OverIn(slots[i][j]) /\ OverAt'[i][j] = OverIn(slots'[i][j])
  /\ \A i, j \in Node : LiveAt[i][j] = LiveIn(slots[i][j]) /\ LiveAt'[i][j] = LiveIn(slots'[i][j])
  /\ \A i \in Node : /\ OverAt[i] = [j \in Node |-> OverAt[i][j]]
                     /\ OverAt'[i] = [j \in Node |-> OverAt'[i][j]]
                     /\ LiveAt[i] = [j \in Node |-> LiveAt[i][j]]
                     /\ LiveAt'[i] = [j \in Node |-> LiveAt'[i][j]]
  BY DEF OverAt, LiveAt

\* A step that changes what n alone remembers.
LEMMA MemoryRow ==
  ASSUME NEW n \in Node, \A i \in Node \ {n} : slots'[i] = slots[i],
         NEW o, NEW l, OverAt'[n] = o, LiveAt'[n] = l
  PROVE  OverAt' = [OverAt EXCEPT ![n] = o] /\ LiveAt' = [LiveAt EXCEPT ![n] = l]
<1>1. \A i \in Node \ {n} : OverAt'[i] = OverAt[i] /\ LiveAt'[i] = LiveAt[i]
  BY DEF OverAt, LiveAt
<1>2. /\ OverAt = [i \in Node |-> OverAt[i]] /\ OverAt' = [i \in Node |-> OverAt'[i]]
      /\ LiveAt = [i \in Node |-> LiveAt[i]] /\ LiveAt' = [i \in Node |-> LiveAt'[i]]
  BY DEF OverAt, LiveAt
<1>3. QED BY <1>1, <1>2

\* A step in which no slot remembers anything else is a stutter of Memory.
LEMMA SameMemory ==
  ASSUME SlotInv, status' = status, generation' = generation,
         \A i, j \in Node : /\ OverIn(slots'[i][j]) = OverIn(slots[i][j])
                            /\ LiveIn(slots'[i][j]) <=> LiveIn(slots[i][j])
  PROVE  UNCHANGED Memory!vars
<1>1. RunningNodes' = RunningNodes
  BY DEF RunningNodes, Running
<1>2. OverAt' = OverAt
  BY DEF OverAt
<1>3. \A i, j \in Node : LiveIn(slots'[i][j]) = LiveIn(slots[i][j])
  BY DEF LiveIn
<1>4. LiveAt' = LiveAt
  BY <1>3 DEF LiveAt
<1>5. QED BY <1>1, <1>2, <1>4 DEF Memory!vars

\* A node whose slots advance, but for its own, learns.
LEMMA LearnStep ==
  ASSUME SlotInv, NEW n \in Node, Running(n), status' = status, generation' = generation,
         \A j \in Node : Advances(slots[n][j], slots'[n][j], generation[j]),
         slots'[n][n] = slots[n][n], \A i \in Node \ {n} : slots'[i] = slots[i]
  PROVE  Memory!Next
<1>1. RunningNodes' = RunningNodes /\ n \in RunningNodes
  BY DEF RunningNodes, Running
<1>3. \A i \in Node \ {n} : OverAt'[i] = OverAt[i] /\ LiveAt'[i] = LiveAt[i]
  BY DEF OverAt, LiveAt
<1>4. ASSUME NEW j \in Node PROVE Memory!LearnsOf(n, j)
  <2>1. /\ slots[n][j] \in Slots /\ OneRecord(slots[n][j])
        /\ Bounded(slots[n][j], generation[j]) /\ generation[j] \in Nat
    BY Facts
  <2>2. /\ OverIn(slots'[n][j]) \in OverIn(slots[n][j]) .. generation[j] + 1
        /\ LiveIn(slots'[n][j]) => OverIn(slots'[n][j]) <= generation[j]
        /\ LiveIn(slots[n][j]) /\ ~ LiveIn(slots'[n][j])
             => OverIn(slots[n][j]) < OverIn(slots'[n][j])
    BY <2>1, AdvancesRemember
  <2>3. QED BY <2>2, MemoryEntries DEF Memory!LearnsOf
<1>5. OverAt'[n][n] = OverAt[n][n] /\ LiveAt'[n][n] = LiveAt[n][n]
  BY MemoryEntries
<1>6. Memory!Learn(n)
  BY <1>1, <1>3, <1>4, <1>5 DEF Memory!Learn
<1>7. QED BY <1>6 DEF Memory!Next

\* Boot: the next generation exceeds every incarnation known of the node.
LEMMA BootSlots ==
  ASSUME SlotInv, NEW n \in Node, Boot(n)
  PROVE  SlotStep
<1> DEFINE New(j) ==
       CASE j = n                     -> Upsert(EmptySlot, "canonical", Self(generation'[n]))
         [] j \in Seeds[n] \ {n}      -> Upsert(EmptySlot, "placeholder", Seed)
         [] j \notin Seeds[n] \cup {n} -> EmptySlot
<1>1. /\ status[n] = "down"
      /\ status' = [status EXCEPT ![n] = "up"]
      /\ generation' = [generation EXCEPT ![n] = @ + 1]
      /\ slots' = [slots EXCEPT ![n] = [j \in Node |-> New(j)]]
      /\ msgs' = msgs
  BY DEF Boot
<1>2. /\ status' \in [Node -> {"down", "up", "leaving"}]
      /\ generation' \in [Node -> Nat]
      /\ \A j \in Node : generation[j] \in Nat /\ generation'[j] \in Nat
      /\ \A j \in Node : generation[j] <= generation'[j]
  BY <1>1, Facts
<1>3. /\ Self(generation'[n]) \in Entries
      /\ Self(generation'[n]).incarnation = generation'[n]
      /\ Seed \in Entries
      /\ Seed.incarnation = 0
      /\ "canonical" \in Forms /\ "placeholder" \in Forms
  BY <1>2, AgesType DEF Self, Seed, Entries, Statuses, Forms
<1>4. New(n) = OnlyPeer("canonical", Self(generation'[n]))
  BY <1>3, UpsertEmpty
<1>5. \A j \in Node \ {n} : New(j) = OnlyPeer("placeholder", Seed) \/ New(j) = EmptySlot
  BY <1>3, UpsertEmpty
<1> HIDE DEF New
<1>6. \A j \in Node : /\ New(j) \in Slots
                      /\ OneRecord(New(j))
                      /\ Bounded(New(j), generation'[j])
  <2>1. ASSUME NEW e \in Entries, NEW f \in Forms, NEW g \in Nat, e.incarnation <= g
        PROVE  /\ OnlyPeer(f, e) \in Slots
               /\ OneRecord(OnlyPeer(f, e))
               /\ Bounded(OnlyPeer(f, e), g)
    <3>1. Shaped(OnlyPeer(f, e))
      BY DEF Shaped
    <3>2. Bounded(OnlyPeer(f, e), g)
      BY <2>1, ShapesSay
    <3>3. QED BY <3>1, <3>2, ShapedSlot
  <2>2. /\ New(n) \in Slots
        /\ OneRecord(New(n))
        /\ Bounded(New(n), generation'[n])
    BY <1>2, <1>3, <1>4, <2>1
  <2>3. ASSUME NEW j \in Node \ {n}
        PROVE  /\ New(j) \in Slots
               /\ OneRecord(New(j))
               /\ Bounded(New(j), generation'[j])
    BY <1>2, <1>3, <1>5, <2>1, EmptyFits
  <2>4. QED BY <2>2, <2>3
<1>7. slots' \in [Node -> [Node -> Slots]]
  BY <1>1, <1>6, Facts
<1>8. \A j \in Node : slots'[n][j] = New(j)
  BY <1>1, Facts
<1>9. \A i \in Node \ {n} : slots'[i] = slots[i]
  BY <1>1, Facts
<1>10. \A i, j \in Node : OneRecord(slots'[i][j]) /\ Bounded(slots'[i][j], generation'[j])
  <2>1. ASSUME NEW i \in Node \ {n}, NEW j \in Node
        PROVE  OneRecord(slots[i][j]) /\ Bounded(slots[i][j], generation'[j])
    BY <1>2, Facts, BoundedFurther
  <2>2. QED BY <1>6, <1>8, <1>9, <2>1
<1>11. SelfSlots'
  <2>1. slots'[n][n] = OnlyPeer("canonical", Self(generation'[n]))
    BY <1>4, <1>8
  <2>2. \A i \in Node \ {n} : Running(i)' => Running(i)
    BY <1>1, Facts DEF Running
  <2>3. status'[n] = "up" /\ \A i \in Node \ {n} : /\ status'[i] = status[i]
                                                 /\ generation'[i] = generation[i]
    BY <1>1, Facts
  <2>4. Own(slots'[n][n], generation'[n], status'[n])
    BY <1>3, <2>1, <2>3 DEF Own, Self
  <2>5. QED BY <1>9, <2>2, <2>3, <2>4 DEF SelfSlots, SlotInv
<1>12. \A i, j \in Node :
         Running(i) /\ Running(i)' => Advances(slots[i][j], slots'[i][j], generation[j])
  <2>1. ~ Running(n)
    BY <1>1 DEF Running
  <2>2. QED BY <1>9, <2>1, Facts
<1>13. Memory!Boot(n)
  <2>1. n \notin RunningNodes /\ RunningNodes' = RunningNodes \cup {n}
    BY <1>1, Facts DEF RunningNodes, Running
  <2>2. \A j \in Node : OverIn(New(j)) = IF j = n THEN generation'[n] ELSE 0
    <3>1. OverBy(Self(generation'[n])) = generation'[n] /\ OverBy(Seed) = 0
      BY DEF OverBy, Self, Seed, Terminal
    <3>2. QED BY <1>3, <1>4, <1>5, <3>1, ShapesRemember, EmptyRemembers
  <2>3. LiveIn(New(n))
    BY <1>3, <1>4, ShapesRemember DEF Self, Terminal
  <2> DEFINE S == {j \in Node : LiveIn(slots'[n][j])}
             o == [j \in Node |-> IF j = n THEN generation'[n] ELSE 0]
             l == [j \in Node |-> j \in S \cup {n}]
  <2>4. \A j \in Node : LiveIn(slots'[n][j]) <=> j \in S \cup {n}
    BY <1>8, <2>3
  <2>5. OverAt'[n] = o /\ LiveAt'[n] = l
    <3>1. \A j \in Node : OverAt'[n][j] = o[j]
      BY <1>8, <2>2, MemoryEntries
    <3>2. \A j \in Node : LiveAt'[n][j] = l[j]
      <4>1. \A j \in Node : LiveAt'[n][j] \in BOOLEAN /\ LiveAt'[n][j] = LiveIn(slots'[n][j])
        BY DEF LiveAt, LiveIn
      <4>2. \A j \in Node : l[j] = (j \in S \cup {n})
        BY Zenon
      <4> HIDE DEF S, l
      <4>3. QED BY <2>4, <4>1, <4>2
    <3>3. QED BY <3>1, <3>2, MemoryEntries
  <2> HIDE DEF S, o, l
  <2>6. OverAt' = [OverAt EXCEPT ![n] = o] /\ LiveAt' = [LiveAt EXCEPT ![n] = l]
    BY <1>9, <2>5, MemoryRow
  <2>7. S \in SUBSET Node
    BY DEF S
  <2>8. QED BY <1>1, <2>1, <2>6, <2>7 DEF Memory!Boot, o, l
<1>14. Memory!Next
  BY <1>13 DEF Memory!Next
<1>15. QED BY <1>2, <1>7, <1>10, <1>11, <1>12, <1>14 DEF SlotStep, SlotInv

\* Stop: the Set is gone with its process.
LEMMA StopSlots ==
  ASSUME SlotInv, NEW n \in Node, Stop(n)
  PROVE  SlotStep
<1>1. /\ status' = [status EXCEPT ![n] = "down"]
      /\ slots' = [slots EXCEPT ![n] = EmptySet]
      /\ generation' = generation
  BY DEF Stop
<1>2. \A j \in Node : /\ EmptySlot \in Slots
                      /\ OneRecord(EmptySlot)
                      /\ Bounded(EmptySlot, generation[j])
  BY Facts, EmptyFits
<1>3. /\ \A j \in Node : slots'[n][j] = EmptySlot
      /\ \A i \in Node \ {n} : slots'[i] = slots[i]
  BY <1>1, Facts DEF EmptySet
<1>4. \A i, j \in Node : OneRecord(slots'[i][j]) /\ Bounded(slots'[i][j], generation'[j])
  BY <1>1, <1>2, <1>3, Facts
<1>5. ~ Running(n)' /\ status' \in [Node -> {"down", "up", "leaving"}]
  BY <1>1, Facts DEF Running
<1>6. \A i \in Node \ {n} : Running(i)' => Running(i)
  BY <1>1, Facts DEF Running
<1>7. slots' \in [Node -> [Node -> Slots]]
  BY <1>1, <1>2, Facts DEF EmptySet
<1>8. SelfSlots'
  <2>1. \A i \in Node \ {n} : status'[i] = status[i] /\ generation'[i] = generation[i]
    BY <1>1, Facts
  <2>2. QED BY <1>3, <1>5, <1>6, <2>1 DEF SelfSlots, SlotInv
<1>9. \A i, j \in Node :
        Running(i) /\ Running(i)' => Advances(slots[i][j], slots'[i][j], generation[j])
  BY <1>3, <1>5, Facts
<1>10. generation' \in [Node -> Nat] /\ \A j \in Node : generation[j] <= generation'[j]
  BY <1>1, Facts
<1>11. Memory!Stop(n)
  <2>1. n \in RunningNodes /\ RunningNodes' = RunningNodes \ {n}
    BY <1>1, Facts DEF Stop, RunningNodes, Running
  <2>2. OverAt' = [OverAt EXCEPT ![n] = [j \in Node |-> 0]]
    BY <1>3, EmptyRemembers DEF OverAt
  <2>3. \A j \in Node : LiveIn(slots'[n][j]) = FALSE
    BY <1>3, EmptyRemembers DEF LiveIn
  <2>4. LiveAt' = [LiveAt EXCEPT ![n] = [j \in Node |-> FALSE]]
    BY <1>3, <2>3 DEF LiveAt
  <2>5. QED BY <1>1, <2>1, <2>2, <2>4 DEF Memory!Stop
<1>12. Memory!Next
  BY <1>11 DEF Memory!Next
<1>13. QED BY <1>4, <1>5, <1>7, <1>8, <1>9, <1>10, <1>12 DEF SlotStep, SlotInv

\* Expiry and pruning as one operation.
LEMMA SweptSlot ==
  ASSUME NEW s \in Slots, OneRecord(s), NEW b \in Nat
  PROVE  Advances(s, Prune(ApplyTimeoutTransitions(s)), b)
<1> DEFINE r == ApplyTimeoutTransitions(s)
<1>1. Advances(s, r, 0)
  BY SweepAdvances
<1>2. r \in Slots /\ OneRecord(r)
  BY <1>1 DEF Advances
<1> HIDE DEF r
<1>3. Advances(r, Prune(r), 0)
  BY <1>2, SweepAdvances
<1>4. Advances(s, Prune(r), 0)
  BY <1>1, <1>3, AdvancesTwice
<1>5. QED BY <1>4, AdvancesFurther DEF r

\* The Set of n after the expiry and the prune of a round.
Swept(n) == [j \in Node |-> IF j = n THEN slots[n][j]
                            ELSE Prune(ApplyTimeoutTransitions(slots[n][j]))]

\* A round: expiry and prune advance the slots.
LEMMA SweepSlots ==
  ASSUME SlotInv, NEW n \in Node, Running(n), slots' = [slots EXCEPT ![n] = Swept(n)],
         status' = status, generation' = generation
  PROVE  SlotStep
<1> DEFINE p == Swept(n)
<1>1. \A j \in Node : Advances(slots[n][j], p[j], generation[j])
  <2>1. ASSUME NEW j \in Node
        PROVE  /\ slots[n][j] \in Slots /\ OneRecord(slots[n][j]) /\ generation[j] \in Nat
               /\ Advances(slots[n][j], slots[n][j], generation[j])
    BY Facts
  <2>2. ASSUME NEW j \in Node
        PROVE  Advances(slots[n][j], Prune(ApplyTimeoutTransitions(slots[n][j])), generation[j])
    BY <2>1, SweptSlot
  <2>3. QED BY <2>1, <2>2 DEF Swept
<1>2. p \in [Node -> Slots] /\ p[n] = slots[n][n]
  <2>1. \A j \in Node : p[j] \in Slots
    BY <1>1 DEF Advances
  <2>2. QED BY <2>1 DEF Swept
<1> HIDE DEF p
<1>3. slots'[n] = p /\ \A i \in Node \ {n} : slots'[i] = slots[i]
  BY Facts DEF p
<1>4. slots' \in [Node -> [Node -> Slots]]
  BY <1>2, Facts DEF p
<1>5. \A i, j \in Node : Advances(slots[i][j], slots'[i][j], generation[j])
  BY <1>1, <1>3, Facts
<1>6. \A i \in Node : Running(i)' => Own(slots'[i][i], generation[i], status'[i])
  BY <1>2, <1>3 DEF SlotInv, SelfSlots, Running
<1>7. Memory!Next
  BY <1>2, <1>3, <1>5, LearnStep
<1>8. QED BY <1>4, <1>5, <1>6, <1>7, Facts, Advancing

\* A leave: the node buries its own incarnation and opens no other.
LEMMA LeaveSlots ==
  ASSUME SlotInv, NEW n \in Node, status[n] = "up",
         status' = [status EXCEPT ![n] = "leaving"],
         slots' = [slots EXCEPT ![n][n] = LeaveAt(@)], generation' = generation
  PROVE  SlotStep
<1> DEFINE r == LeaveAt(slots[n][n])
           p == [slots[n] EXCEPT ![n] = r]
<1>1. slots' = [slots EXCEPT ![n] = p]
  OBVIOUS
<1>2. PICK e \in Entries : /\ slots[n][n] = OnlyPeer("canonical", e)
                           /\ e.incarnation = generation[n]
                           /\ e.status = "alive"
  BY DEF SlotInv, SelfSlots, Running, Own
<1>3. /\ \E d \in Entries : /\ r = OnlyPeer("canonical", d)
                            /\ d.incarnation = generation[n]
                            /\ d.status = "leave"
      /\ Advances(slots[n][n], r, 0)
  BY <1>2, LeaveAdvances
<1> HIDE DEF r
<1>4. Advances(slots[n][n], r, generation[n])
  BY <1>3, Facts, AdvancesFurther
<1>5. r \in Slots
  BY <1>4 DEF Advances
<1>6. /\ p \in [Node -> Slots]
      /\ p[n] = r
      /\ \A j \in Node \ {n} : p[j] = slots[n][j]
  BY <1>5, Facts
<1> HIDE DEF p
<1>7. slots'[n] = p /\ \A i \in Node \ {n} : slots'[i] = slots[i]
  BY <1>1, Facts
<1>8. slots' \in [Node -> [Node -> Slots]]
  BY <1>1, <1>6, Facts
<1>9. \A i, j \in Node : Advances(slots[i][j], slots'[i][j], generation[j])
  BY <1>4, <1>6, <1>7, Facts
<1>10. status' \in [Node -> {"down", "up", "leaving"}] /\ \A i \in Node : Running(i)' => Running(i)
  BY Facts DEF Running
<1>11. \A i \in Node : Running(i)' => Own(slots'[i][i], generation[i], status'[i])
  <2>1. status'[n] = "leaving" /\ \A i \in Node \ {n} : status'[i] = status[i]
    BY Facts
  <2>2. Own(slots'[n][n], generation[n], status'[n])
    BY <1>3, <1>6, <1>7, <2>1 DEF Own
  <2>3. QED BY <1>7, <1>10, <2>1, <2>2 DEF SlotInv, SelfSlots
<1>12. Memory!Leave(n)
  <2>1. RunningNodes' = RunningNodes /\ n \in RunningNodes
    BY Facts DEF RunningNodes, Running
  <2>2. "canonical" \in Forms
    BY DEF Forms
  <2>3. LiveIn(slots[n][n])
    BY <1>2, <2>2, ShapesRemember DEF Terminal
  <2>4. OverIn(r) = generation[n] + 1 /\ ~ LiveIn(r)
    BY <1>3, <2>2, ShapesRemember DEF OverBy, Terminal
  <2> DEFINE o == [OverAt[n] EXCEPT ![n] = generation[n] + 1]
             l == [LiveAt[n] EXCEPT ![n] = FALSE]
  <2>5. OverAt'[n] = o /\ LiveAt'[n] = l
    <3>1. LiveIn(r) = FALSE
      BY <2>4 DEF LiveIn
    <3>2. OverAt'[n][n] = generation[n] + 1 /\ LiveAt'[n][n] = FALSE
      <4>1. slots'[n][n] = r
        BY <1>6, <1>7
      <4>2. OverAt'[n][n] = OverIn(r) /\ LiveAt'[n][n] = LiveIn(r)
        BY <4>1, MemoryEntries
      <4>3. QED BY <2>4, <3>1, <4>2
    <3>3. \A j \in Node \ {n} : OverAt'[n][j] = OverAt[n][j] /\ LiveAt'[n][j] = LiveAt[n][j]
      <4>1. \A j \in Node \ {n} : slots'[n][j] = slots[n][j]
        BY <1>6, <1>7
      <4>2. QED BY <4>1, MemoryEntries
    <3>4. QED BY <3>2, <3>3, MemoryEntries
  <2> HIDE DEF o, l
  <2>6. OverAt' = [OverAt EXCEPT ![n] = o] /\ LiveAt' = [LiveAt EXCEPT ![n] = l]
    BY <1>7, <2>5, MemoryRow
  <2>7. OverAt' = [OverAt EXCEPT ![n][n] = generation[n] + 1] /\ LiveAt' = [LiveAt EXCEPT ![n][n] = FALSE]
    BY <2>6 DEF o, l
  <2>8. LiveAt[n][n]
    BY <2>3 DEF LiveAt
  <2>9. QED BY <2>1, <2>7, <2>8 DEF Memory!Leave
<1>13. Memory!Next
  BY <1>12 DEF Memory!Next
<1>14. QED BY <1>8, <1>9, <1>10, <1>11, <1>13, Advancing

\* mergeMembership on one slot brings no incarnation its node has not reached.
LEMMA MergeAdvances ==
  ASSUME NEW s \in Slots, OneRecord(s), NEW g \in Nat,
         NEW d \in [form : Forms, entry : Entries \cup {Absent}],
         d.entry.incarnation <= g
  PROVE  Advances(s, Merge(s, d), g)
<1>1. CASE d.entry = Absent
  BY <1>1, AdvancesSame DEF Merge
<1>2. CASE d.entry # Absent
  <2>1. d.entry \in Entries /\ d.form \in Forms
    BY <1>2
  <2>2. Advances(s, Upsert(s, d.form, d.entry), d.entry.incarnation)
    BY <2>1, UpsertAdvances
  <2>3. d.entry.incarnation \in Nat
    BY <2>1, EntryFields
  <2>4. Advances(s, Upsert(s, d.form, d.entry), g)
    BY <2>2, <2>3, AdvancesFurther
  <2>5. QED BY <1>2, <2>4 DEF Merge
<1>3. QED BY <1>1, <1>2

\* The origin's slot takes the heartbeat first, then the digest.
LEMMA HeartbeatMergeAdvances ==
  ASSUME NEW s \in Slots, OneRecord(s), NEW g \in Nat, NEW age \in Ages,
         NEW d \in [form : Forms, entry : Entries \cup {Absent}],
         d.entry.incarnation <= g
  PROVE  Advances(s, Merge(ObserveHeartbeat(s, d.entry.incarnation, age), d), g)
<1> DEFINE r == ObserveHeartbeat(s, d.entry.incarnation, age)
<1>1. d.entry.incarnation \in Nat
  BY EntryOrAbsent
<1>2. Advances(s, r, d.entry.incarnation)
  BY <1>1, HeartbeatAdvances
<1>3. r \in Slots /\ OneRecord(r)
  BY <1>2 DEF Advances
<1> HIDE DEF r
<1>4. Advances(s, r, g)
  BY <1>1, <1>2, AdvancesFurther
<1>5. Advances(r, Merge(r, d), g)
  BY <1>3, MergeAdvances
<1>6. Advances(s, Merge(r, d), g)
  BY <1>4, <1>5, AdvancesTwice
<1>7. QED BY <1>6 DEF r

\* Receive: heartbeat and digest advance the slots of the receiver.
LEMMA ReceiveSlots ==
  ASSUME SlotInv, NEW n \in Node, NEW m, Receive(n, m),
         m.from \in Node, m.age \in Ages, Fits(m.digest)
  PROVE  SlotStep
<1> DEFINE o == m.from
           s == slots[n]
           New(j) ==
             CASE j = n              -> s[j]
               [] j = o /\ j # n     ->
                    Merge(ObserveHeartbeat(s[j], m.digest[j].entry.incarnation, m.age), m.digest[j])
               [] j \notin {n, o}    -> Merge(s[j], m.digest[j])
           p == [j \in Node |-> New(j)]
<1>1. /\ slots' = [slots EXCEPT ![n] = p]
      /\ status' = status /\ generation' = generation
  BY DEF Receive
<1>2. ASSUME NEW j \in Node
      PROVE  Advances(s[j], New(j), generation[j])
  <2>1. /\ s[j] \in Slots /\ OneRecord(s[j]) /\ generation[j] \in Nat
        /\ Advances(s[j], s[j], generation[j])
    BY Facts
  <2>2. /\ m.digest[j] \in [form : Forms, entry : Entries \cup {Absent}]
        /\ m.digest[j].entry.incarnation <= generation[j]
    BY DEF Fits, Digests
  <2>3. CASE j = n
    BY <2>1, <2>3
  <2>4. CASE j = o /\ j # n
    <3>1. New(j) = Merge(ObserveHeartbeat(s[j], m.digest[j].entry.incarnation, m.age), m.digest[j])
      BY <2>4
    <3>2. QED BY <2>1, <2>2, <3>1, HeartbeatMergeAdvances
  <2>5. CASE j \notin {n, o}
    <3>1. New(j) = Merge(s[j], m.digest[j])
      BY <2>5
    <3>2. QED BY <2>1, <2>2, <3>1, MergeAdvances
  <2>6. QED BY <2>3, <2>4, <2>5
<1>3. New(n) = s[n]
  OBVIOUS
<1> HIDE DEF New
<1>4. p \in [Node -> Slots]
  <2>1. \A j \in Node : New(j) \in Slots
    BY <1>2 DEF Advances
  <2>2. QED BY <2>1
<1>5. p[n] = slots[n][n] /\ \A j \in Node : Advances(slots[n][j], p[j], generation[j])
  BY <1>2, <1>3
<1> HIDE DEF p, o, s
<1>6. slots'[n] = p /\ \A i \in Node \ {n} : slots'[i] = slots[i]
  BY <1>1, Facts
<1>7. slots' \in [Node -> [Node -> Slots]]
  BY <1>1, <1>4, Facts
<1>8. \A i, j \in Node : Advances(slots[i][j], slots'[i][j], generation[j])
  BY <1>5, <1>6, Facts
<1>9. \A i \in Node : Running(i)' => Own(slots'[i][i], generation[i], status'[i])
  BY <1>1, <1>5, <1>6 DEF SlotInv, SelfSlots, Running
<1>10. Memory!Next
  <2>1. Running(n)
    BY DEF Receive
  <2>2. QED BY <1>1, <1>5, <1>6, <2>1, LearnStep
<1>11. QED BY <1>1, <1>7, <1>8, <1>9, <1>10, Facts, Advancing

\* Tick: ages change, records and incarnations do not.
LEMMA AgeSlots ==
  ASSUME SlotInv, Tick
  PROVE  SlotStep
<1>1. /\ slots' = [n \in Node |-> [j \in Node |-> AgedSlot(slots[n][j])]]
      /\ status' = status /\ generation' = generation
  BY DEF Tick
<1>2. \A i, j \in Node : slots'[i][j] = AgedSlot(slots[i][j])
  BY <1>1
<1>3. ASSUME NEW i \in Node, NEW j \in Node
      PROVE  Advances(slots[i][j], AgedSlot(slots[i][j]), generation[j])
  <2>1. slots[i][j] \in Slots /\ OneRecord(slots[i][j]) /\ generation[j] \in Nat /\ 0 <= generation[j]
    BY Facts
  <2>2. Advances(slots[i][j], AgedSlot(slots[i][j]), 0)
    BY <2>1, SweepAdvances
  <2>3. QED BY <2>1, <2>2, AdvancesFurther
<1>4. \A i, j \in Node : Advances(slots[i][j], slots'[i][j], generation[j])
  BY <1>2, <1>3
<1>5. slots' \in [Node -> [Node -> Slots]]
  <2>1. \A i, j \in Node : AgedSlot(slots[i][j]) \in Slots
    BY <1>3 DEF Advances
  <2>2. QED BY <1>1, <2>1
<1>6. \A i \in Node : Running(i)' => Own(slots'[i][i], generation[i], status'[i])
  <2>1. SUFFICES ASSUME NEW i \in Node, Running(i)'
                 PROVE  Own(slots'[i][i], generation[i], status'[i])
    OBVIOUS
  <2>2. PICK e \in Entries : /\ slots[i][i] = OnlyPeer("canonical", e)
                             /\ e.incarnation = generation[i]
                             /\ e.status = IF status'[i] = "up" THEN "alive" ELSE "leave"
    BY <1>1, <2>1 DEF SlotInv, SelfSlots, Running, Own
  <2>3. "canonical" \in Forms
    BY DEF Forms
  <2>4. AgedSlot(slots[i][i]) = OnlyPeer("canonical", Aged(e))
    BY <2>2, <2>3, SweepShapes
  <2>5. QED BY <1>2, <2>2, <2>4, AgedEntry DEF Own
<1>7. UNCHANGED Memory!vars
  <2>1. \A i, j \in Node : slots[i][j] \in Slots /\ OneRecord(slots[i][j])
    BY Facts
  <2>2. QED BY <1>1, <1>2, <2>1, AgedRemembers, SameMemory
<1>8. QED BY <1>1, <1>4, <1>5, <1>6, <1>7, Facts, Advancing

\* A step that leaves the Sets alone.
LEMMA SameSlots ==
  ASSUME SlotInv, status' = status, generation' = generation, slots' = slots
  PROVE  SlotStep
<1>1. \A i \in Node : Running(i)' => Own(slots'[i][i], generation[i], status'[i])
  BY DEF SlotInv, SelfSlots, Running
<1>2. UNCHANGED Memory!vars
  BY SameMemory
<1>3. QED BY <1>1, <1>2, Facts, Advancing

-----------------------------------------------------------------------------
(* Datagrams *)

\* The digest of a Set fits the generations.
LEMMA DigestFits ==
  ASSUME generation \in [Node -> Nat], NEW peers \in [Node -> Slots],
         \A j \in Node : Bounded(peers[j], generation[j])
  PROVE  Fits(Digest(peers))
<1>1. Digest(peers) \in Digests
  BY DigestOfSet
<1>2. \A j \in Node : Digest(peers)[j].entry.incarnation <= generation[j]
  BY DigestOfSet
<1>3. QED BY <1>1, <1>2 DEF Fits

\* So do the datagrams that carry the Set of their sender as it is after the step.
LEMMA SendFits ==
  ASSUME SlotStep, generation' = generation, NEW n \in Node, NEW S \in SUBSET Node,
         Send(n, slots'[n], S), \A m \in msgs : m \in Datagrams /\ Fits(m.digest)
  PROVE  \A m \in msgs' : m \in Datagrams /\ Fits(m.digest)
<1>1. /\ slots'[n] \in [Node -> Slots] /\ generation \in [Node -> Nat]
      /\ \A j \in Node : Bounded(slots'[n][j], generation[j])
  BY DEF SlotStep, SlotInv
<1>2. Digest(slots'[n]) \in Digests /\ Fits(Digest(slots'[n]))
  BY <1>1, DigestOfSet, DigestFits
<1> DEFINE d   == Digest(slots'[n])
           New == {[from |-> n, to |-> j, age |-> 0, digest |-> d] : j \in S}
<1>3. msgs' = msgs \cup New
  BY DEF Send
<1> HIDE DEF d
<1>4. New \subseteq Datagrams /\ \A m \in New : m.digest = d
  BY <1>2, SentDatagrams DEF d
<1> HIDE DEF New
<1>5. QED BY <1>2, <1>3, <1>4 DEF d

\* Ageing leaves a datagram fitting.
LEMMA AgedFits ==
  ASSUME NEW m \in Datagrams, Fits(m.digest)
  PROVE  AgedMessage(m) \in Datagrams /\ Fits(AgedMessage(m).digest)
<1>1. AgedMessage(m).digest \in Digests
  BY AgedDatagram DEF Datagrams, Digests
<1>2. QED BY <1>1, AgedDatagram DEF Fits

-----------------------------------------------------------------------------
(* Theorems *)

\* With every node down there is nothing to hold.
LEMMA InitSlots == Init => SlotInv
<1> SUFFICES ASSUME Init PROVE SlotInv
  OBVIOUS
<1>1. EmptySlot \in Slots /\ OneRecord(EmptySlot) /\ Bounded(EmptySlot, 0)
  BY EmptyFits
<1>2. SelfSlots
  BY DEF Init, SelfSlots, Running
<1>3. QED BY <1>1, <1>2 DEF Init, EmptySet, SlotInv

\* And nothing to remember.
LEMMA InitMemory == Init => Memory!Init
<1> SUFFICES ASSUME Init PROVE Memory!Init
  OBVIOUS
<1>1. RunningNodes = {}
  BY DEF Init, RunningNodes, Running
<1>2. OverAt = [n \in Node |-> [j \in Node |-> 0]]
  BY EmptyRemembers DEF Init, EmptySet, OverAt
<1>3. LiveIn(EmptySlot) = FALSE
  BY EmptyRemembers DEF LiveIn
<1>4. LiveAt = [n \in Node |-> [j \in Node |-> FALSE]]
  BY <1>3 DEF Init, EmptySet, LiveAt
<1>5. QED BY <1>1, <1>2, <1>4 DEF Init, Memory!Init

\* Every step advances the slots of running nodes and keeps the datagrams
\* within the generations.
LEMMA EveryStep == IInv /\ [Next]_vars => SlotStep /\ IInv'
<1> SUFFICES ASSUME IInv, [Next]_vars PROVE SlotStep /\ IInv'
  OBVIOUS
<1> DEFINE Fitting == \A m \in msgs : m \in Datagrams /\ Fits(m.digest)
           Kept == \A m \in msgs' : m \in Datagrams /\ Fits(m.digest)
<1>1. SlotInv /\ Fitting
  BY DEF IInv
<1>2. ASSUME NEW n \in Node, Boot(n) PROVE SlotStep /\ msgs' \subseteq msgs
  BY <1>1, <1>2, BootSlots DEF Boot
<1>3. ASSUME NEW n \in Node, Stop(n) PROVE SlotStep /\ msgs' \subseteq msgs
  BY <1>1, <1>3, StopSlots DEF Stop
<1>4. ASSUME NEW n \in Node, Round(n) PROVE SlotStep /\ generation' = generation /\ Kept
  <2>1. PICK S \in SUBSET Node : RoundTo(n, S)
    BY <1>4 DEF Round
  <2>2. /\ Running(n)
        /\ slots' = [slots EXCEPT ![n] = Swept(n)]
        /\ status' = status /\ generation' = generation
        /\ Send(n, slots'[n], S)
    BY <2>1 DEF RoundTo, Swept
  <2>3. SlotStep
    BY <1>1, <2>2, SweepSlots
  <2>4. QED BY <1>1, <2>2, <2>3, SendFits
<1>5. ASSUME NEW n \in Node, AnnounceLeave(n) PROVE SlotStep /\ generation' = generation /\ Kept
  <2>1. PICK S \in SUBSET Node : Send(n, slots'[n], S)
    BY <1>5 DEF AnnounceLeave
  <2>2. SlotStep /\ generation' = generation
    BY <1>1, <1>5, LeaveSlots DEF AnnounceLeave
  <2>3. QED BY <1>1, <2>1, <2>2, SendFits
<1>6. ASSUME NEW m \in msgs, Receive(m.to, m) PROVE SlotStep /\ msgs' \subseteq msgs
  <2>1. m.to \in Node /\ m.from \in Node /\ m.age \in Ages /\ Fits(m.digest)
    BY <1>1 DEF Datagrams
  <2>2. QED BY <1>1, <1>6, <2>1, ReceiveSlots DEF Receive
<1>7. ASSUME NEW m \in msgs, Lose(m) PROVE SlotStep /\ msgs' \subseteq msgs
  BY <1>1, <1>7, SameSlots DEF Lose
<1>8. ASSUME Tick PROVE SlotStep /\ generation' = generation /\ Kept
  BY <1>1, <1>8, AgeSlots, AgedFits DEF Tick
<1>9. ASSUME UNCHANGED vars PROVE SlotStep /\ msgs' \subseteq msgs
  BY <1>1, <1>9, SameSlots DEF vars
<1> HIDE DEF Fitting, Kept
<1>10. SlotStep /\ (msgs' \subseteq msgs \/ (generation' = generation /\ Kept))
  BY <1>2, <1>3, <1>4, <1>5, <1>6, <1>7, <1>8, <1>9 DEF Next
<1>11. ASSUME NEW d, Fits(d) PROVE Fits(d)'
  BY <1>1, <1>10, <1>11, FitsFurther DEF SlotStep, SlotInv
<1>12. QED BY <1>1, <1>10, <1>11 DEF IInv, SlotStep, Fitting, Kept

\* The inductive invariant holds of every reachable state.
THEOREM Invariance == Spec => []IInv
<1>1. Init => IInv
  BY InitSlots DEF IInv, Init
<1>2. IInv /\ [Next]_vars => IInv'
  BY EveryStep
<1>3. QED BY <1>1, <1>2, PTL DEF Spec

\* The protocol keeps the types of its state and of its datagrams: whatever
\* is merged, pruned or expired, a Set holds entries and watermarks only.
THEOREM TypeCorrect == Spec => []TypeOK
<1>1. IInv => TypeOK
  BY DEF IInv, SlotInv, TypeOK
<1>2. QED BY Invariance, <1>1, PTL

\* No Set and no datagram holds an incarnation that its node has not
\* reached, so the generation taken at a restart prevails everywhere.
THEOREM Dominance == Spec => []GenerationDominates
<1>1. IInv => GenerationDominates
  BY DEF IInv, SlotInv, Fits, GenerationDominates
<1>2. QED BY Invariance, <1>1, PTL

\* Seeds joined by their endpoint are promoted to their node ID, and pruned
\* and rediscovered, without ever being held twice.
THEOREM NoDuplicates == Spec => []SingleRecord
<1>1. IInv => SingleRecord
  BY DEF IInv, SlotInv, SingleRecord
<1>2. QED BY Invariance, <1>1, PTL

\* MemorySpec: for every set of nodes, timeouts and bounds, each step of the
\* protocol, over a network that loses, delays, duplicates and reorders, is
\* a step of IncarnationMemory or changes nothing it promises about.
THEOREM MembershipRefinesMemory == Spec => MemorySpec
<1>1. Init => Memory!Init
  BY InitMemory
<1>2. IInv /\ [Next]_vars => [Memory!Next]_(Memory!vars)
  BY EveryStep DEF SlotStep
<1>3. QED BY Invariance, <1>1, <1>2, PTL DEF Spec, MemorySpec, Memory!Spec

\* A node that keeps running remembers that an incarnation is over, through
\* promotion, pruning and watermarks, and nothing it receives revives it.
THEOREM Tombstones == Spec => NoResurrection
<1> DEFINE Kept == \A i, j \in Node : \A g \in 0 .. generation[j] :
                     Running(i) /\ Running(i)' /\ Buried(slots[i][j], g)
                     => Buried(slots'[i][j], g) /\ ~ HeldLive(slots'[i][j], g)
<1>1. IInv /\ [Next]_vars => Kept
  <2> SUFFICES ASSUME IInv, [Next]_vars, NEW i \in Node, NEW j \in Node,
                      NEW g \in 0 .. generation[j],
                      Running(i), Running(i)', Buried(slots[i][j], g)
               PROVE  Buried(slots'[i][j], g) /\ ~ HeldLive(slots'[i][j], g)
    OBVIOUS
  <2>1. g \in Nat
    BY Facts DEF IInv
  <2>2. Advances(slots[i][j], slots'[i][j], generation[j])
    BY EveryStep DEF SlotStep
  <2>3. Buried(slots'[i][j], g)
    BY <2>1, <2>2 DEF Advances
  <2>4. slots'[i][j] \in Slots /\ OneRecord(slots'[i][j])
    BY <2>2 DEF Advances
  <2>5. ~ HeldLive(slots'[i][j], g)
    BY <2>1, <2>3, <2>4, BuriedNotLive
  <2>6. QED BY <2>3, <2>5
<1>2. QED BY Invariance, <1>1, PTL DEF Spec, NoResurrection

-----------------------------------------------------------------------------
(* Cluster *)

\* A snapshot of a Set, with the generations g.
Snapshot(peers, g) ==
  /\ peers \in [Node -> Slots]
  /\ \A j \in Node : OneRecord(peers[j]) /\ Bounded(peers[j], g[j])

\* The generations of the contributions known, none past g.
Within(k, g) == k \in [Node -> Nat] /\ \A j \in Node : k[j] <= g[j]

ClusterDatagrams == [from : Node, to : Node, age : Ages, digest : Digests, known : [Node -> Nat]]

\* A datagram in the network, or at the handler.
Carried(m) == m \in ClusterDatagrams /\ Fits(m.digest) /\ Within(m.known, generation)

SendingInv ==
  /\ DOMAIN sending = Node
  /\ \A n \in Node : sending[n] = NoRound \/ Snapshot(sending[n], generation)

HandlingInv ==
  /\ DOMAIN handling = Node
  /\ \A n \in Node : \/ handling[n] = Idle
                     \/ \E m : handling[n] = Merged(m) /\ Carried(m)
                     \/ \E S : handling[n] = Viewed(S)

CountedInv ==
  /\ known \in [Node -> [Node -> Nat]]
  /\ \A n \in Node : Within(known[n], generation)
  /\ DOMAIN counted = Node
  /\ \A n \in Node : counted[n] \subseteq Known(n) \cup {n}

\* The inductive invariant.
ClusterInv ==
  SlotInv /\ (\A m \in msgs : Carried(m)) /\ SendingInv /\ HandlingInv /\ CountedInv

-----------------------------------------------------------------------------
(* What is held stays within the generations *)

\* A snapshot and a datagram taken before a step are still sound after it.
LEMMA HeldFurther ==
  ASSUME SlotInv, SlotStep
  PROVE  /\ \A p : Snapshot(p, generation) => Snapshot(p, generation')
         /\ \A k : Within(k, generation) => Within(k, generation')
         /\ \A m : Carried(m) => Carried(m)'
<1>1. /\ generation \in [Node -> Nat] /\ generation' \in [Node -> Nat]
      /\ \A j \in Node : /\ generation[j] \in Nat /\ generation'[j] \in Nat
                         /\ generation[j] <= generation'[j]
  BY DEF SlotInv, SlotStep
<1>2. ASSUME NEW p, Snapshot(p, generation) PROVE Snapshot(p, generation')
  <2>1. ASSUME NEW j \in Node PROVE OneRecord(p[j]) /\ Bounded(p[j], generation'[j])
    <3>1. p[j] \in Slots /\ OneRecord(p[j]) /\ Bounded(p[j], generation[j])
      BY <1>2 DEF Snapshot
    <3>2. QED BY <1>1, <3>1, BoundedFurther
  <2>2. QED BY <1>2, <2>1 DEF Snapshot
<1>3. ASSUME NEW k, Within(k, generation) PROVE Within(k, generation')
  BY <1>1, <1>3 DEF Within
<1>4. ASSUME NEW m, Carried(m) PROVE Carried(m)'
  BY <1>1, <1>3, <1>4, FitsFurther DEF Carried
<1>5. QED BY <1>2, <1>3, <1>4

\* The datagrams made of a snapshot.
LEMMA SendCarries ==
  ASSUME generation \in [Node -> Nat], generation' = generation,
         NEW n \in Node, NEW S \in SUBSET Node, NEW peers, Snapshot(peers, generation),
         Within(known'[n], generation), SendKnown(n, peers, S), \A m \in msgs : Carried(m)
  PROVE  \A m \in msgs' : Carried(m)
<1> DEFINE d   == Digest(peers)
           k   == known'[n]
           New == {[from |-> n, to |-> j, age |-> 0, digest |-> d, known |-> k] : j \in S}
<1>1. msgs' = msgs \cup New
  BY DEF SendKnown
<1>2. d \in Digests /\ Fits(d)
  BY DigestOfSet, DigestFits DEF Snapshot
<1>3. k \in [Node -> Nat] /\ 0 \in Ages
  BY AgesType DEF Within
<1> HIDE DEF d, k
<1>4. New \subseteq ClusterDatagrams /\ \A m \in New : m.digest = d /\ m.known = k
  BY <1>2, <1>3 DEF ClusterDatagrams
<1>5. Within(k, generation)
  BY DEF k
<1> HIDE DEF New
<1>6. QED BY <1>1, <1>2, <1>4, <1>5 DEF Carried

\* A datagram only grows older.
LEMMA AgedCarried ==
  ASSUME NEW m, Carried(m)
  PROVE  Carried(AgedMessage(m))
<1> DEFINE a == IF m.age = MaxAge THEN m.age ELSE m.age + 1
           D == [j \in Node |-> [form  |-> m.digest[j].form,
                                 entry |-> Aged(m.digest[j].entry)]]
<1>1. /\ m = [from |-> m.from, to |-> m.to, age |-> m.age, digest |-> m.digest, known |-> m.known]
      /\ m.from \in Node /\ m.to \in Node /\ m.age \in Ages
      /\ m.digest \in Digests /\ m.known \in [Node -> Nat]
  BY DEF Carried, ClusterDatagrams
<1>2. a \in Ages
  BY <1>1, AgesType DEF Ages
<1>3. ASSUME NEW j \in Node
      PROVE  /\ D[j] \in [form : Forms, entry : Entries \cup {Absent}]
             /\ D[j].entry.incarnation <= generation[j]
  <2>1. m.digest[j].form \in Forms /\ m.digest[j].entry \in Entries \cup {Absent}
    BY <1>1 DEF Digests
  <2>2. m.digest[j].entry.incarnation <= generation[j]
    BY DEF Carried, Fits
  <2>3. QED BY <2>1, <2>2, EntryOrAbsent
<1>4. D \in Digests /\ Fits(D)
  BY <1>3 DEF Digests, Fits
<1>5. AgedMessage(m) = [from |-> m.from, to |-> m.to, age |-> a, digest |-> D, known |-> m.known]
  <2>1. AgedMessage(m) = [m EXCEPT !.age = a, !.digest = D]
    BY Zenon DEF AgedMessage
  <2> HIDE DEF a, D
  <2>2. QED BY <1>1, <2>1
<1> HIDE DEF a, D
<1>6. QED BY <1>1, <1>2, <1>4, <1>5 DEF Carried, ClusterDatagrams

-----------------------------------------------------------------------------
(* The steps *)

\* The Sets advance as in Membership, whatever the handler is working on.
LEMMA SetsStep ==
  ASSUME ClusterInv, [ClusterNext]_clusterVars
  PROVE  SlotStep
<1>1. SlotInv /\ HandlingInv
  BY DEF ClusterInv
<1>2. ASSUME NEW n \in Node, BootNode(n) \/ StopNode(n) PROVE SlotStep
  BY <1>1, <1>2, BootSlots, StopSlots DEF BootNode, StopNode
<1>3. ASSUME NEW n \in Node, LeaveNode(n) PROVE SlotStep
  BY <1>1, <1>3, LeaveSlots DEF LeaveNode
<1>4. ASSUME NEW n \in Node, StartRound(n) PROVE SlotStep
  BY <1>1, <1>4, SweepSlots DEF StartRound, Swept
<1>5. ASSUME NEW n \in Node, MergeMembership(n) PROVE SlotStep
  <2>1. PICK m : handling[n] = Merged(m) /\ Carried(m)
    BY <1>1, <1>5 DEF HandlingInv, MergeMembership, Idle, Viewed
  <2>2. m = handling[n].msg /\ Receive(n, m)
    BY <1>5, <2>1 DEF MergeMembership, Merged
  <2>3. m.from \in Node /\ m.age \in Ages /\ Fits(m.digest)
    BY <2>1 DEF Carried, ClusterDatagrams
  <2>4. QED BY <1>1, <2>2, <2>3, ReceiveSlots
<1>6. CASE TickAll
  BY <1>1, <1>6, AgeSlots DEF TickAll
<1>7. CASE UNCHANGED <<status, generation, slots>>
  BY <1>1, <1>7, SameSlots
<1>8. ASSUME NEW n \in Node, FinishRound(n) \/ Recalculate(n)
      PROVE  UNCHANGED <<status, generation, slots>>
  BY <1>8 DEF FinishRound, Recalculate, vars
<1>9. ASSUME NEW m \in msgs, MergeState(m.to, m) \/ LoseDatagram(m)
      PROVE  UNCHANGED <<status, generation, slots>>
  BY <1>9 DEF MergeState, LoseDatagram, Lose
<1>10. ASSUME UNCHANGED clusterVars PROVE UNCHANGED <<status, generation, slots>>
  BY <1>10 DEF clusterVars, vars
<1>11. QED BY <1>2, <1>3, <1>4, <1>5, <1>6, <1>7, <1>8, <1>9, <1>10
           DEF ClusterNext, RoundStep, HandlerStep

\* The estimates count nodes that are known.
LEMMA CountedStep ==
  ASSUME ClusterInv, [ClusterNext]_clusterVars
  PROVE  CountedInv'
<1>1. /\ CountedInv /\ SlotInv /\ SlotStep /\ HandlingInv
      /\ generation \in [Node -> Nat] /\ generation' \in [Node -> Nat]
      /\ \A i \in Node : Within(known[i], generation) /\ Within(known[i], generation')
  BY SetsStep, HeldFurther DEF ClusterInv, SlotStep, SlotInv, CountedInv
<1>2. known \in [Node -> [Node -> Nat]] /\ DOMAIN counted = Node
  BY <1>1 DEF CountedInv
\* n's maps become k, and its estimate counts S.
<1>3. ASSUME NEW n \in Node, NEW k, Within(k, generation'), NEW S,
             known' = [known EXCEPT ![n] = k], counted' = [counted EXCEPT ![n] = S],
             S \subseteq {j \in Node : k[j] # 0} \cup {n}
      PROVE  CountedInv'
  <2>1. k \in [Node -> Nat] /\ known' \in [Node -> [Node -> Nat]] /\ DOMAIN counted' = Node
    BY <1>2, <1>3 DEF Within
  <2>2. /\ known'[n] = k /\ counted'[n] = S
        /\ \A i \in Node \ {n} : known'[i] = known[i] /\ counted'[i] = counted[i]
    BY <1>2, <1>3
  <2>3. \A i \in Node : Within(known'[i], generation')
    BY <1>1, <1>3, <2>2 DEF Within
  <2>4. \A i \in Node : counted'[i] \subseteq Known(i)' \cup {i}
    BY <1>1, <1>3, <2>2 DEF CountedInv, Known
  <2>5. QED BY <2>1, <2>3, <2>4 DEF CountedInv, Within
<1>4. CASE UNCHANGED <<known, counted>>
  BY <1>1, <1>2, <1>4 DEF CountedInv, Known, Within
<1>5. ASSUME NEW n \in Node, NEW S \in SUBSET {n}, Reset(n, S) PROVE CountedInv'
  <2>1. Within([j \in Node |-> 0], generation')
    BY <1>1 DEF Within
  <2>2. QED BY <1>3, <1>5, <2>1 DEF Reset
<1>6. ASSUME NEW n \in Node, FinishRound(n) PROVE CountedInv'
  <2> DEFINE k == [known[n] EXCEPT ![n] = generation[n]]
  <2>1. /\ known' = [known EXCEPT ![n] = k]
        /\ counted' = [counted EXCEPT ![n] = CountedInRound(n, sending[n], known'[n])]
        /\ generation' = generation
    BY <1>2, <1>6 DEF FinishRound
  <2>2. Within(k, generation')
    BY <1>1, <2>1 DEF Within
  <2>3. known'[n] = k
    BY <1>2, <2>1
  <2> HIDE DEF k
  <2>4. CountedInRound(n, sending[n], k) \subseteq {j \in Node : k[j] # 0}
    BY DEF CountedInRound
  <2>5. QED BY <1>3, <2>1, <2>2, <2>3, <2>4
<1>7. ASSUME NEW m \in msgs, MergeState(m.to, m) PROVE CountedInv'
  <2> DEFINE n == m.to
             k == [j \in Node |-> Newest(known[n][j], m.known[j])]
  <2>1. n \in Node /\ Within(known[n], generation) /\ Within(m.known, generation)
    BY <1>1 DEF ClusterInv, Carried, ClusterDatagrams
  <2>2. /\ generation' = generation
        /\ \/ /\ known' = [known EXCEPT ![n] = k]
              /\ counted' = [counted EXCEPT ![n] = {j \in Node : known'[n][j] # 0}]
           \/ UNCHANGED <<known, counted>>
    BY <1>7 DEF MergeState
  <2>3. CASE UNCHANGED <<known, counted>>
    BY <1>4, <2>2, <2>3
  <2>4. CASE /\ known' = [known EXCEPT ![n] = k]
             /\ counted' = [counted EXCEPT ![n] = {j \in Node : known'[n][j] # 0}]
    <3>1. Within(k, generation')
      BY <1>1, <2>1, <2>2 DEF Within, Newest
    <3>2. known'[n] = k
      BY <1>2, <2>1, <2>4
    <3> HIDE DEF k
    <3>3. QED BY <1>3, <2>1, <2>2, <2>4, <3>1, <3>2
  <2>5. QED BY <2>2, <2>3, <2>4
<1>8. ASSUME NEW n \in Node, Recalculate(n) PROVE CountedInv'
  <2>1. /\ counted' = [counted EXCEPT ![n] = Recalculation(n)] /\ known' = known
        /\ generation' = generation
    BY <1>8 DEF Recalculate, vars
  <2>2. known' = [known EXCEPT ![n] = known[n]] /\ Within(known[n], generation')
    BY <1>1, <1>2, <2>1
  <2>3. Recalculation(n) \subseteq {j \in Node : known[n][j] # 0} \cup {n}
    BY <1>1 DEF Recalculation, Known, CountedInv
  <2>4. QED BY <1>3, <2>1, <2>2, <2>3
<1>9. ASSUME NEW n \in Node, LeaveNode(n) \/ StartRound(n) \/ MergeMembership(n)
      PROVE  UNCHANGED <<known, counted>>
  BY <1>9 DEF LeaveNode, StartRound, MergeMembership, engineVars
<1>10. ASSUME \/ \E m \in msgs : LoseDatagram(m)
              \/ TickAll
              \/ UNCHANGED clusterVars
       PROVE  UNCHANGED <<known, counted>>
  BY <1>10 DEF LoseDatagram, TickAll, clusterVars, engineVars
<1>11. QED BY <1>4, <1>5, <1>6, <1>7, <1>8, <1>9, <1>10
           DEF ClusterNext, RoundStep, HandlerStep, BootNode, StopNode

\* Every datagram is made of a sound snapshot and of what its sender knows.
LEMMA DatagramsStep ==
  ASSUME ClusterInv, [ClusterNext]_clusterVars
  PROVE  \A m \in msgs' : Carried(m)'
<1>1. /\ SlotInv /\ SlotStep /\ SendingInv /\ CountedInv /\ CountedInv'
      /\ \A m \in msgs : Carried(m)
      /\ generation \in [Node -> Nat]
  BY SetsStep, CountedStep DEF ClusterInv, SlotInv
<1>2. \A m : Carried(m) => Carried(m)'
  BY <1>1, HeldFurther
<1>3. ASSUME NEW n \in Node, FinishRound(n) PROVE \A m \in msgs' : Carried(m)
  <2>1. PICK S \in SUBSET Node : SendKnown(n, sending[n], S)
    BY <1>3 DEF FinishRound
  <2>2. /\ generation' = generation /\ Snapshot(sending[n], generation)
        /\ Within(known'[n], generation)
    BY <1>1, <1>3 DEF FinishRound, SendingInv, CountedInv
  <2>3. QED BY <1>1, <2>1, <2>2, SendCarries
<1>4. ASSUME NEW n \in Node, LeaveNode(n) PROVE \A m \in msgs' : Carried(m)
  <2>1. PICK S \in SUBSET Node : SendKnown(n, slots'[n], S)
    BY <1>4 DEF LeaveNode
  <2>2. generation' = generation /\ Within(known'[n], generation)
    BY <1>1, <1>4 DEF LeaveNode, CountedInv
  <2>3. Snapshot(slots'[n], generation)
    BY <1>1, <2>2 DEF SlotStep, SlotInv, Snapshot
  <2>4. QED BY <1>1, <2>1, <2>2, <2>3, SendCarries
<1>5. ASSUME TickAll PROVE \A m \in msgs' : Carried(m)
  BY <1>1, <1>5, AgedCarried DEF TickAll, Tick
<1>6. ASSUME NEW n \in Node, \/ BootNode(n) \/ StopNode(n) \/ StartRound(n)
                             \/ MergeMembership(n) \/ Recalculate(n)
      PROVE  msgs' = msgs
  BY <1>6 DEF BootNode, Boot, StopNode, Stop, StartRound, MergeMembership, Receive,
              Recalculate, vars
<1>7. ASSUME NEW m \in msgs, MergeState(m.to, m) \/ LoseDatagram(m)
      PROVE  msgs' \subseteq msgs
  BY <1>7 DEF MergeState, LoseDatagram, Lose
<1>8. ASSUME UNCHANGED clusterVars PROVE msgs' = msgs
  BY <1>8 DEF clusterVars, vars
<1>9. \A m \in msgs' : Carried(m)
  BY <1>1, <1>3, <1>4, <1>5, <1>6, <1>7, <1>8 DEF ClusterNext, RoundStep, HandlerStep
<1>10. QED BY <1>2, <1>9

\* A snapshot is of the Set as it was when the round started.
LEMMA SendingStep ==
  ASSUME ClusterInv, [ClusterNext]_clusterVars
  PROVE  SendingInv'
<1>1. /\ SlotInv /\ SlotStep /\ SendingInv
      /\ generation' \in [Node -> Nat]
      /\ DOMAIN sending = Node
  BY SetsStep DEF ClusterInv, SlotStep, SlotInv, SendingInv
<1>2. \A i \in Node : sending[i] = NoRound \/ Snapshot(sending[i], generation')
  BY <1>1, HeldFurther DEF SendingInv
<1>3. ASSUME NEW n \in Node, NEW p, p = NoRound \/ Snapshot(p, generation'),
             sending' = [sending EXCEPT ![n] = p]
      PROVE  SendingInv'
  BY <1>1, <1>2, <1>3 DEF SendingInv
<1>4. CASE sending' = sending
  BY <1>1, <1>2, <1>4 DEF SendingInv
<1>5. ASSUME NEW n \in Node, BootNode(n) \/ StopNode(n) \/ FinishRound(n) PROVE SendingInv'
  BY <1>3, <1>5 DEF BootNode, StopNode, Reset, FinishRound
<1>6. ASSUME NEW n \in Node, StartRound(n) PROVE SendingInv'
  <2>1. Snapshot(slots'[n], generation')
    BY <1>1 DEF SlotStep, SlotInv, Snapshot
  <2>2. sending' = [sending EXCEPT ![n] = slots'[n]]
    BY <1>6 DEF StartRound
  <2>3. QED BY <1>3, <2>1, <2>2
<1>7. ASSUME TickAll PROVE SendingInv'
  <2> DEFINE Older(p) == [j \in Node |-> AgedSlot(p[j])]
  <2>1. sending' = [n \in Node |-> IF sending[n] = NoRound THEN NoRound ELSE Older(sending[n])]
    BY <1>7 DEF TickAll
  <2>2. ASSUME NEW p, Snapshot(p, generation') PROVE Snapshot(Older(p), generation')
    <3>1. ASSUME NEW j \in Node
          PROVE  /\ AgedSlot(p[j]) \in Slots /\ OneRecord(AgedSlot(p[j]))
                 /\ Bounded(AgedSlot(p[j]), generation'[j])
      <4>1. /\ p[j] \in Slots /\ OneRecord(p[j]) /\ Bounded(p[j], generation'[j])
            /\ generation'[j] \in Nat
        BY <1>1, <2>2 DEF Snapshot
      <4>2. Advances(p[j], AgedSlot(p[j]), 0)
        BY <4>1, SweepAdvances
      <4>3. QED BY <4>1, <4>2 DEF Advances
    <3>2. QED BY <3>1 DEF Snapshot
  <2> HIDE DEF Older
  <2>3. QED BY <1>2, <2>1, <2>2 DEF SendingInv
<1>8. ASSUME NEW n \in Node, LeaveNode(n) \/ MergeMembership(n) \/ Recalculate(n)
      PROVE  sending' = sending
  BY <1>8 DEF LeaveNode, engineVars, MergeMembership, Recalculate
<1>9. ASSUME NEW m \in msgs, MergeState(m.to, m) \/ LoseDatagram(m)
      PROVE  sending' = sending
  BY <1>9 DEF MergeState, LoseDatagram, engineVars
<1>10. ASSUME UNCHANGED clusterVars PROVE sending' = sending
  BY <1>10 DEF clusterVars, engineVars
<1>11. QED BY <1>4, <1>5, <1>6, <1>7, <1>8, <1>9, <1>10
           DEF ClusterNext, RoundStep, HandlerStep

\* What the handler works on was in the network.
LEMMA HandlingStep ==
  ASSUME ClusterInv, [ClusterNext]_clusterVars
  PROVE  HandlingInv'
<1> DEFINE Sound(h) == \/ h = Idle
                       \/ \E m : h = Merged(m) /\ Carried(m)'
                       \/ \E S : h = Viewed(S)
<1>1. /\ SlotInv /\ SlotStep /\ DOMAIN handling = Node
      /\ \A m \in msgs : m.to \in Node
  BY SetsStep DEF ClusterInv, HandlingInv, Carried, ClusterDatagrams
<1>2. \A m : Carried(m) => Carried(m)'
  BY <1>1, HeldFurther
<1>3. \A i \in Node : Sound(handling[i])
  BY <1>2 DEF ClusterInv, HandlingInv
<1>4. ASSUME NEW n \in Node, NEW h, Sound(h), handling' = [handling EXCEPT ![n] = h]
      PROVE  HandlingInv'
  <2>1. DOMAIN handling' = Node /\ \A i \in Node : Sound(handling'[i])
    BY <1>1, <1>3, <1>4
  <2>2. QED BY <2>1 DEF HandlingInv
<1>5. CASE handling' = handling
  <2>1. DOMAIN handling' = Node /\ \A i \in Node : Sound(handling'[i])
    BY <1>1, <1>3, <1>5
  <2>2. QED BY <2>1 DEF HandlingInv
<1>6. Sound(Idle) /\ \A S : Sound(Viewed(S))
  OBVIOUS
<1>7. \A m \in msgs : Sound(Merged(m))
  BY <1>2 DEF ClusterInv
<1>8. ASSUME TickAll PROVE HandlingInv'
  <2>1. handling' = [n \in Node |-> IF handling[n].stage = "merged"
                                    THEN Merged(AgedMessage(handling[n].msg)) ELSE handling[n]]
    BY <1>8 DEF TickAll
  <2>2. ASSUME NEW i \in Node PROVE Sound(handling'[i])
    <3>1. CASE handling[i].stage # "merged"
      BY <1>3, <2>1, <3>1
    <3>2. CASE handling[i].stage = "merged"
      <4>1. PICK m : handling[i] = Merged(m) /\ Carried(m)
        BY <3>2 DEF ClusterInv, HandlingInv, Idle, Viewed
      <4>2. handling'[i] = Merged(AgedMessage(m))
        BY <2>1, <3>2, <4>1 DEF Merged
      <4>3. Carried(AgedMessage(m))
        BY <4>1, AgedCarried
      <4>4. QED BY <1>2, <4>2, <4>3
    <3>3. QED BY <3>1, <3>2
  <2>3. DOMAIN handling' = Node
    BY <2>1
  <2>4. QED BY <2>2, <2>3 DEF HandlingInv
<1> HIDE DEF Sound
<1>9. ASSUME NEW n \in Node, \/ BootNode(n) \/ StopNode(n) \/ MergeMembership(n)
                             \/ Recalculate(n)
      PROVE  HandlingInv'
  BY <1>4, <1>6, <1>9 DEF BootNode, StopNode, Reset, MergeMembership, Recalculate
<1>10. ASSUME NEW m \in msgs, MergeState(m.to, m) PROVE HandlingInv'
  BY <1>1, <1>4, <1>7, <1>10 DEF MergeState
<1>11. ASSUME NEW n \in Node, LeaveNode(n) \/ RoundStep(n) PROVE handling' = handling
  BY <1>11 DEF LeaveNode, engineVars, RoundStep, StartRound, FinishRound
<1>12. ASSUME (\E m \in msgs : LoseDatagram(m)) \/ UNCHANGED clusterVars
       PROVE  handling' = handling
  BY <1>12 DEF LoseDatagram, engineVars, clusterVars
<1>13. QED BY <1>5, <1>8, <1>9, <1>10, <1>11, <1>12 DEF ClusterNext, HandlerStep

-----------------------------------------------------------------------------
(* Theorems *)

LEMMA ClusterStep == ClusterInv /\ [ClusterNext]_clusterVars => SlotStep /\ ClusterInv'
  BY SetsStep, CountedStep, DatagramsStep, SendingStep, HandlingStep
  DEF ClusterInv, SlotStep

\* The inductive invariant holds of every reachable state.
LEMMA ClusterInvariance == ClusterSpec => []ClusterInv
<1>1. ClusterInit => ClusterInv
  <2> SUFFICES ASSUME ClusterInit PROVE ClusterInv
    OBVIOUS
  <2>1. SlotInv
    BY InitSlots DEF ClusterInit
  <2>2. SendingInv /\ HandlingInv /\ \A m \in msgs : Carried(m)
    BY DEF ClusterInit, Init, SendingInv, HandlingInv
  <2>3. CountedInv
    BY <2>1 DEF ClusterInit, CountedInv, Within, SlotInv
  <2>4. QED BY <2>1, <2>2, <2>3 DEF ClusterInv
<1>2. ClusterInv /\ [ClusterNext]_clusterVars => ClusterInv'
  BY ClusterStep
<1>3. QED BY <1>1, <1>2, PTL DEF ClusterSpec

\* ClusterTypeOK: an estimate counts the contributions its node knows, which
\* are of boots that took place, although rounds and handlers overwrite one
\* another's estimates from snapshots of different moments.
THEOREM EstimatesCountKnown == ClusterSpec => []ClusterTypeOK
<1>1. ClusterInv => ClusterTypeOK
  <2> SUFFICES ASSUME ClusterInv PROVE ClusterTypeOK
    OBVIOUS
  <2>1. \A n \in Node : handling[n].stage \in {"idle", "merged", "viewed"}
    BY DEF ClusterInv, HandlingInv, Idle, Merged, Viewed
  <2>2. \A n \in Node : sending[n] # NoRound => sending[n] \in [Node -> Slots]
    BY DEF ClusterInv, SendingInv, Snapshot
  <2>3. QED BY <2>1, <2>2 DEF ClusterTypeOK, ClusterInv, CountedInv, Within
<1>2. QED BY <1>1, ClusterInvariance, PTL

\* GenerationDominates and SingleRecord hold as well when rounds send old
\* snapshots and handlers merge datagrams late, so a restart prevails.
THEOREM SetsStaySound == ClusterSpec => [](GenerationDominates /\ SingleRecord)
<1>1. ClusterInv => GenerationDominates /\ SingleRecord
  BY DEF ClusterInv, SlotInv, Carried, Fits, GenerationDominates, SingleRecord
<1>2. QED BY <1>1, ClusterInvariance, PTL

\* NoResurrection: between the snapshot and the sending of a round, or the
\* two halves of a handler, a node forgets no incarnation that is over, and
\* nothing that was under way revives it.
THEOREM NothingRevives == ClusterSpec => NoResurrection
<1> DEFINE Kept == \A i, j \in Node : \A g \in 0 .. generation[j] :
                     Running(i) /\ Running(i)' /\ Buried(slots[i][j], g)
                     => Buried(slots'[i][j], g) /\ ~ HeldLive(slots'[i][j], g)
<1>1. ClusterInv /\ [ClusterNext]_clusterVars => Kept
  <2> SUFFICES ASSUME ClusterInv, [ClusterNext]_clusterVars, NEW i \in Node, NEW j \in Node,
                      NEW g \in 0 .. generation[j],
                      Running(i), Running(i)', Buried(slots[i][j], g)
               PROVE  Buried(slots'[i][j], g) /\ ~ HeldLive(slots'[i][j], g)
    OBVIOUS
  <2>1. g \in Nat
    BY DEF ClusterInv, SlotInv
  <2>2. Advances(slots[i][j], slots'[i][j], generation[j])
    BY ClusterStep DEF SlotStep
  <2>3. Buried(slots'[i][j], g)
    BY <2>1, <2>2 DEF Advances
  <2>4. slots'[i][j] \in Slots /\ OneRecord(slots'[i][j])
    BY <2>2 DEF Advances
  <2>5. ~ HeldLive(slots'[i][j], g)
    BY <2>1, <2>3, <2>4, BuriedNotLive
  <2>6. QED BY <2>3, <2>5
<1>2. QED BY <1>1, ClusterInvariance, PTL DEF ClusterSpec, NoResurrection

\* MemorySpec: what internal/membership promises holds as well when rounds
\* and handlers work on snapshots and the handler merges a datagram after
\* it has merged the state that came with it.
THEOREM ClusterRefinesMemory == ClusterSpec => MemorySpec
<1>1. ClusterInit => Memory!Init
  BY InitMemory DEF ClusterInit
<1>2. ClusterInv /\ [ClusterNext]_clusterVars => [Memory!Next]_(Memory!vars)
  BY ClusterStep DEF SlotStep
<1>3. QED BY ClusterInvariance, <1>1, <1>2, PTL DEF ClusterSpec, MemorySpec, Memory!Spec
=============================================================================
