---------------------------- MODULE MembershipSet ----------------------------
(***************************************************************************)
(* The part of a membership Set (internal/membership/membership.go) that   *)
(* concerns one remote node, and the operations on it.                     *)
(*                                                                         *)
(* The Set keys peers by NodeID and resolves aliases by Addr.  A node      *)
(* always advertises the same endpoint, so two keys share that Addr: the   *)
(* logical node ID (canonical) and the "host:port" used as an ID for a     *)
(* seed (placeholder).  A slot is what the Set holds under these two keys. *)
(*                                                                         *)
(* LastSeen is kept as an age, the time elapsed since then; ages stop      *)
(* growing at MaxAge, past every timeout.                                  *)
(***************************************************************************)
EXTENDS Naturals

CONSTANTS SuspectTimeout, DeadTimeout, PruneRetention

\* NewSetWithConfig makes the dead timeout the larger, and replaces a
\* retention that is not positive by its default.
ASSUME TimeoutsAssumption ==
  /\ SuspectTimeout \in Nat /\ DeadTimeout \in Nat /\ PruneRetention \in Nat \ {0}
  /\ SuspectTimeout < DeadTimeout

Forms == {"canonical", "placeholder"}

Statuses == {"alive", "suspect", "dead", "leave"}

MaxAge == IF DeadTimeout < PruneRetention THEN PruneRetention ELSE DeadTimeout + 1

Ages == 0 .. MaxAge

Absent == [status |-> "absent", incarnation |-> 0, age |-> 0]

Entries == [status : Statuses, incarnation : Nat, age : Ages]

Slots == [peers      : [Forms -> Entries \cup {Absent}],
          watermarks : [Forms -> Entries \cup {Absent}]]

EmptySlot == [peers      |-> [f \in Forms |-> Absent],
              watermarks |-> [f \in Forms |-> Absent]]

Other(f) == IF f = "canonical" THEN "placeholder" ELSE "canonical"

\* dead or leave: no contact within the same incarnation revives it.
Terminal(e) == e.status \in {"dead", "leave"}

Lesser(a, b) == IF a < b THEN a ELSE b

rankStatus(s) ==
  CASE s = "leave"   -> 4
    [] s = "dead"    -> 3
    [] s = "suspect" -> 2
    [] OTHER         -> 1

maxStatus(a, b) == IF rankStatus(a) < rankStatus(b) THEN b ELSE a

-----------------------------------------------------------------------------
(* Look-ups by NodeID, then by Addr *)

\* The key of m that an update for f resolves to; f when there is none.
Resolve(m, f) == IF m[f] = Absent /\ m[Other(f)] # Absent THEN Other(f) ELSE f

\* findPrunedWatermarkLocked
Watermark(s, f) == s.watermarks[Resolve(s.watermarks, f)]

DropWatermark(s, f) ==
  [s EXCEPT !.watermarks[Resolve(s.watermarks, f)] = Absent]

Current(s, f) == s.peers[Resolve(s.peers, f)]

\* Mutant: an alias promoted to its node ID stays in the set.
MutPlace(s, f, e) == [s EXCEPT !.peers[f] = e]

\* Store e under f, removing the alias it was resolved from.
Place(s, f, e) ==
  [s EXCEPT !.peers = [g \in Forms |-> IF g = f THEN e
                                       ELSE IF g = Resolve(s.peers, f) THEN Absent
                                       ELSE s.peers[g]]]

-----------------------------------------------------------------------------
(* Operations *)

\* An update that is not newer than the watermark of a pruned peer.
Blocked(s, f, u) ==
  /\ Watermark(s, f) # Absent
  /\ \/ u.incarnation < Watermark(s, f).incarnation
     \/ /\ u.incarnation = Watermark(s, f).incarnation
        /\ rankStatus(u.status) <= rankStatus(Watermark(s, f).status)

\* Upsert: a higher incarnation replaces, an equal one merges.
Upsert(s, f, u) ==
  LET t == DropWatermark(s, f)
      c == Current(s, f)
      merged == [status      |-> maxStatus(c.status, u.status),
                 incarnation |-> c.incarnation,
                 age         |-> Lesser(c.age, u.age)]
  IN  IF Blocked(s, f, u) THEN s
      ELSE IF c = Absent \/ c.incarnation < u.incarnation THEN Place(t, f, u)
      ELSE IF u.incarnation < c.incarnation THEN t
      ELSE Place(t, f, merged)

\* markPeerAlive: ObserveHeartbeat, with the origin's endpoint when the Set
\* already holds an entry with it.  For an unknown endpoint the call is made
\* without it, and changes nothing.
ObserveHeartbeat(s, inc, age) ==
  LET c == Current(s, "canonical")
  IN  IF \/ c = Absent
         \/ inc < c.incarnation
         \/ inc = c.incarnation /\ Terminal(c)
      THEN s
      ELSE DropWatermark(
             Place(s, "canonical", [status      |-> "alive",
                                    incarnation |-> inc,
                                    age         |-> Lesser(c.age, age)]),
             "canonical")

\* Mutant: the leave is written with a status that no receiver knows.
MutLeaveAt(s) ==
  [s EXCEPT !.peers["canonical"] = [@ EXCEPT !.status = "left", !.age = 0]]

\* LeaveAt on a known peer.
LeaveAt(s) ==
  [s EXCEPT !.peers["canonical"] = [@ EXCEPT !.status = "leave", !.age = 0]]

nextStatusForElapsed(e) ==
  CASE e.age > DeadTimeout                                          -> "dead"
    [] e.age \in SuspectTimeout + 1 .. DeadTimeout /\ ~ Terminal(e) -> "suspect"
    [] OTHER                                                        -> e.status

Expire(e) ==
  IF e = Absent \/ e.status = "leave" THEN e
  ELSE [e EXCEPT !.status = nextStatusForElapsed(e)]

\* ApplyTimeoutTransitions on a slot that is not the node's own.
ApplyTimeoutTransitions(s) == [s EXCEPT !.peers = [f \in Forms |-> Expire(@[f])]]

Prunable(e) == e # Absent /\ Terminal(e) /\ e.age >= PruneRetention

\* comparePeerFreshness > 0, up to LastSeen, which a watermark never uses.
Fresher(a, b) ==
  \/ a.incarnation > b.incarnation
  \/ a.incarnation = b.incarnation /\ rankStatus(a.status) > rankStatus(b.status)

\* Mutant: a pruned peer leaves no watermark.
MutPrune(s) ==
  [s EXCEPT !.peers = [f \in Forms |-> IF Prunable(@[f]) THEN Absent ELSE @[f]]]

\* Prune
Prune(s) ==
  [peers      |-> [f \in Forms |-> IF Prunable(s.peers[f]) THEN Absent ELSE s.peers[f]],
   watermarks |-> [f \in Forms |->
     IF /\ Prunable(s.peers[f])
        /\ s.watermarks[f] = Absent \/ Fresher(s.peers[f], s.watermarks[f])
     THEN [s.peers[f] EXCEPT !.age = 0] ELSE s.watermarks[f]]]

\* Time passes.
Aged(e) == IF e = Absent \/ e.age = MaxAge THEN e ELSE [e EXCEPT !.age = @ + 1]

AgedSlot(s) == [s EXCEPT !.peers = [f \in Forms |-> Aged(@[f])]]

-----------------------------------------------------------------------------
(* What a slot says of its node *)

\* The keys under which it holds something.
Records(s) == {<<"peer", f>> : f \in {g \in Forms : s.peers[g] # Absent}} \cup
              {<<"watermark", f>> : f \in {g \in Forms : s.watermarks[g] # Absent}}

OneRecord(s) == \A a, b \in Records(s) : a = b

\* No incarnation after g.
Bounded(s, g) ==
  \A f \in Forms : s.peers[f].incarnation <= g /\ s.watermarks[f].incarnation <= g

\* Incarnation g is over: there is a later one, or g is dead or left, as a
\* peer or as the watermark of a pruned one.
Buried(s, g) ==
  \E f \in Forms : \E e \in {s.peers[f], s.watermarks[f]} :
    /\ e # Absent
    /\ e.incarnation > g \/ (e.incarnation = g /\ Terminal(e))

\* Incarnation g is alive or suspect.
HeldLive(s, g) ==
  \E f \in Forms : s.peers[f].incarnation = g /\ s.peers[f].status \in {"alive", "suspect"}

\* How many incarnations, counted from 0, are over by an entry e.
OverBy(e) == IF Terminal(e) THEN e.incarnation + 1 ELSE e.incarnation

\* How many are over, and whether one is held live at all.
OverIn(s) ==
  LET K == {OverBy(s.peers[f]) : f \in Forms} \cup {OverBy(s.watermarks[f]) : f \in Forms}
  IN  CHOOSE k \in K : \A h \in K : h <= k

LiveIn(s) == \E f \in Forms : s.peers[f].status \in {"alive", "suspect"}
=============================================================================
