---------------------------- MODULE StateVersion ----------------------------
(***************************************************************************)
(* Version stamps of the gossip state (internal/gossip/state.go).          *)
(*                                                                         *)
(* A stamp is the pair (epoch, counter): the epoch is the durable          *)
(* generation of the boot that produced it, the counter orders the updates *)
(* of that boot.  Stamps are compared lexicographically.  Generations      *)
(* start at 1, so the zero stamp stands for "no entry in the map".         *)
(***************************************************************************)
EXTENDS Naturals

Stamp == [epoch : Nat, counter : Nat]

\* The zero value of shared.StateVersionStamp: an absent map entry.
NoStamp == [epoch |-> 0, counter |-> 0]

\* compareVersion(a, b) < 0
Less(a, b) ==
  \/ a.epoch < b.epoch
  \/ a.epoch = b.epoch /\ a.counter < b.counter

\* compareVersion(a, b) <= 0
AtMost(a, b) == ~ Less(b, a)

maxVersion(a, b) == IF Less(a, b) THEN b ELSE a

maxCounter(a, b) == IF a < b THEN b ELSE a
=============================================================================
