---------------------------- MODULE MCMembership ----------------------------
(***************************************************************************)
(* Small instances of Membership for TLC.                                  *)
(***************************************************************************)
EXTENDS Membership, TLC

CONSTANTS n1, n2, n3

\* Every node has the others as seeds.
AllSeeds == [n \in Node |-> Node]

\* n1 does not have n2 as a seed.
PartialSeeds == n1 :> {} @@ n2 :> {n1}

\* One datagram of each node in flight.
OneInFlight == [n \in Node |-> 1]

RestartOne == n1 :> 2 @@ n2 :> 1 @@ n3 :> 1
BootOnce == [n \in Node |-> 1]
=============================================================================
