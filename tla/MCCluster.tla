----------------------------- MODULE MCCluster -----------------------------
(***************************************************************************)
(* A small instance of Cluster: n1 gossips, n2 listens, and both may stop. *)
(***************************************************************************)
EXTENDS Cluster, TLC

CONSTANTS n1, n2

\* n2 learns of n1 from its datagrams.
OneSeed == n1 :> {n2} @@ n2 :> {}

BootOnce == [n \in Node |-> 1]

\* One datagram of n1 in flight; n2 sends none.
OneWay == n1 :> 1 @@ n2 :> 0
=============================================================================
