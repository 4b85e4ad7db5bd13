--------------------------- MODULE MCGossipEngine ---------------------------
(***************************************************************************)
(* Small instances of GossipEngine for TLC.  Initial values are multiples  *)
(* of six, so that the averages of up to three of them are exact.          *)
(***************************************************************************)
EXTENDS GossipEngine, TLC

CONSTANTS n1, n2, n3

Cfg(agg, v) == [aggregation |-> agg, initialValue |-> v]

\* One value per aggregation, so that a mix would show.
FixedConfigs ==
  n1 :> {Cfg("sum", 6), Cfg("average", 12), Cfg("min", 18), Cfg("max", 24)} @@
  n2 :> {Cfg("sum", 30), Cfg("average", 36), Cfg("min", 42), Cfg("max", 48)}

SumConfigs == n1 :> {Cfg("sum", 6)} @@ n2 :> {Cfg("sum", 12)} @@ n3 :> {Cfg("sum", 18)}

\* initial_value left at its default on one node.
DefaultConfigs == n1 :> {Cfg("sum", 0)} @@ n2 :> {Cfg("sum", 12)}

\* n1 restarts once; n2 (and n3) run throughout.
RestartOne == n1 :> 2 @@ n2 :> 1 @@ n3 :> 1

OneThenTwo == n1 :> 1 @@ n2 :> 2
ObservedPair == n1 :> 1 @@ n2 :> 2 @@ n3 :> 0

FullView == {Node}

\* The others hold n1 dead, or have not met it yet.
ViewsWithoutFirst == {Node \ {n1}}
=============================================================================
