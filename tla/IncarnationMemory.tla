-------------------------- MODULE IncarnationMemory --------------------------
(***************************************************************************)
(* What internal/membership promises.  Each boot of a node is one of its   *)
(* incarnations, numbered from 1; 0 stands for the time before.  A running *)
(* node remembers of every other how many of its incarnations are over and *)
(* whether it holds the next one live.  It learns, never of an incarnation *)
(* to come, and forgets nothing until it stops; of itself it believes only *)
(* what it decides.  Nothing is promised about when it learns.             *)
(***************************************************************************)
EXTENDS Naturals

CONSTANT Node

VARIABLES
  up,            \* the running nodes
  incarnation,   \* the last incarnation of each node
  over,          \* n knows that the incarnations of j below over[n][j] are over
  live           \* n holds the incarnation over[n][j] of j live

vars == <<up, incarnation, over, live>>

Init ==
  /\ up = {}
  /\ incarnation = [n \in Node |-> 0]
  /\ over = [n \in Node |-> [j \in Node |-> 0]]
  /\ live = [n \in Node |-> [j \in Node |-> FALSE]]

\* The node opens its next incarnation, knows that those before are over,
\* and presumes some nodes S live before it hears of them.
Boot(n) ==
  /\ n \notin up
  /\ up' = up \cup {n}
  /\ incarnation' = [incarnation EXCEPT ![n] = @ + 1]
  /\ over' = [over EXCEPT ![n] = [j \in Node |-> IF j = n THEN incarnation'[n] ELSE 0]]
  /\ \E S \in SUBSET Node : live' = [live EXCEPT ![n] = [j \in Node |-> j \in S \cup {n}]]

Stop(n) ==
  /\ n \in up
  /\ up' = up \ {n}
  /\ over' = [over EXCEPT ![n] = [j \in Node |-> 0]]
  /\ live' = [live EXCEPT ![n] = [j \in Node |-> FALSE]]
  /\ UNCHANGED incarnation

\* The node ends its incarnation; only itself can tell it so, and once.
Leave(n) ==
  /\ n \in up
  /\ live[n][n]
  /\ over' = [over EXCEPT ![n][n] = incarnation[n] + 1]
  /\ live' = [live EXCEPT ![n][n] = FALSE]
  /\ UNCHANGED <<up, incarnation>>

\* A node held live stays so until the incarnation is over, and the one
\* held live is the next that is not over: at most the last of its node.
LearnsOf(n, j) ==
  /\ over'[n][j] \in over[n][j] .. incarnation[j] + 1
  /\ live'[n][j] => over'[n][j] <= incarnation[j]
  /\ live[n][j] /\ ~ live'[n][j] => over[n][j] < over'[n][j]

\* The node learns of others, from what it receives or from their silence.
Learn(n) ==
  /\ n \in up
  /\ \A j \in Node \ {n} : LearnsOf(n, j)
  /\ over'[n][n] = over[n][n] /\ live'[n][n] = live[n][n]
  /\ \A i \in Node \ {n} : over'[i] = over[i] /\ live'[i] = live[i]
  /\ UNCHANGED <<up, incarnation>>

Next == \E n \in Node : Boot(n) \/ Stop(n) \/ Leave(n) \/ Learn(n)

Spec == Init /\ [][Next]_vars
=============================================================================
