------------------------- MODULE GenerationAllocator -------------------------
(***************************************************************************)
(* What internal/identity promises: the boots of a node obtain generations *)
(* one at a time, each greater than every one handed out before it by the  *)
(* same storage.  Nothing is promised about gaps, nor that storage which   *)
(* the allocator had to create itself outlives the next power loss; once   *)
(* it has, or when it was there before, it is never lost.                  *)
(***************************************************************************)
EXTENDS Naturals

CONSTANT Generations

VARIABLES
  durable,      \* the storage cannot be lost
  latest,       \* the last generation it handed out, 0 before the first
  allocations   \* how many it handed out

vars == <<durable, latest, allocations>>

Init == durable \in BOOLEAN /\ latest = 0 /\ allocations = 0

Allocate(g) ==
  /\ latest < g
  /\ latest' = g
  /\ allocations' = allocations + 1
  /\ UNCHANGED durable

\* New storage outlives a power loss ...
Settle == durable' = TRUE /\ UNCHANGED <<latest, allocations>>

\* ... or does not, and the generations start again.
Forget == ~ durable /\ latest' = 0 /\ allocations' = 0 /\ UNCHANGED durable

Next == Settle \/ Forget \/ \E g \in Generations : Allocate(g)

Spec == Init /\ [][Next]_vars
=============================================================================
