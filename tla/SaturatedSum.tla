---------------------------- MODULE SaturatedSum ----------------------------
(***************************************************************************)
(* The estimate of the aggregation "sum" near the largest float            *)
(* (sumWithSaturation in internal/gossip/state.go and its callers).        *)
(*                                                                         *)
(* The sum walks a map, whose order Go leaves open, stops at the first     *)
(* overflow, and raises a flag that merges spread and nothing clears.      *)
(* GossipEngine leaves this out: its contributions never overflow.         *)
(*                                                                         *)
(* The handler of a datagram takes the mutex twice: applyRemote merges,    *)
(* and after the membership has changed the estimate is taken again.  The  *)
(* first may raise the flag and leave the estimate as it was, and rounds   *)
(* and the leave announcement may come between the two.                    *)
(*                                                                         *)
(* Floats are integers here: rounding is left out.  The contributions are  *)
(* those of one deployment; which of them a node sums is up to its view.   *)
(***************************************************************************)
EXTENDS Integers, Sequences, FiniteSets, FiniteSetsExt, SequencesExt

CONSTANTS
  Node,
  MaxFloat64,
  InitialValues    \* the values a node may contribute; 0 counts as not set

ASSUME FiniteFloats ==
  /\ IsFiniteSet(Node)
  /\ MaxFloat64 \in Nat
  /\ InitialValues \subseteq (-MaxFloat64 .. MaxFloat64) \ {0}

VARIABLES
  contributions,   \* each node's own contribution
  summed,          \* summed[n]: whose contributions n's estimate last counted
  value,           \* Value, n's estimate
  overflowed,      \* Sum.Overflowed
  raised,          \* history: the nodes that ever raised it, in any boot
  handling         \* handling[n]: n's handler is between its critical sections

sumVars == <<contributions, summed, value, overflowed, raised, handling>>

-----------------------------------------------------------------------------
(* sumWithSaturation *)

Result(v, o) == [value |-> v, overflowed |-> o]

\* After the loop: a flag raised earlier keeps the estimate at the limit.
LoopEnd(total, already) ==
  CASE already /\ total > 0      -> Result(MaxFloat64, TRUE)
    [] already /\ total < 0      -> Result(-MaxFloat64, TRUE)
    [] ~ already \/ total = 0    -> Result(total, already)

\* Mutant: the sum stops at the limit and does not say so.
MutOverflowAt(next) == IF next > 0 THEN Result(MaxFloat64, FALSE) ELSE Result(-MaxFloat64, FALSE)

OverflowAt(next) == IF next > 0 THEN Result(MaxFloat64, TRUE) ELSE Result(-MaxFloat64, TRUE)

\* Mutant: the limit itself counts as an overflow.
MutFitsBelow(x) == -MaxFloat64 < x /\ x < MaxFloat64

\* Mutant: a negative overflow goes unnoticed.
MutFitsAbove(x) == x <= MaxFloat64

Fits(x) == -MaxFloat64 <= x /\ x <= MaxFloat64

\* The totals of the loop when it visits the map in the given order ...
Totals(order) ==
  LET total[i \in 0 .. Len(order)] ==
        IF i = 0 THEN 0 ELSE total[i - 1] + contributions[order[i]]
  IN  total

\* ... its return, which is at the first overflow if there is one ...
Walk(order, already) ==
  LET total == Totals(order)
      over  == {i \in 1 .. Len(order) : ~ Fits(total[i])}
  IN  IF over = {} THEN LoopEnd(total[Len(order)], already) ELSE OverflowAt(total[Min(over)])

\* ... and every result it may return over S.
Sums(S, already) == {Walk(order, already) : order \in SetToSeqs(S)}

-----------------------------------------------------------------------------
(* Actions *)

SumInit ==
  /\ contributions \in [Node -> InitialValues]
  /\ summed = [n \in Node |-> {n}]
  /\ value = contributions
  /\ overflowed = [n \in Node |-> FALSE]
  /\ raised = {}
  /\ handling = [n \in Node |-> FALSE]

\* The loop's flag.
Raise(n, o) ==
  /\ overflowed' = [overflowed EXCEPT ![n] = o]
  /\ raised' = IF o THEN raised \cup {n} ELSE raised
  /\ UNCHANGED contributions

\* n takes r, the result of the loop over S, for its estimate.
Estimate(n, S, r) ==
  /\ value' = [value EXCEPT ![n] = r.value]
  /\ summed' = [summed EXCEPT ![n] = S]
  /\ Raise(n, r.overflowed)

\* applyRemote when no contribution is new: the estimate is put back to what
\* it was, the flag is not.
KeepEstimate(n, r) == Raise(n, r.overflowed) /\ UNCHANGED <<value, summed>>

\* Mutant: the flag of the datagram replaces that of the node.
MutFlag(n, incoming) == incoming

\* mergeSumState: the flags are combined.
Flag(n, incoming) == overflowed[n] \/ incoming

\* The flag of a datagram to n, of any age: up only if another node has ever
\* raised it, if in an earlier boot.
Incoming(n) == {incoming \in BOOLEAN : incoming => raised \ {n} # {}}

\* The handler's first critical section.  The map of n, which the loop visits,
\* may lack a node that has had no round, n itself included.  A datagram that
\* applyRemote drops is left out: only the recalculation remains of it.
Merge(n) ==
  /\ ~ handling[n]
  /\ \E S \in SUBSET Node, already \in {Flag(n, incoming) : incoming \in Incoming(n)} :
       \E r \in Sums(S, already) : Estimate(n, S, r) \/ KeepEstimate(n, r)
  /\ handling' = [handling EXCEPT ![n] = TRUE]

\* sumWithSaturationForEligible: in a round, which may come at any time, or
\* as the handler's second critical section.
Recalculate(n) ==
  /\ \E S \in SUBSET Node : \E r \in Sums(S, overflowed[n]) : Estimate(n, S, r)
  /\ handling' \in {handling, [handling EXCEPT ![n] = FALSE]}

\* A restart of n: only its configured value remains.
Restart(n) ==
  /\ value' = [value EXCEPT ![n] = contributions[n]]
  /\ overflowed' = [overflowed EXCEPT ![n] = FALSE]
  /\ summed' = [summed EXCEPT ![n] = {n}]
  /\ handling' = [handling EXCEPT ![n] = FALSE]
  /\ UNCHANGED <<contributions, raised>>

SumNext == \E n \in Node : Merge(n) \/ Recalculate(n) \/ Restart(n)

SumSpec == SumInit /\ [][SumNext]_sumVars

-----------------------------------------------------------------------------
(* Properties *)

SumOver(S) == MapThenSumSet(LAMBDA n : contributions[n], S)

\* Every estimate is a finite float.
SumTypeOK ==
  /\ contributions \in [Node -> InitialValues]
  /\ summed \in [Node -> SUBSET Node]
  /\ value \in [Node -> -MaxFloat64 .. MaxFloat64]
  /\ overflowed \in [Node -> BOOLEAN]
  /\ raised \in SUBSET Node
  /\ handling \in [Node -> BOOLEAN]

\* An estimate without the flag is the exact sum of what it counts, in
\* whatever order the map was walked.
UnflaggedIsExact ==
  \A n \in Node : ~ overflowed[n] => value[n] = SumOver(summed[n])

\* No false alarm: unless the positive or the negative contributions of the
\* whole deployment overflow by themselves no node ever raises the flag.
OverflowJustified ==
  (\E n \in Node : overflowed[n]) =>
    \/ SumOver({n \in Node : contributions[n] > 0}) > MaxFloat64
    \/ SumOver({n \in Node : contributions[n] < 0}) < -MaxFloat64

\* The flag is for the life of the process, and a node that has raised it
\* exposes a limit or zero, never another number, whatever it counts later;
\* only between the critical sections of the handler that raised it may it
\* still expose the exact sum it had before.
FlagIsForLife ==
  [][\A n \in Node :
       overflowed[n] /\ ~ Restart(n) =>
         /\ overflowed'[n]
         /\ \/ value'[n] \in {-MaxFloat64, 0, MaxFloat64}
            \/ handling'[n] /\ value'[n] = SumOver(summed'[n])]_sumVars
=============================================================================
