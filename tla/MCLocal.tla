------------------------------ MODULE MCLocal ------------------------------
(***************************************************************************)
(* Small instances of the algorithms that one process runs by itself: the  *)
(* fanout rotation, the saturated sum and the convergence report.  They    *)
(* share nothing, so a behaviour runs one of them, the subject, while the  *)
(* others rest.                                                            *)
(***************************************************************************)
EXTENDS Fanout, SaturatedSum, ConvergenceReport

CONSTANTS p1, p2, p3

VARIABLE subject

-----------------------------------------------------------------------------
(* Fanout: lists of up to five peers, and configurations on both sides of  *)
(* every bound of Validate.                                                *)

FivePeers == 1 .. 5

ConfigChoices ==
  [gossipIntervalMS : {0, 1, 2}, fanout : 0 .. 3, membershipTimeoutMS : {0, 1, 3, 5, 7, 9, 21},
   peers : 0 .. 4]

-----------------------------------------------------------------------------
(* SaturatedSum: two negative contributions reach the limit and three      *)
(* exceed it; two positive ones exceed it, unless the loop meets a         *)
(* negative one in time.                                                   *)

ThreeNodes == {p1, p2, p3}

SmallValues == {-2, 3}

\* The nodes differ in their contributions only.
NodeSymmetry == Permutations(ThreeNodes)

SumRests ==
  /\ contributions = [n \in Node |-> 3]
  /\ summed = [n \in Node |-> {n}]
  /\ value = contributions
  /\ overflowed = [n \in Node |-> FALSE]
  /\ raised = {}
  /\ handling = [n \in Node |-> FALSE]

-----------------------------------------------------------------------------
(* ConvergenceReport: logs of up to three lines, in any order, of two      *)
(* nodes at two times, one of them twice at one time; and long series of   *)
(* one node, for the choice of the markers.                                *)

Lines(agg) ==
  [time : {0, 3}, node : {1, 2}, round : {1}, estimate : {4, 9}, aggregation : {agg}]
    \cup [time : {3}, node : {1}, round : {2}, estimate : {4, 9}, aggregation : {agg}]

LongLog(k) ==
  [i \in 1 .. k |-> [time |-> i, node |-> 1, round |-> i, estimate |-> 4, aggregation |-> "average"]]

LogChoices ==
  {NoFile} \cup {LongLog(k) : k \in 4 .. 12} \cup SeqOf(Lines("average"), 3)
    \cup UNION {SeqOf(Lines(agg), 2) : agg \in {"sum", "min", "max"}}

OldCsvChoices ==
  {NoFile, Broken, <<>>,
   <<[time |-> 3, node |-> 1, round |-> 1, estimate |-> 4, aggregation |-> "average"]>>}

ConfigOf(n, agg, v) == [node |-> n, aggregation |-> agg, initialValue |-> v]

ConfigListChoices ==
  {<<ConfigOf(1, "average", 2), ConfigOf(2, "average", 6)>>,
   <<ConfigOf(1, "average", 4)>>,
   <<ConfigOf(1, "sum", 1), ConfigOf(2, "sum", 3)>>,
   <<ConfigOf(1, "min", 4), ConfigOf(2, "min", 9)>>,
   <<ConfigOf(1, "max", 4), ConfigOf(2, "max", 1)>>,
   <<ConfigOf(1, "sum", 4), ConfigOf(1, "sum", 5)>>,
   <<ConfigOf(1, "average", 2), ConfigOf(2, "max", 6)>>,
   <<BadConfig>>,
   <<>>}

TwoIDs == {1, 2}

ReportRests ==
  /\ pc = "failed"
  /\ logs = NoFile /\ csv = NoFile /\ svg = NoFile /\ summary = NoFile
  /\ configs = <<>> /\ loaded = <<>>

-----------------------------------------------------------------------------
(* The three of them *)

FanoutRests ==
  /\ config = CHOOSE x \in Configs : Valid(x)
  /\ eligible = {}
  /\ cursor = 0
  /\ waited = [p \in Peer |-> 0]

LocalInit ==
  \/ subject = "fanout" /\ Init /\ SumRests /\ ReportRests
  \/ subject = "sum" /\ FanoutRests /\ SumInit /\ ReportRests
  \/ subject = "report" /\ FanoutRests /\ SumRests /\ ReportInit

LocalNext ==
  /\ UNCHANGED subject
  /\ \/ subject = "fanout" /\ Next /\ UNCHANGED <<sumVars, reportVars>>
     \/ subject = "sum" /\ SumNext /\ UNCHANGED <<vars, reportVars>>
     \/ subject = "report" /\ ReportNext /\ UNCHANGED <<vars, sumVars>>

LocalSpec == LocalInit /\ [][LocalNext]_<<subject, vars, sumVars, reportVars>>
=============================================================================
