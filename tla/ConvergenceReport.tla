-------------------------- MODULE ConvergenceReport --------------------------
(***************************************************************************)
(* The offline convergence report: internal/convergencechart/chart.go, the *)
(* pipeline, over internal/convergence/convergence.go, its algorithms.     *)
(*                                                                         *)
(* The run's logs become a CSV of samples, the configurations of its nodes *)
(* give the expected aggregate, and the two the time since when every node *)
(* has exposed it.  Each write may fail and leave a broken file.           *)
(*                                                                         *)
(* Estimates are integers.  A log line that does not parse is not in logs. *)
(* The drawing of the chart is left out, but for the choice of its markers. *)
(***************************************************************************)
EXTENDS Integers, Sequences, FiniteSets, FiniteSetsExt, SequencesExt

Aggregations == {"sum", "average", "min", "max"}

CONSTANTS
  NodeID,       \* node IDs; numbers, for their order as strings
  Logs,         \* what -logs may hold: sequences of samples, or NoFile
  OldCsv,       \* what -csv may hold when -logs is not given
  ConfigLists,  \* what -configs may name: sequences of configurations
  Tolerance,
  MaxSeriesMarkers,    \* the markers drawn on one series; 100 in the code
  NoFile,       \* a path not given, or a file that does not exist
  Broken,       \* a file that was being written when an error came
  BadConfig     \* a configuration that config.Load refuses

Sample ==
  [time : Int, node : NodeID, round : Int, estimate : Int, aggregation : Aggregations]

Config == [node : NodeID, aggregation : Aggregations, initialValue : Int]

\* What the files may hold, and bounds that make sense.
ASSUME InputsAssumption ==
  /\ NodeID \subseteq Int
  /\ Logs \subseteq Seq(Sample) \cup {NoFile}
  /\ OldCsv \subseteq Seq(Sample) \cup {NoFile, Broken}
  /\ ConfigLists \subseteq Seq(Config \cup {BadConfig})
  /\ BadConfig \notin Config
  /\ Tolerance \in Nat
  /\ MaxSeriesMarkers \in Nat \ {0, 1}

VARIABLES
  pc,          \* what Run does next
  logs, csv, svg, summary,    \* the files
  configs,     \* the configurations not yet loaded ...
  loaded       \* ... and those that are

reportVars == <<pc, logs, csv, svg, summary, configs, loaded>>

-----------------------------------------------------------------------------
(* internal/convergence *)

\* The stable order by time, node and round.
Before(s, i, j) ==
  LET a == s[i]
      b == s[j]
  IN  \/ a.time < b.time
      \/ a.time = b.time /\ a.node < b.node
      \/ a.time = b.time /\ a.node = b.node /\ a.round < b.round
      \/ a.time = b.time /\ a.node = b.node /\ a.round = b.round /\ i < j

\* Normalize: each sample goes to its position in that order.  The elapsed
\* time is left to where it is read.
Normalize(s) ==
  LET position == [i \in DOMAIN s |-> Cardinality({j \in DOMAIN s : j = i \/ Before(s, j, i)})]
  IN  [k \in DOMAIN s |-> s[CHOOSE i \in DOMAIN s : position[i] = k]]

ElapsedSeconds(s, i) == s[i].time - s[1].time

Observed(s) == {s[i].node : i \in DOMAIN s}

\* CompareNodes
Complete(s, nodes) == Observed(s) = nodes

\* Expected: the oracle of the run.
Expected(kind, values) ==
  LET total == MapThenSumSet(LAMBDA i : values[i], DOMAIN values)
  IN  CASE kind = "sum"     -> total
        [] kind = "average" -> total \div Len(values)
        [] kind = "min"     -> Min(ToSet(values))
        [] kind = "max"     -> Max(ToSet(values))

Within(x, expected) == x - expected <= Tolerance /\ expected - x <= Tolerance

\* The estimate in force for node n once sample i has been read.
Latest(s, i, n) == s[Max({k \in 1 .. i : s[k].node = n})].estimate

\* valid[i]: every observed node has been heard and is within tolerance.
AllWithin(s, i, expected) ==
  \A n \in Observed(s) : /\ n \in {s[k].node : k \in 1 .. i}
                         /\ Within(Latest(s, i, n), expected)

\* Mutant: the first moment all nodes agree, though they part again.
MutStable(s, expected) == {i \in DOMAIN s : AllWithin(s, i, expected)}

\* The suffix of the samples through which all nodes stay within tolerance.
Stable(s, expected) == {i \in DOMAIN s : \A k \in i .. Len(s) : AllWithin(s, k, expected)}

NotObserved == -1

\* ConvergenceTime, over samples in order.
ConvergenceTime(s, nodes, expected) ==
  IF s # <<>> /\ Complete(s, nodes) /\ Stable(s, expected) # {}
  THEN ElapsedSeconds(s, Min(Stable(s, expected)))
  ELSE NotObserved

\* Series: the samples of n, by their positions.
Series(s, n) == {i \in DOMAIN s : s[i].node = n}

\* Mutant: limit intervals, so that the last point falls off.
MutMarker(i, count, limit) == (2 * i * (count - 1) + limit) \div (2 * limit)

\* math.Round(i * (count - 1) / (limit - 1))
Marker(i, count, limit) == (2 * i * (count - 1) + (limit - 1)) \div (2 * (limit - 1))

\* markerIndexes, which counts from 0.
markerIndexes(count, limit) ==
  IF count <= limit THEN [i \in 1 .. count |-> i - 1]
  ELSE [i \in 1 .. limit |-> Marker(i - 1, count, limit)]

-----------------------------------------------------------------------------
(* Run *)

ReportInit ==
  /\ pc = "logs"
  /\ logs \in Logs
  /\ csv \in IF logs = NoFile THEN OldCsv ELSE {NoFile}
  /\ svg = NoFile
  /\ summary = NoFile
  /\ configs \in ConfigLists
  /\ loaded = <<>>

Goto(to) == pc' = to

\* ParseLogs and WriteCSV, if -logs is given.
ReadLogs ==
  /\ pc = "logs"
  /\ \/ logs = NoFile /\ Goto("csv") /\ UNCHANGED csv
     \/ logs = <<>> /\ Goto("failed") /\ UNCHANGED csv
     \/ /\ logs \notin {NoFile, <<>>}
        /\ \/ csv' = Normalize(logs) /\ Goto("csv")
           \/ csv' = Broken /\ Goto("failed")
  /\ UNCHANGED <<logs, svg, summary, configs, loaded>>

\* ReadCSV
ReadCsv ==
  /\ pc = "csv"
  /\ Goto(IF csv \in {NoFile, Broken} THEN "failed" ELSE "configs")
  /\ UNCHANGED <<logs, csv, svg, summary, configs, loaded>>

\* c has the aggregation of the others and a node_id of its own.
Consistent(c) ==
  \A i \in DOMAIN loaded : /\ loaded[i].aggregation = c.aggregation
                           /\ loaded[i].node # c.node

\* Mutant: a configuration that does not load is kept.
MutLoadConfig ==
  /\ pc = "configs"
  /\ configs # <<>>
  /\ IF Consistent(Head(configs))
     THEN loaded' = Append(loaded, Head(configs)) /\ UNCHANGED pc
     ELSE Goto("failed") /\ UNCHANGED loaded
  /\ configs' = Tail(configs)
  /\ UNCHANGED <<logs, csv, svg, summary>>

LoadConfig ==
  /\ pc = "configs"
  /\ configs # <<>>
  /\ IF Head(configs) # BadConfig /\ Consistent(Head(configs))
     THEN loaded' = Append(loaded, Head(configs)) /\ UNCHANGED pc
     ELSE Goto("failed") /\ UNCHANGED loaded
  /\ configs' = Tail(configs)
  /\ UNCHANGED <<logs, csv, svg, summary>>

Samples == Normalize(csv)

Nodes == {loaded[i].node : i \in DOMAIN loaded}

Oracle == Expected(loaded[1].aggregation, [i \in DOMAIN loaded |-> loaded[i].initialValue])

Convergence == ConvergenceTime(Samples, Nodes, Oracle)

Chart ==
  [convergence |-> Convergence,
   markers     |-> [n \in Observed(Samples) |->
                      markerIndexes(Cardinality(Series(Samples, n)), MaxSeriesMarkers)]]

\* The checks, which look at the aggregation of the first sample, and SVG.
WriteSvg ==
  /\ pc = "configs"
  /\ configs = <<>>
  /\ IF csv # <<>> /\ loaded # <<>> /\ Samples[1].aggregation = loaded[1].aggregation
     THEN \/ svg' = Chart /\ Goto("summary")
          \/ svg' = Broken /\ Goto("failed")
     ELSE Goto("failed") /\ UNCHANGED svg
  /\ UNCHANGED <<logs, csv, summary, configs, loaded>>

WriteSummary ==
  /\ pc = "summary"
  /\ \/ summary' = [convergence |-> Convergence] /\ Goto("done")
     \/ summary' = Broken /\ Goto("failed")
  /\ UNCHANGED <<logs, csv, svg, configs, loaded>>

ReportNext == ReadLogs \/ ReadCsv \/ LoadConfig \/ WriteSvg \/ WriteSummary

ReportSpec == ReportInit /\ [][ReportNext]_reportVars

-----------------------------------------------------------------------------
(* Properties *)

Files == {NoFile, Broken}

\* Where Run is, and what its files then hold.
ReportTypeOK ==
  /\ pc \in {"logs", "csv", "configs", "summary", "done", "failed"}
  /\ logs \in Logs
  /\ csv \in Files \/ Observed(csv) \subseteq NodeID
  /\ svg \in Files \/ svg.convergence \in Nat \cup {NotObserved}
  /\ summary \in Files \/ summary.convergence \in Nat \cup {NotObserved}
  /\ \A i \in DOMAIN loaded : loaded[i] # BadConfig

\* What a node exposes at time t: its last sample up to then, by time and
\* then by round.
Exposed(S, n, t) ==
  CHOOSE x \in S : /\ x.node = n /\ x.time <= t
                   /\ \A y \in S : y.node = n /\ y.time <= t =>
                        y.time < x.time \/ (y.time = x.time /\ y.round <= x.round)

\* From t on node n is within tolerance, and never leaves it.
Settled(S, n, t, expected) ==
  /\ \E x \in S : x.node = n /\ x.time <= t
  /\ Within(Exposed(S, n, t).estimate, expected)
  /\ \A x \in S : x.node = n /\ x.time > t => Within(x.estimate, expected)

\* The true aggregate of a run in which each node of the loaded
\* configurations contributes once.
Truth ==
  LET agg   == loaded[1].aggregation
      own   == [n \in Nodes |-> (CHOOSE c \in ToSet(loaded) : c.node = n).initialValue]
      total == MapThenSumSet(LAMBDA n : own[n], Nodes)
  IN  CASE agg = "sum"     -> total
        [] agg = "average" -> total \div Cardinality(Nodes)
        [] agg = "min"     -> Min({own[n] : n \in Nodes})
        [] agg = "max"     -> Max({own[n] : n \in Nodes})

\* "Identifica una convergenza che rimanga entro tolleranza per il resto dei
\* campioni": the report gives the first instant from which each configured
\* node has been heard and no node leaves the tolerance again; it depends
\* on the samples as a set and not on the order of the log, as long as no
\* two lines have the same time, node and round.
ReportIsTrue ==
  LET S  == ToSet(csv)
      T  == {x.time : x \in S}
      OK == {t \in T : \A n \in Nodes : Settled(S, n, t, Truth)}
      Distinct == \A i, j \in DOMAIN csv :
        i # j => <<csv[i].time, csv[i].node, csv[i].round>> #
                 <<csv[j].time, csv[j].node, csv[j].round>>
  IN  pc = "done" /\ Distinct =>
        summary.convergence =
          IF OK = {} \/ Observed(csv) # Nodes THEN NotObserved ELSE Min(OK) - Min(T)

\* "Include entrambi gli estremi senza duplicati": the markers of a series
\* begin with its first sample, end with its last and never repeat one.
MarkersSpread ==
  svg \notin Files => \A n \in Observed(csv) :
    LET m == svg.markers[n]
    IN  /\ m[1] = 0
        /\ m[Len(m)] = Cardinality(Series(csv, n)) - 1
        /\ \A i \in 1 .. Len(m) - 1 : m[i] < m[i + 1]
=============================================================================
