# A TLA+ model of the gossip aggregation cluster

The repository is a Go node that takes part in a cluster of equals. Every node
has a configured value; by exchanging UDP datagrams all nodes compute the sum,
the average, the minimum or the maximum of the values of the nodes that are
alive, while nodes crash, leave, restart and lose messages. This directory holds
TLA+ modules of the parts of that program where order, loss and crashes matter,
the TLC configurations that check them, and proofs checked by TLAPS.

Paths in this file are relative to the repository root.

## 1. Inventory

| Component | State | Operations | What is hard |
|---|---|---|---|
| Merge rules, `internal/gossip/state.go` | per node and aggregation a map of contributions and one of version stamps `(epoch, counter)`; `SeenMessageIDs`; `LastSeenVersionByNode`; the derived `Value` | `applyRemote` with its outcomes, four merges, estimates | reordering, duplicates, boots of one node mixed, several fast paths that skip a merge, zero used as "not set", saturated sums |
| Engine, `internal/gossip/engine.go` | `State` under `mu`, the fanout cursor | `round` (ticker goroutine), the receive handler (transport goroutine), `AnnounceLeave` (main goroutine) | the handler has two critical sections with membership work between; snapshots used after the lock is free |
| Membership, `internal/membership` | peers by node ID, aliased by endpoint, with status, incarnation and `LastSeen`; watermarks of pruned peers | `Upsert`, `ObserveHeartbeat`, `LeaveAt`, timeouts, `Prune`, seeds | late digests against tombstones, promotion of `host:port` placeholders, restart, false suspicion |
| Generation, `internal/identity` | one file, a lock file, a temporary file, their directory | `AllocateGeneration` | crashes between write, rename and sync; concurrent boots; overflow |
| Node, `cmd/node` | the life of the process | boot in a fixed order; leave and stop on a signal | the transport closes on the same signal that starts the leave |
| UDP transport, `internal/transport` | socket, `closed`, `started` | `Start`, `Send`, `Close`, `readLoop` | loss, delay, duplication, reordering; close against send |
| Configuration, `internal/config` | none at run time | load, override, validate | the failure-detection window against the fanout rotation |
| Aggregation registry, `internal/aggregation` | none | `Factory`, `Type` | nothing: the engine never calls `Merge` |
| Observability, `internal/observability` | counters and node state behind a mutex | setters, HTTP handlers | nothing feeds back into the protocol |
| Convergence report, `internal/convergence*` | none (offline tool) | parse, normalise, expected value, convergence time, drawing | boundary cases of pure functions |

How they interact. `main` allocates a generation, fills the membership with the
node itself and its seeds, seeds the engine's state, and starts the transport
and the ticker. The generation is both the epoch of the state stamps and the
incarnation in the membership. A round reads the membership (expire, prune,
snapshot), then takes the engine's mutex, stamps the local contribution, derives
the estimate over the members alive, and sends state and membership digest to
some of the peers. The handler merges the state of a datagram under the mutex,
updates the membership outside it, and takes the mutex again to derive the
estimate from the new membership. Nothing but the generation survives a crash.

What makes each part correct:

- a contribution of a node is only ever replaced by a newer one, a node always
  beats every copy of its own older contributions, and equal stamps mean equal
  contributions;
- what a node that sums drops as stale adds nothing within a boot of the sender;
  what the fast paths skip, later datagrams make up for;
- once crashes stop, all estimates become the aggregate of the configured values;
- generations never repeat, in a directory that lasts, and the generation file
  stays usable;
- the membership never revives an incarnation that is over, never lists a node
  twice, lets a restart prevail, detects crashes, and counts every datagram as a
  heartbeat;
- an estimate counts, in the end, the nodes its membership holds alive and no
  others, although rounds and handler pass each other snapshots;
- each peer is gossiped to often enough not to be suspected;
- a signal ends the process, with nothing left open and nothing sent after;
- a saturated sum is flagged, and one that is not flagged is exact;
- the convergence report gives what the samples say, in whatever order they come.

The hazards behind these, each at its line, are listed in `PROJECT.json`.

## 2. Modules

| Module | Models |
|---|---|
| `StateVersion` | stamps and their order |
| `StateMerge` | the pure part of `state.go` |
| `GossipEngine` | nodes, rounds, handler, leave, crash and restart; the replicated aggregate |
| `FiniteSums` | lemmas: sums over finite sets in any order, induction over sets and intervals |
| `GossipEngineProofs` | theorems about `GossipEngine` |
| `GenerationAllocator` | what `internal/identity` promises |
| `Generation` | `AllocateGeneration`, step by step |
| `GenerationProofs` | theorems about `Generation`, the refinement among them |
| `IncarnationMemory` | what `internal/membership` promises about incarnations |
| `MembershipSet` | what a membership `Set` holds about one node, and the operations on it |
| `Membership` | the membership protocol between nodes |
| `Cluster` | membership and estimate of a node together: two goroutines, their snapshots and locks |
| `MembershipProofs` | what each operation on a slot leaves and keeps; theorems about `Membership` and `Cluster` |
| `NodeProcess` | the goroutines of one process: boot, signal, leave, stop, and the UDP transport |
| `NodeProcessProofs` | theorems about `NodeProcess` |
| `Fanout` | the fanout rotation, and the timeouts a validated configuration gives it |
| `FanoutProofs` | theorems about `Fanout` |
| `SaturatedSum` | the estimate of `sum` near the largest float |
| `SaturatedSumProofs` | theorems about `SaturatedSum` |
| `ConvergenceReport` | the offline report, its pipeline and its algorithms |
| `ConvergenceReportProofs` | theorems about `ConvergenceReport` |
| `MCGossipEngine`, `MCMembership`, `MCCluster`, `MCLocal` | instances for TLC |

What uses what: `GossipEngine` extends `StateMerge`, which extends
`StateVersion`; `Membership` extends `MembershipSet`, and `Cluster` extends
`Membership`; `Generation` instantiates `GenerationAllocator`, and `Membership`
instantiates `IncarnationMemory`, for their refinements; `MCLocal` extends `Fanout`, `SaturatedSum` and
`ConvergenceReport`, which share nothing. `NodeProcess` stands alone.

### StateVersion, StateMerge, GossipEngine

A state of `GossipEngine` has one component per field of `shared.GossipState`
that the protocol reads: `epoch`, `counter`, `aggregation`, `localValue`,
`value`, `contributions`, `versions`, `seen`, `lastSeen`. The two maps of the
aggregation a node runs are total functions over `Node`; a missing entry has the
stamp `NoStamp` (generations start at 1, so no real stamp is zero).
`handling[n]` says that n's handler is between its two critical sections. `msgs`
is the set of all datagrams ever sent: receiving does not remove one, and
nothing makes a node receive one, which gives loss, duplication, delay and
reordering at once.

| Action | Code |
|---|---|
| `Boot` | `main` up to `eng.Start`; `NewEngine`, `SetGeneration` |
| `Stop` | a crash at any moment, or the end of the process |
| `Round` | `round` with `prepareLocalStateForRound` |
| `AnnounceLeave` | `AnnounceLeave` |
| `IgnoreMessage`, `DropMessage`, `SkipEquivalent`, `MergeRemote` | the outcomes of `applyRemote`, first critical section of the handler |
| `Recalculate` | `recalculateStateForMembership`, second critical section |

`MergeRemote` covers the results `remote_contribution_merged`, `older_version`
and `remote_contribution_duplicate`, which differ only in the reported reason. The
membership enters as `Views`: the sets of peers a snapshot may hold eligible.
A round may run once more after `AnnounceLeave`, because the ticker and the
cancelled context may be ready together. Values are integers; an average
contribution always has count 1 (nothing in the code writes another) and is
represented by its sum.

### GenerationAllocator, Generation

`Generation` follows the system calls of `AllocateGeneration`: mkdir, flock,
read, write and sync of the temporary file, rename, sync of the directory,
unlock. A call may fail, or its process die, before each of them (`Abort`), any
number of processes may be inside, and the power may fail (`PowerLoss`). `file`
is what processes read; `survivors` is the set of contents the path may have
after a power loss: all it held since its directory was last synced, `Empty`
among them if data that was not synced was renamed into place.

`directory` says whether the directory of the path is absent, made by a call
(`os.MkdirAll`), or durable. The code syncs the directory, never its parent, so
one that a call has made may be gone after a power loss with all it holds
(`Vanishes`); if it is still there it is durable from then on (`Survives`).
A behaviour starts without the directory or with a durable one.

`latest` and `allocations` are history variables, about what the present
directory has handed out. With `durable` they are all there is in the abstract
`GenerationAllocator`: a generation handed out is greater than all before it, and
only storage that is not durable may be lost, and starts again (`Forget`).
`AllocatorSpec` is that specification over these variables: "un crash puo'
lasciare un salto, mai un riuso" (`internal/identity/generation.go:18`), with the
one exception that the code leaves open. `GossipEngine` and `Membership` take for
granted that a boot has a greater generation than the one before; this holds
where the directory is durable, as in the Docker image, which ships
`/var/lib/sdcc` and mounts a volume there.

### IncarnationMemory, MembershipSet, Membership

Every node advertises one endpoint, so what a `Set` knows of a node lies under
at most two keys: its node ID (canonical) and its `host:port` (placeholder). A
slot is the part of the `Set` under these keys, entries and watermarks; the
operations of `membership.go` act on one slot each. `LastSeen` is kept as an age
in ticks that stops growing at `MaxAge`, past every timeout: the code only
compares it with timeouts and with other `LastSeen` values. Clocks agree; a
datagram carries the age of its `SentAt`.

`Membership` has one slot for each pair of nodes. `Boot` inserts the node under
its generation and its seeds as placeholders; `RoundTo` expires, prunes and
sends a digest to any of the targets (one entry for each endpoint, canonical
ones preferred); `Receive` is the heartbeat of `markPeerAlive` and then
`mergeMembership`; `AnnounceLeave` marks the node left and tells the targets;
`Tick` is time. In-flight datagrams stay in `msgs` when received (duplication)
and leave it with `Lose`.

`IncarnationMemory` is what all this is for, without entries, watermarks, ages or
datagrams: a running node remembers of each other node j how many incarnations
are over (`over`) and whether it holds the next one live (`live`). It may learn
at any time, of nothing that is still to come; it forgets only when it stops; a
node held live stays so until that incarnation is over; and of itself a node
believes what it decides, so nobody can tell it that it is dead. The mapping
(`OverAt`, `LiveAt`) reads both off the slots: an incarnation is over when an
entry or a watermark has a later one, or the same one dead or left. `MemorySpec`
says that each step of `Membership` is a boot, stop, leave or learning step of
`IncarnationMemory`, or changes nothing in it: a promotion, a prune of a
tombstone into its watermark, a refresh of `LastSeen`, a suspicion. `Cluster`
implements it too, although its steps are not those of `Membership` one by one
(a digest may be of an old snapshot).

### Cluster

`Cluster` puts the two halves of a node together. It takes the operations of
`Membership` as they are and reduces the state of `GossipEngine` to what the
membership acts on: `known`, the generation of each contribution a node has, and
`counted`, the nodes its estimate is made of. A round is two steps, up to its
snapshot (`StartRound`) and from the engine's lock on (`FinishRound`); the
handler is three, `MergeState`, `MergeMembership`, `Recalculate`, as in the code
with its two critical sections and the membership work between. `sending` and
`handling` hold the snapshot, or the datagram, a goroutine carries from one step
to the next, and age with the clock. Whether `applyRemote` takes anything from a
datagram (it may be stale, also across a restart of its sender, or count as
equivalent) depends on stamps that `GossipEngine` has, so `MergeState` allows
both for every datagram.

### NodeProcess

One process: `main`, the ticker goroutine (`loop`), `readLoop` (`reader`) and the
goroutine that waits for the context (`watcher`). The transport's lock is held
for a few assignments at a time, so each critical section is one step.

| Actions | Code |
|---|---|
| `Bootstrapped` ... `EngineStarted` | `main` 72-158, with `UDPTransport.Start` in the middle |
| `CheckClosed`, `SnapshotConn`, `CheckContext`, `Write` | `Send` and `sendWithPersistentSocket`, by the leave and by the rounds |
| `StartRound`, `EndRound`, `LoopEnds` | `Engine.loop` |
| `Poll`, `ReadDatagram`, `HandlerReturns`, `ReadFails`, `ReaderDone` | `readLoop` |
| `MarkClosed`, `AlreadyClosed`, `SignalDone`, `CloseSocket`, `WaitReaders` | `Close`, by `main` and by the watcher |
| `AnnounceLeave` ... `Exit` | `main` 161-197 |
| `Signal`, `LeaveTimeout` | SIGINT or SIGTERM; the 500 ms of the leave |

A signal before `NotifyContext` kills the process, as Go does. A round may start
after the signal, because `select` may prefer the ticker.

### Fanout, SaturatedSum, ConvergenceReport

`Fanout` is `pickFanoutTargets` with its cursor over a list that changes between
rounds, under the configurations that pass `Validate`; times are in half
milliseconds, so that half a timeout is whole. `waited` is a history variable.

`SaturatedSum` has the estimate of each node, the set of nodes it was taken over
and the flag `Overflowed`; `Walk` is the loop over one order of the map, and
`Sums` gives every result it may return over all orders. The handler takes the
mutex twice: `Merge` combines the flags and sums all contributions known, and if
none of them was new it puts the old estimate back and keeps the flag
(`KeepEstimate`, `state.go:85-97`); `Recalculate` sums those that are eligible, at
the end of the handler or in a round. In between (`handling`) a node may hold the
flag and, as its estimate, the exact sum from before it. `raised` is a history
variable: which nodes ever raised the flag, since a datagram with it may be of an
earlier boot. The map need not hold a node that has had no round, not even the
node itself. Values are not zero, because of finding 1.

`ConvergenceReport` follows `Run`: logs to CSV, CSV and configurations to the
chart and the summary, any of the writes failing half way. `Normalize`,
`Expected`, `ConvergenceTime` and `markerIndexes` are operators; the properties
compare them with definitions over the set of samples (`Settled`, `Truth`).

## 3. Runs

| Run | Specification | Checks | Shows |
|---|---|---|---|
| `gossip_relay` | `Spec` | `TypeOK`, `OwnVersionDominates`, `SumStaleDropLossless`, `EstimateIsCurrent`, `VersionsMonotone` | n1 (two boots, may crash or leave) and n2 send and relay each other; n3 only receives, in any order |
| `gossip_convergence` | `FairSpec` | `StampIdentifiesContribution`, `ContributionIsConfigured`, `CompleteIsConverged`, `EstimatesConverge` | all four aggregations; n1 may crash once at any moment and come back with another one |
| `gossip_zero_value` | `Spec` | `ContributionIsConfigured` | **violated**: n1 configured with 0 |
| `gossip_stale_restart` | `Spec` | `StaleDatagramAddsNothing` | **violated**: the relay across a restart |
| `generation` | `FairSpec` | `TypeOK`, `StorageReadable`, `AllocatorSpec`, `CallsEnd` | two processes, four generations, with the directory there or still to be made; deadlock is checked too |
| `membership_safety` | `Spec` | `TypeOK`, `GenerationDominates`, `SingleRecord`, `NoResurrection`, `MemorySpec` | two nodes, n1 with two boots, leaves, crashes, tombstones that live for a while before the prune |
| `membership_heartbeat` | `Spec` | `HeartbeatCounts` | **violated**: n1 does not have n2 as a seed |
| `membership_partition` | `FairSpec` | `ViewsReconverge` | **violated**: both declare each other dead |
| `cluster` | `ClusterSpec` | `ClusterTypeOK`, `DeadForgotten`, `AliveCounted` | n1 gossips and may crash, n2 listens and may crash or leave; rounds, handler and clock in any order |
| `process` | `FairSpec` | `TypeOK`, `StopReleases`, `ReadyServes`, `NothingSentAfterStop`, `ExitsAfterSignal` | one process with up to two targets, a signal at any moment; deadlock is checked too |
| `process_leave` | `Spec` | `LeaveBeforeShutdown` | **violated**: the watcher closes first |
| `local` | `LocalSpec` | `SumTypeOK`, `ReportTypeOK`, `Coverage`, `HeartbeatsBeatTimeout`, `UnflaggedIsExact`, `OverflowJustified`, `FlagIsForLife`, `ReportIsTrue`, `MarkersSpread` | `Fanout`, `SaturatedSum` and `ConvergenceReport`, one of them in each behaviour |

Why the bounds are enough.

- *Aggregate.* The order of versions only compares two stamps of one node, so
  two boots of one node, a second node that relays and, for what a third party
  may miss, an observer exhibit each way of arriving out of order. The number of
  sends per boot (`MaxSends`) makes room for two versions of one boot and one of
  the next. Initial values are multiples of six, so averages are exact, and
  differ between aggregations, so a mix would show. The memberships of
  `gossip_relay` do not hold n1: a merge counts every contribution, so the
  recalculation that follows has to take n1 out again, and `EstimateIsCurrent`
  tells the two apart. `gossip_convergence` gives a
  node one value for each aggregation; why not two is under the remarks below.
- *Membership.* The timeouts are 0 and 1 ticks (age 1 is suspect, age 2 dead)
  and the retention 2 or 3, so that a tombstone may be pruned in the round that
  makes it, or live for rounds; every order of expiry, prune, heartbeat, digest
  and restart of one observed node occurs with two nodes. Relays through a third
  node and several datagrams of one node in flight are not covered by these runs,
  which exceed a million states with them, nor are datagrams of two incarnations
  in flight at once; the proofs cover them all for the safety properties.
- *Generations.* Each order of two calls, failures and power losses occurs below
  the largest generation, and so does the refusal at it; a directory that a call
  makes may be lost and made again.
- *Cluster.* What is checked concerns what one node's two goroutines do with
  another node, so one that sends and one that listens are enough; n2 learns of
  n1 from its datagrams, so both first contact and loss occur. Each may stop for
  good at any moment, and the datagram of n1 may be delivered over and over.
- *Process.* Two targets, so that the signal, the timeout and the close can fall
  before, between and after two sends of one announcement.
- *Local.* Lists of up to five peers, fanouts from 1 to 3 and configurations on
  both sides of each bound of `Validate`; three contributions, of which two
  negative ones reach the limit and three exceed it, two positive ones exceed it
  and a negative one may bring them back in time (the nodes are symmetric, since
  they differ in their contributions only); logs of up to three lines of two nodes at two times in any order, series long enough to be
  thinned.

`generation` and `process` check for deadlock; the other systems may stop, when
the bounds on boots and sends are used up and every node is down, or when the
report is written.

### Fairness

- `GossipEngine!FairSpec`: a node that is down restarts while its bound allows
  (a supervisor restarts it), the ticker fires, the handler finishes, and the
  newest datagram of each origin is received if it can be again and again: that
  is "delivery ripetuta" of `docs/architecture.md`; every older datagram may be
  lost. Stopping and leaving are never forced. Since sends are bounded, the
  newest datagram stands for all later rounds, which carry the same content.
- `Generation!FairSpec`: a scheduled process goes on, and the kernel serves the
  waiters of a flock. Calls, failures and power losses are never forced.
- `Membership!FairSpec`: rounds go on, the rotation of the fanout reaches each
  target again and again, a path that is used again and again delivers. Stop,
  leave, boot and `Tick` are never forced. This is the most the code could be
  given, and `ViewsReconverge` still fails.
- `Cluster!ClusterSpec`: ticker and handler go on. No delivery is promised, so
  `DeadForgotten` holds whatever the network does. It assumes `ClockRuns`, that
  time never stops, but not that rounds keep up with it.
- `NodeProcess!FairSpec`: the Go scheduler runs each goroutine that is ready, a
  read returns at its deadline of 250 ms, a handler returns. No signal and no
  timeout is forced, and no datagram need arrive.

### Findings

1. **Zero as "not set".** `prepareLocalStateForRound` (`engine.go:1222`) takes
   `LocalValue == 0` for a value never set. A node configured with
   `initial_value: 0` (the default) that merges a datagram before its first
   round publishes the estimate, the sum of the others, as its own contribution,
   and keeps it until it restarts. `docs/configuration.md:30` calls
   `initial_value` the local contribution of the node. The first tick comes a
   whole gossip interval after the transport opens, so this is the usual case
   for a node that joins a running cluster.
2. **Stale datagrams are dropped whole.** `docs/architecture.md:63` says their
   per-contribution metadata may still add information; `applyRemote` returns
   before it merges (`state.go:62`). Within one boot of the sender a node that
   sums loses nothing (`SumStaleDropLossless`); across a restart of the sender it
   does. For averages, minima and maxima nothing is claimed within a boot either:
   the semantic skip (`state.go:75`) takes the stamp of an equivalent datagram as
   the last one seen without its map, so an older datagram that is then dropped
   may hold what the node lacks.
3. **The first heartbeat of an unknown node does not count.**
   `docs/architecture.md:71` says a valid message is a heartbeat of its origin.
   For an endpoint that is not in the set yet, `markPeerAlive` changes nothing
   and the digest inserts the node with the `last_seen` of its self entry, which
   is its boot time and is never refreshed. If it has been up for longer than
   the dead timeout, the receiver's next round makes it dead in its current
   incarnation. `configs/node1.yaml` seeds only node2 and node3 while node4 to
   node6 seed node1, so this needs no unusual set-up.
4. **Partitions longer than the dead timeout are permanent.**
   `docs/architecture.md:104` says gossip lets the sides reconverge; dead peers
   are not targets, heartbeats of a dead incarnation are ignored, and digests
   keep the higher rank, so only a restart helps. The repository's test of
   reconvergence (`tests/gossip/membership_convergence_test.go:332`) gives the
   healed side a higher incarnation by hand.

5. **The leave may find the transport closed.** `engine.go:490` says the
   announcement is sent before the shutdown of the transport. The goroutine that
   `UDPTransport.Start` leaves waiting closes the transport on the same signal
   that wakes `main`. If it is first, every send of the leave fails, the errors
   are discarded, and the log says that the leave was announced. Peers then
   learn of the departure by the dead timeout.

Remarks without a run of their own:

- A restart with another `initial_value` may keep the old one: if the node
  merges a relayed copy of its contribution of the boot before, ahead of its
  first round, `prepareLocalStateForRound` takes the entry it finds
  (`engine.go:1228`) and publishes it under its new stamps. With a second sum
  for n1 `EstimatesConverge` fails in `gossip_convergence`.
- `ExpectedPeerReceiveGap` counts configured peers, the rotation all discovered
  ones: with two seeds, fanout 2, rounds of 1 s and a timeout of 5 s, in a
  cluster of seven, a peer is sent to every 3 s and suspected after 2.5 s. This
  is the premise of `HeartbeatsBeatTimeout`.
- `Overflowed` is never cleared and spreads by merges, so estimates stay at the
  limit after the large contributor has gone (`FlagIsForLife`), whereas
  `README.md:65` and `docs/architecture.md:96` speak of the eligible
  contributions. A datagram that brings the flag and no new contribution leaves
  the estimate as it was until the handler recalculates (`state.go:90`); a leave
  announced in that moment publishes a raised flag with an ordinary sum.
- Nothing syncs the parent of a directory that `os.MkdirAll` has made
  (`generation.go:25`): a power loss after the first boots of a node may remove
  the directory, and generation 1 is handed out again, which line 18 of that file
  excludes. This needs a set-up without the directory of the Docker image.
- `EstimatesConverge` is checked with later datagrams repairing what the
  semantic skip leaves out; `EstimateIsCurrent` could not show a skipped map,
  since the estimate is that of the contributions held either way.
- The average does not saturate: an infinite average cannot be written as JSON,
  the error of `json.Marshal` (`engine.go:436`) is dropped, and the node sends
  empty datagrams from then on.
- The comment at `engine.go:488-491` says a
  leave increments the incarnation, `LeaveAt` says it does not (it does not).
- When leaves are allowed, `ContributionIsConfigured` fails for a leave announced
  after a merge and before the first round (see the hazard at `engine.go:507`).

## 4. Proofs

TLAPS proves, for every value of the constants:

- `StampTypes`, `OwnVersionsDominate`, `VersionsNeverRegress`
  (`GossipEngineProofs`). The invariant is `StampTypeOK /\ OwnVersionDominates`.
  `OwnVersionDominates` alone is inductive only with the types, and it must
  speak of datagrams as well as replicas, because a datagram may carry a third
  node's stamp. The argument: a stamp a node reached stays reached in every step
  of that node, a crash and restart included, since the next boot has a greater
  epoch (`ReachedStep`); each stamp in a replica after a merge comes from the
  replica, from the datagram, or is the local stamp (`MergeRemoteVersions`).
  Monotonicity then follows for each action, and for a round it needs the
  invariant: the new own stamp is newer than what the node holds because it
  holds nothing it has not reached.
- `EngineTypes` (`GossipEngineProofs`): all of `TypeOK`, values included. An
  estimate is a fold over the known contributions; that it is an integer is by
  induction over finite sets, which `FiniteSums` does by a least counterexample
  with the family of sets as a parameter (`SubsetInduction`).
- `SumStaleDropsLoseNothing` (`GossipEngineProofs`), for the nodes that sum. Within a boot the datagrams of
  a node form a chain: of two with stamps in order, the older holds nothing that
  the newer lacks (`Chain`), and the sender keeps what it sent (`SenderKeeps`).
  `Stamped` says a datagram carries the sender's own stamp. A receiver whose
  last-seen stamp is at least that of a datagram has merged one of the same boot
  that covers it. The others may not have: see finding 2.
- `StampsIdentifyContributions` (`GossipEngineProofs`): equal stamps mean equal
  contributions, so the tie-break of the merges never decides anything. Every
  copy after a step is an old copy or made by its own node in a round, a leave
  or a merge (`CopyStep`), and a node makes one only under a fresh stamp
  (`NewCopyStamp`) or without changing it. *Hypothesis* `LeaversCarryValue`: no
  node that may leave is configured with a minimum or maximum and the value
  zero. It is needed: TLC finds such a node that merges, announces its leave
  before its first round, then derives its value again from another view and
  merges once more, which leaves two values under one stamp (the hazard at
  `engine.go:507`). The run `gossip_convergence` satisfies it.
- `ContributionsAreConfigured` (`GossipEngineProofs`): no estimate is ever fed
  back as a contribution. *Hypothesis* `ValuesStandForThemselves`: no value is
  zero and nodes that may leave run a minimum or a maximum. Without the first it
  is finding 1, without the second the remark about leaves above; the run
  `gossip_convergence` satisfies it.
- `EstimatesAreCurrent` (`GossipEngineProofs`), without hypotheses: outside a
  handler, the estimate of a node is that of the contributions it holds now,
  over a view its membership may have. It is inductive with the types: each step
  leaves contributions and estimate alone, or derives the estimate anew, or is a
  merge, whose handler has yet to recalculate (`EstimateStep`).
- `EstimatesAggregateConfigured` (`GossipEngineProofs`). Between the two critical
  sections of a handler the estimate may be over all contributions, whatever
  the view; the invariant `Follows` allows that view too. A merge that does not
  derive the estimate anew has changed nothing, the entry it may materialise for
  its own node included (`MergeEstimate`). With
  `ContributionsAreConfigured` an estimate is then always an aggregate of
  configured values, under the same hypothesis.
- `CompleteClustersConverge`, `HearingConverges` (`GossipEngineProofs`): the
  safety half of convergence. Once no crash is to come (`Stable`) and each node
  has heard of all (`Complete`), `Follows` gives each estimate over the whole of
  `Node`, of contributions that are what the nodes booted with
  (`CompleteConverged`); versions do not regress, so this stays
  (`CompleteStays`). `EstimatesConverge` then follows from `Spec` and the one
  premise that nodes come to hear of each other. *Hypotheses*: `FullMembership`
  (`Views = {Node}`, nobody leaves), `OneValueEach` (a restart keeps the value of
  an aggregation; the remark about restarts shows why) and
  `ValuesStandForThemselves`. The run `gossip_convergence` satisfies all three.
- `GenerationTypes`, `StorageStaysReadable`, `GenerationRefinesAllocator`,
  `ProvisionedNeverReuses` (`GenerationProofs`). The invariant adds to `TypeOK` and
  `StorageReadable` who holds the lock, what each temporary file contains at each
  program counter, and that `latest` is at most every content that may survive.
  Each step then maps to `Allocate`, to `Settle` or `Forget` (a power loss, by
  what it does to a directory that a call has made), or to a stutter. The last
  theorem is the promise without `Forget`: a directory that is durable when a
  behaviour starts stays so, and hands out ever greater generations.
- `TypeCorrect`, `Dominance`, `NoDuplicates`, `Tombstones` (`MembershipProofs`):
  every safety property the membership runs check and find to hold, here for
  any number of nodes, so relays through third nodes included. A slot with at
  most one record is empty, one peer or one watermark; the first part of the module
  computes each operation on these shapes and shows that it *advances* the slot:
  at most one record is left, no incarnation appears but those up to the one
  that came in, an incarnation that is over stays over, and one that is held
  live stays so until it is over. The invariant adds
  to the checked properties `SelfSlots`, that a running node holds itself by its
  node ID, under its generation, and alive until it leaves (without it a leave
  could mark the wrong record). Each action changes
  slots by such operations only, with incarnations from a digest, which
  `GenerationDominates` bounds; this is why the invariant speaks of datagrams.
  `NoResurrection` follows since what is over is not held live by the only
  record.
- `MembershipRefinesMemory`, `ClusterRefinesMemory` (`MembershipProofs`): both
  systems implement `IncarnationMemory`. `SlotRemembers` computes `over` and `live`
  of a slot from its only record; `AdvancesRemember` then turns *advances* into
  the learning step of the abstract specification (`LearnStep`); the passing of
  time changes nothing (`AgedRemembers`, `SameMemory`), and what a node holds of
  itself changes only by its own boot, leave or stop. What a step
  does to the Sets (`SlotStep`) is one lemma for both systems, so the mapping is
  proved once.
- `EstimatesCountKnown`, `SetsStaySound`, `NothingRevives` (`MembershipProofs`): the
  type invariant of the composition, and the safety of the membership again
  where rounds and handlers are several steps that carry snapshots and datagrams
  between them. The invariant bounds what a goroutine carries by the generations
  (`SendingInv`, `HandlingInv`), as it does for datagrams, and ties `counted` to
  `known` (`CountedInv`); what a step does to the Sets is proved once,
  apart from the datagrams, and used for both systems.
- `ProcessTypes`, `CloseReleases`, `ReadyMeansServing`, `SilenceAfterStop`
  (`NodeProcessProofs`): every invariant of the run `process`, for any number of
  targets. The invariant says where `main` must have been for each goroutine to
  be there, that the flags of the transport agree outside a critical section,
  that `wg` counts the reader exactly, and that nothing but a signal leads to a
  close, a return of the reader or the end of the loop. The last two make the
  fallback of `Send` harmless: without a connection there was a close, hence a
  signal, so the loop finds its context done before it writes.
- `FanoutTypes`, `RotationCovers`, `NoRotationSuspicion` (`FanoutProofs`). The
  invariant is `Approach`: the window must still move by `Distance` to reach a
  peer, and that distance and the positions already moved over while the peer
  waited stay below the number of peers. A round either serves the peer or moves
  the window nearer by `fanout` positions (`StartMoves`, by cases on whether the
  window wraps); the rest is arithmetic of remainders and ceilings, stated as
  lemmas. `NoRotationSuspicion` also gives `SuspectTimeout < DeadTimeout`, which
  `MembershipSet` assumes, for every configuration that passes `Validate`.

- `EstimatesAreFinite`, `UnflaggedEstimates`, `NoFalseAlarm`, `FlagStays`
  (`SaturatedSumProofs`): all properties of `SaturatedSum`. The running total of
  the loop is at each moment the sum of the nodes visited (`RunningTotalIsSum`),
  whatever the order, so the loop ends with the sum of all or stops at a part
  sum out of range; and a part sum lies between the sums of the negative and of
  the positive contributions of the deployment. The invariant adds that a raised
  flag goes with a limit or zero, or with the sum from before it while a handler
  is under way (`FlaggedAtLimit`), and that a flag in a datagram was raised by an
  overflow (`RaisedJustified`).
- `ReportTypes`, `ReportHolds`, `MarkersCover` (`ConvergenceReportProofs`): all
  properties of `ConvergenceReport`. The invariant says at which step of `Run`
  there are samples and configurations, that each node has one configuration
  (`OnePerNode`), and that what has been written is computed from those Run
  holds. *Sorting*: the position of a sample is the number of samples that do not
  come after it, which is a bijection because `Before` orders the samples
  strictly (`PositionsAreOrdered`), so `Normalize` permutes them into order.
  *Report*: the estimate in force at an index is what its node exposes at that
  time (`ExposedIs`; here two samples with one time, node and round would make
  the order of the log matter), so all nodes are settled at a time if and only if
  the samples are stable from the last one up to it (`SettledIsStable`), and the
  least such index has the least such time (`FirstStable`). The expected value,
  a sum over the list of configurations, is that over the nodes
  (`OracleIsTruth`, by `SumReindexed`). *Markers*: with more samples than markers
  two neighbours lie at least one sample apart before they are rounded
  (`QuotientGrows`).

The assumptions are those of the modules (`NodeAssumption`: finitely many nodes;
`ConfigsAssumption` of `GossipEngine` and of `Fanout`, `BoundsAssumption`,
`GenerationAssumption`, `TimeoutsAssumption`, `MembershipAssumption`,
`MaxTargetsAssumption`, `PeerAssumption`, `FiniteFloats`: finitely many nodes with
finite values; `InputsAssumption`: what files may hold), and the hypotheses named above.

Only model-checked:

- liveness (`CallsEnd`, `ExitsAfterSignal`, `DeadForgotten`, `AliveCounted`),
  which rests on fairness and ENABLED, out of the reach of TLAPS;
- of `EstimatesConverge`, that nodes come to hear of each other: the premise of
  `HearingConverges`, which only fairness gives. That the estimates are then
  right, and stay right, is proved.

Each invariant, each action property and each refinement that a passing run
checks is stated by a theorem. The `TypeOK` of `Fanout` is in no run; `FanoutTypes`
proves it.

## 5. Not modelled, and why

- Rounding, infinities and the 1e-9 tolerance: values are integers. Saturation
  is modelled for the sum alone, apart from the replication of contributions
  (which it does not influence).
- Messages without per-node metadata or of another protocol version
  (`adoptRemote`, `preferRemoteOnConflict`, `same_version_different_payload`):
  nodes of this version never send them.
- `Touch`, `TouchOrUpsertCanonical`: reached only by datagrams whose origin
  endpoint cannot be resolved, which a node of this version never sends; the
  branch of `ObserveHeartbeat` that inserts a peer, which the engine cannot
  reach because it passes an address only for a peer it holds.
- Two nodes that advertise the same endpoint.
- The join endpoint: the repository has a client and no server.
- A process that lingers after its leave until its own entry is pruned: main
  gives the announcement half a second, the retention is much longer.
- In `Membership` and `Cluster`, a heartbeat and the digest of the same datagram
  are one step; a round of the same node between them is not shown. In
  `Membership` so are the operations of one round.
- The stamps of contributions in `Cluster` (see there), and a restart in its run:
  each restart is covered by the runs of the two halves.
- Reads of `eng.State` by `main` without the mutex, which only reach logs and
  gauges, and the order in which the goroutines set those gauges.
- A second `Start` of a transport, or one after `Close`: no caller makes it.
- The aggregation registry: the engine uses the name of the aggregation and
  never calls `Merge`.
- The parsing of configuration files, of log lines and of CSV, and the checks of
  `Validate` about names and addresses: sequential, without state, and covered by
  table tests of the repository.
- Logging, metrics, the HTTP server, drawing, scripts and deployment files.

## 6. Plan

Done: (1) the aggregate core with its proofs, (2) generations with the abstract
allocator, the refinement and its proofs, (3) the membership set and protocol,
(4) their proofs, (5) the composition of membership and estimate, (6) the node
process and its transport, with proofs, (7) the fanout rotation and its
timeouts, with proofs, (8) the saturated sum, with proofs, (9) the convergence
report, with proofs, (10) the proofs about `Cluster`, (11) the proofs about the
types, the stale filter and the values of `GossipEngine`.

Since then: (12) the abstract specification `IncarnationMemory`, which
`Membership` and `Cluster` both implement, (13) the value of the estimates once
nodes have heard of each other, the safety half of `EstimatesConverge`.

Left: the liveness properties as theorems, should TLAPS come to support
fairness; and a value that changes over a restart, for which `OneValueEach` can
be dropped only when the code stops keeping the old one (see the remarks).
