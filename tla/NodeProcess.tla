----------------------------- MODULE NodeProcess -----------------------------
(***************************************************************************)
(* One node process: cmd/node/main.go with the goroutines it starts and    *)
(* the UDP transport they share (internal/transport/udp_transport.go).     *)
(*                                                                         *)
(*   main     boots, waits for a signal, announces its leave, stops        *)
(*   loop     Engine.loop: a round at each tick, one Send per target       *)
(*   reader   readLoop: reads the socket and runs the message handler      *)
(*   watcher  the goroutine of Start that closes the transport as soon as  *)
(*            the context is cancelled                                     *)
(*                                                                         *)
(* The lock of the transport is held for a few assignments at a time, so   *)
(* each critical section is a step.  What a handler or a round computes is *)
(* the matter of GossipEngine and Membership; here it only takes time.     *)
(***************************************************************************)
EXTENDS Naturals

CONSTANT MaxTargets   \* bound: peers a round or a leave sends to

ASSUME MaxTargetsAssumption == MaxTargets \in Nat

Senders == {"main", "loop"}
Closers == {"main", "watcher"}

VARIABLES
  main, loop, reader, watcher,  \* where each goroutine is
  send,           \* send[g]: where g is in Transport.Send
  targets,        \* targets[g]: peers g has still to send to
  close,          \* close[g]: where g is in UDPTransport.Close
  signalled,      \* ctx is done: SIGINT or SIGTERM after NotifyContext
  leaveExpired,   \* leaveCtx is done: 500 ms have passed
  transport,      \* "none", then "udp" or "noop"
  nodeState,      \* the collector's NodeState, ready when "engine_started"
  conn,           \* t.conn is set
  closed,         \* t.closed
  done,           \* t.done is closed
  once,           \* closeOnce: "idle", "running", "finished"
  wg,             \* the counter of t.wg
  socket          \* the operating system's socket: "none", "open", "closed"

vars == <<main, loop, reader, watcher, send, targets, close, signalled, leaveExpired,
          transport, nodeState, conn, closed, done, once, wg, socket>>

goroutines == <<loop, reader, watcher>>
sending == <<send, targets>>
closing == <<close, done, once>>
connection == <<conn, closed, wg, socket>>
contexts == <<signalled, leaveExpired>>
setup == <<transport, nodeState>>

Init ==
  /\ main = "bootstrap" /\ loop = "none" /\ reader = "none" /\ watcher = "none"
  /\ send = [g \in Senders |-> "idle"]
  /\ targets = [g \in Senders |-> 0]
  /\ close = [g \in Closers |-> "idle"]
  /\ signalled = FALSE /\ leaveExpired = FALSE
  /\ transport = "none" /\ nodeState = "startup"
  /\ conn = FALSE /\ closed = FALSE /\ done = FALSE /\ once = "idle" /\ wg = 0
  /\ socket = "none"

\* The process is there; when main returns, panics or is killed, every
\* goroutine is gone.
Alive == main \notin {"exited", "killed"}

\* signal.NotifyContext has been called.
Notified == main \notin {"bootstrap", "transport", "notify"}

-----------------------------------------------------------------------------
(* main: the boot *)

\* membership.Bootstrap has returned.
Bootstrapped ==
  /\ main = "bootstrap"
  /\ main' = "transport"
  /\ nodeState' = "bootstrap_completed"
  /\ UNCHANGED <<goroutines, sending, closing, contexts, transport, connection>>

\* NewUDPTransport, or the no-op transport when the address is not valid.
InitTransport ==
  /\ main = "transport"
  /\ main' = "notify"
  /\ transport' \in {"udp", "noop"}
  /\ nodeState' = "transport_initialized"
  /\ UNCHANGED <<goroutines, sending, closing, contexts, connection>>

\* The engine is built and signals are caught from here on.
NotifyContext ==
  /\ main = "notify"
  /\ main' = "start"
  /\ UNCHANGED <<goroutines, sending, closing, contexts, setup, connection>>

\* Transport.Start: open the socket; main panics when that fails.
Listen ==
  /\ main = "start" /\ transport = "udp"
  /\ \/ /\ main' = "spawn_reader"
        /\ conn' = TRUE /\ socket' = "open"
     \/ /\ main' = "killed"
        /\ UNCHANGED <<conn, socket>>
  /\ UNCHANGED <<goroutines, sending, closing, contexts, setup, closed, wg>>

ListenNoop ==
  /\ main = "start" /\ transport = "noop"
  /\ main' = "spawn_loop"
  /\ UNCHANGED <<goroutines, sending, closing, contexts, setup, connection>>

SpawnReader ==
  /\ main = "spawn_reader"
  /\ main' = "spawn_watcher"
  /\ wg' = wg + 1
  /\ reader' = "polling"
  /\ UNCHANGED <<loop, watcher, sending, closing, contexts, setup, conn, closed, socket>>

SpawnWatcher ==
  /\ main = "spawn_watcher"
  /\ main' = "spawn_loop"
  /\ watcher' = "waiting"
  /\ UNCHANGED <<loop, reader, sending, closing, contexts, setup, connection>>

SpawnLoop ==
  /\ main = "spawn_loop"
  /\ main' = "started"
  /\ loop' = "waiting"
  /\ UNCHANGED <<reader, watcher, sending, closing, contexts, setup, connection>>

\* AdvanceNodeState(NodeStateEngineStarted): the node is ready.
EngineStarted ==
  /\ main = "started"
  /\ main' = "serving"
  /\ nodeState' = "engine_started"
  /\ UNCHANGED <<goroutines, sending, closing, contexts, transport, connection>>

-----------------------------------------------------------------------------
(* Transport.Send, by main (leaveCtx) and by the loop (ctx) *)

Expired(g) == IF g = "main" THEN leaveExpired ELSE signalled

\* Mutant: the context is not looked at before the write.
MutContextDone(g) == FALSE

\* ctx.Done, before DialContext and before each write.
ContextDone(g) == Expired(g)

\* Mutant: the last target is not recognised.
MutSendReturns(g) ==
  /\ targets' = [targets EXCEPT ![g] = @ - 1]
  /\ send' = [send EXCEPT ![g] = IF targets[g] = 0 THEN "idle" ELSE "check"]

\* Send returns, with or without error: the caller turns to its next target.
SendReturns(g) ==
  /\ targets' = [targets EXCEPT ![g] = @ - 1]
  /\ send' = [send EXCEPT ![g] = IF targets[g] = 1 THEN "idle" ELSE "check"]

SendAt(g, at) == send' = [send EXCEPT ![g] = at] /\ UNCHANGED targets

\* Send on a closed transport fails; the no-op transport has nothing to do.
CheckClosed(g) ==
  /\ send[g] = "check"
  /\ IF closed \/ transport = "noop" THEN SendReturns(g) ELSE SendAt(g, "snapshot")

\* Without a connection Send dials a one-shot socket.
SnapshotConn(g) ==
  /\ send[g] = "snapshot"
  /\ SendAt(g, IF conn THEN "persistent" ELSE "dial")

\* DialContext, or the select before WriteTo.
CheckContext(g) ==
  /\ send[g] \in {"persistent", "dial"}
  /\ IF ContextDone(g) THEN SendReturns(g)
     ELSE SendAt(g, IF send[g] = "dial" THEN "write_fresh" ELSE "write_socket")

\* The write puts the datagram on the network, unless it fails; it always
\* fails on a persistent socket closed in the meantime.
Write(g) ==
  /\ send[g] \in {"write_socket", "write_fresh"}
  /\ SendReturns(g)

SendStep(g) ==
  /\ Alive
  /\ CheckClosed(g) \/ SnapshotConn(g) \/ CheckContext(g) \/ Write(g)
  /\ UNCHANGED <<main, goroutines, closing, contexts, setup, connection>>

\* Give g a set of targets to send to, one after the other.
SendTo(g, k) ==
  /\ targets' = [targets EXCEPT ![g] = k]
  /\ send' = [send EXCEPT ![g] = IF k = 0 THEN "idle" ELSE "check"]

-----------------------------------------------------------------------------
(* The loop and the reader *)

\* A tick: the ticker may win over a context that is done, and Stop does not
\* drain a tick that has fired.
StartRound ==
  /\ Alive
  /\ loop = "waiting"
  /\ loop' = "round"
  /\ \E k \in 0 .. MaxTargets : SendTo("loop", k)
  /\ UNCHANGED <<main, reader, watcher, closing, contexts, setup, connection>>

EndRound ==
  /\ Alive
  /\ loop = "round" /\ send["loop"] = "idle"
  /\ loop' = "waiting"
  /\ UNCHANGED <<main, reader, watcher, sending, closing, contexts, setup, connection>>

LoopEnds ==
  /\ Alive
  /\ loop = "waiting" /\ signalled
  /\ loop' = "ended"
  /\ UNCHANGED <<main, reader, watcher, sending, closing, contexts, setup, connection>>

ReaderTo(from, to) ==
  /\ Alive
  /\ reader = from
  /\ reader' = to
  /\ UNCHANGED <<main, loop, watcher, sending, closing, contexts, setup, conn, closed, socket>>

\* Mutant: readLoop does not look whether it has to end.
MutPoll == ReaderTo("polling", "reading") /\ UNCHANGED wg

\* The head of readLoop: return, or read with a deadline of 250 ms.
Poll ==
  /\ ReaderTo("polling", IF signalled \/ closed \/ ~ conn THEN "returning" ELSE "reading")
  /\ UNCHANGED wg

\* A datagram has arrived; the handler runs, whatever happens meanwhile.
ReadDatagram == socket = "open" /\ ReaderTo("reading", "handling") /\ UNCHANGED wg

HandlerReturns == ReaderTo("handling", "polling") /\ UNCHANGED wg

\* Mutant: readLoop gives up at the first error.
MutReadFails == ReaderTo("reading", "returning") /\ UNCHANGED wg

\* The deadline, a closed socket, or another error: back to the head.
ReadFails == ReaderTo("reading", "polling") /\ UNCHANGED wg

\* defer t.wg.Done()
ReaderDone == ReaderTo("returning", "ended") /\ wg' = wg - 1

-----------------------------------------------------------------------------
(* UDPTransport.Close, by the watcher and by main *)

EnterClose(g) == close' = [close EXCEPT ![g] = "once"]

CloseTo(g, at) == close' = [close EXCEPT ![g] = at]

\* closeOnce.Do: the first caller runs the body; a second one waits until it
\* has been run.
MarkClosed(g) ==
  /\ close[g] = "once" /\ once = "idle"
  /\ once' = "running"
  /\ closed' = TRUE
  /\ conn' = FALSE
  /\ CloseTo(g, "signal")
  /\ UNCHANGED <<done, wg, socket>>

AlreadyClosed(g) ==
  /\ close[g] = "once" /\ once = "finished"
  /\ CloseTo(g, "wait")
  /\ UNCHANGED <<once, closed, conn, done, wg, socket>>

SignalDone(g) ==
  /\ close[g] = "signal"
  /\ done' = TRUE
  /\ CloseTo(g, "socket")
  /\ UNCHANGED <<once, closed, conn, wg, socket>>

\* conn.Close(); the body of the Do is over.
CloseSocket(g) ==
  /\ close[g] = "socket"
  /\ socket' = IF socket = "open" THEN "closed" ELSE socket
  /\ once' = "finished"
  /\ CloseTo(g, "wait")
  /\ UNCHANGED <<closed, conn, done, wg>>

\* Mutant: Close does not wait for the goroutines.
MutWaitReaders(g) ==
  /\ close[g] = "wait"
  /\ CloseTo(g, "returned")
  /\ UNCHANGED <<once, closed, conn, done, wg, socket>>

\* t.wg.Wait()
WaitReaders(g) ==
  /\ close[g] = "wait" /\ wg = 0
  /\ CloseTo(g, "returned")
  /\ UNCHANGED <<once, closed, conn, done, wg, socket>>

CloseStep(g) ==
  /\ Alive
  /\ MarkClosed(g) \/ AlreadyClosed(g) \/ SignalDone(g) \/ CloseSocket(g) \/ WaitReaders(g)
  /\ UNCHANGED <<main, goroutines, sending, contexts, setup>>

\* ctx.Done wakes the watcher, and so does the end of a Close by main.
WatcherCloses ==
  /\ Alive
  /\ watcher = "waiting" /\ signalled
  /\ watcher' = "closing"
  /\ EnterClose("watcher")
  /\ UNCHANGED <<main, loop, reader, sending, done, once, contexts, setup, connection>>

WatcherEnds ==
  /\ Alive
  /\ \/ watcher = "waiting" /\ done
     \/ watcher = "closing" /\ close["watcher"] = "returned"
  /\ watcher' = "ended"
  /\ UNCHANGED <<main, loop, reader, sending, closing, contexts, setup, connection>>

-----------------------------------------------------------------------------
(* main: the shutdown *)

\* <-ctx.Done(), then AnnounceLeave chooses its targets.
AnnounceLeave ==
  /\ main = "serving" /\ signalled
  /\ main' = "leaving"
  /\ \E k \in 0 .. MaxTargets : SendTo("main", k)
  /\ UNCHANGED <<goroutines, closing, contexts, setup, connection>>

\* SetNodeState(NodeStateShutdown)
LeaveAnnounced ==
  /\ main = "leaving" /\ send["main"] = "idle"
  /\ main' = "reporting"
  /\ nodeState' = "shutdown"
  /\ UNCHANGED <<goroutines, sending, closing, contexts, transport, connection>>

\* Engine.Stop: Close of the no-op transport returns at once.
Stop ==
  /\ main = "reporting"
  /\ \/ transport = "udp" /\ main' = "stopping" /\ EnterClose("main")
     \/ transport = "noop" /\ main' = "stopped" /\ UNCHANGED close
  /\ UNCHANGED <<goroutines, sending, done, once, contexts, setup, connection>>

Stopped ==
  /\ main = "stopping" /\ close["main"] = "returned"
  /\ main' = "stopped"
  /\ UNCHANGED <<goroutines, sending, closing, contexts, setup, connection>>

\* The HTTP server is given five seconds, then main returns.
Exit ==
  /\ main = "stopped"
  /\ main' = "exited"
  /\ UNCHANGED <<goroutines, sending, closing, contexts, setup, connection>>

-----------------------------------------------------------------------------
(* Environment *)

\* SIGINT or SIGTERM: kills the process until NotifyContext is called.
Signal ==
  /\ Alive /\ ~ signalled
  /\ IF Notified THEN signalled' = TRUE /\ UNCHANGED main
                 ELSE main' = "killed" /\ UNCHANGED signalled
  /\ UNCHANGED <<goroutines, sending, closing, leaveExpired, setup, connection>>

\* 500 ms have passed since the leave began.
LeaveTimeout ==
  /\ main = "leaving" /\ ~ leaveExpired
  /\ leaveExpired' = TRUE
  /\ UNCHANGED <<main, goroutines, sending, closing, signalled, setup, connection>>

-----------------------------------------------------------------------------
(* Specifications *)

Boot ==
  \/ Bootstrapped \/ InitTransport \/ NotifyContext
  \/ Listen \/ ListenNoop \/ SpawnReader \/ SpawnWatcher \/ SpawnLoop \/ EngineStarted

Shutdown == AnnounceLeave \/ LeaveAnnounced \/ Stop \/ Stopped \/ Exit

Main == Boot \/ Shutdown \/ SendStep("main") \/ CloseStep("main")

Loop == StartRound \/ EndRound \/ LoopEnds \/ SendStep("loop")

Reader == Poll \/ ReadDatagram \/ HandlerReturns \/ ReadFails \/ ReaderDone

Watcher == WatcherCloses \/ WatcherEnds \/ CloseStep("watcher")

\* The process has ended.
Terminated == ~ Alive /\ UNCHANGED vars

Next == Main \/ Loop \/ Reader \/ Watcher \/ Signal \/ LeaveTimeout \/ Terminated

Spec == Init /\ [][Next]_vars

\* The scheduler runs every goroutine that is ready; a read returns at its
\* deadline and a handler returns.  Nothing forces a signal.
Fairness == WF_vars(Main) /\ WF_vars(Loop) /\ WF_vars(Reader) /\ WF_vars(Watcher)

FairSpec == Spec /\ Fairness

-----------------------------------------------------------------------------
(* Properties *)

MainStates ==
  {"bootstrap", "transport", "notify", "start", "spawn_reader", "spawn_watcher",
   "spawn_loop", "started", "serving", "leaving", "reporting", "stopping", "stopped",
   "exited", "killed"}

ControlOK ==
  /\ main \in MainStates
  /\ loop \in {"none", "waiting", "round", "ended"}
  /\ reader \in {"none", "polling", "reading", "handling", "returning", "ended"}
  /\ watcher \in {"none", "waiting", "closing", "ended"}
  /\ send \in [Senders -> {"idle", "check", "snapshot", "persistent", "dial",
                           "write_socket", "write_fresh"}]
  /\ targets \in [Senders -> 0 .. MaxTargets]
  /\ close \in [Closers -> {"idle", "once", "signal", "socket", "wait", "returned"}]
  /\ transport \in {"none", "udp", "noop"}
  /\ nodeState \in {"startup", "bootstrap_completed", "transport_initialized",
                    "engine_started", "shutdown"}
  /\ once \in {"idle", "running", "finished"}
  /\ wg \in 0 .. 1
  /\ socket \in {"none", "open", "closed"}

FlagsOK ==
  /\ signalled \in BOOLEAN /\ leaveExpired \in BOOLEAN
  /\ conn \in BOOLEAN /\ closed \in BOOLEAN /\ done \in BOOLEAN

\* Every variable has the values of the Go field or goroutine it stands for.
TypeOK == ControlOK /\ FlagsOK

\* Engine.Stop has returned in main.
HasStopped == main \in {"stopped", "exited"}

\* "Close rilascia le risorse in modo idempotente e attende la chiusura delle
\* goroutine": when Stop returns, whichever of main and the watcher ran the
\* body of Close, no handler runs any more and the socket is released.
StopReleases ==
  HasStopped /\ transport = "udp" =>
    reader = "ended" /\ socket = "closed" /\ ~ conn /\ closed

\* While /ready answers 200 and no signal has come, a node with a transport
\* receives and gossips: no read error and no shutdown path has ended its
\* reader or its loop, or closed its socket.
ReadyServes ==
  nodeState = "engine_started" /\ ~ signalled =>
    /\ loop \in {"waiting", "round"}
    /\ transport = "udp" =>
         socket = "open" /\ conn /\ reader \in {"polling", "reading", "handling"}

\* Main does not wait for the loop, yet no round, and no fallback to a fresh
\* socket, puts a datagram on the network once Stop has returned.
NothingSentAfterStop ==
  HasStopped => \A g \in Senders :
    /\ send[g] # "write_fresh"
    /\ send[g] = "write_socket" => socket = "closed"

\* A signal always ends the process: no order in which main, the watcher and
\* the reader reach Close leaves one of them waiting for ever.
ExitsAfterSignal == signalled ~> ~ Alive

\* "inviare almeno un messaggio gossip ai peer eleggibili prima dello shutdown
\* del transport": while targets are left and its 500 ms are not over,
\* the leave is not refused by the node's own transport.
LeaveBeforeShutdown == send["main"] # "idle" /\ ~ leaveExpired => ~ closed
=============================================================================
