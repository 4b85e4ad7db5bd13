-------------------------- MODULE NodeProcessProofs --------------------------
(***************************************************************************)
(* Proofs about NodeProcess, for any number of targets: what the shutdown  *)
(* guarantees and what readiness means.                                    *)
(*                                                                         *)
(* The properties hold for one reason each.  A reader counted in wg ends   *)
(* before Close returns; nothing but a signal leads to a Close, a return   *)
(* of readLoop or the end of the loop; a connection is missing only when   *)
(* the transport was closed, hence after a signal, so that the fallback of *)
(* the loop always finds its context cancelled.                            *)
(***************************************************************************)
EXTENDS NodeProcess, TLAPS

\* Main has opened the socket or taken the no-op transport.
Started == {"started", "serving", "leaving", "reporting", "stopping", "stopped", "exited"}
Listened == {"spawn_reader", "spawn_watcher", "spawn_loop"} \cup Started

Reading == {"polling", "reading", "handling", "returning"}

\* Where main has been: which goroutines run, and what a signal has led to.
MainInv ==
  /\ signalled => Notified
  /\ main \in {"leaving", "reporting", "stopping", "stopped", "exited"} => signalled
  /\ main \in Listened => transport \in {"udp", "noop"}
  /\ loop # "none" <=> main \in Started
  /\ loop = "ended" => signalled
  /\ nodeState = "engine_started" => main \in {"serving", "leaving"}

\* The transport: its flags agree, and only a signal closes it.
TransportInv ==
  /\ transport # "udp" => reader = "none" /\ watcher = "none" /\ ~ closed
  /\ transport = "udp" /\ main \in Listened =>
       /\ conn <=> ~ closed
       /\ once = "idle" <=> ~ closed
       /\ socket = (IF once = "finished" THEN "closed" ELSE "open")
  /\ main \notin Listened => ~ closed /\ once = "idle" /\ reader = "none" /\ watcher = "none"
  /\ closed => signalled

\* The reader is counted as long as it runs, and returns after a signal only.
ReaderInv ==
  /\ wg = (IF reader \in Reading THEN 1 ELSE 0)
  /\ transport = "udp" /\ main \in Listened \ {"spawn_reader"} => reader # "none"
  /\ main \in {"spawn_reader", "spawn_watcher"} => transport = "udp"
  /\ main = "spawn_reader" => reader = "none"
  /\ reader \in {"returning", "ended"} => signalled

\* Who is in Close, and what it has already done.
CloseInv ==
  /\ close["main"] # "idle" => main \in {"stopping", "stopped", "exited"} /\ transport = "udp"
  /\ close["watcher"] # "idle" => watcher \in {"closing", "ended"} /\ signalled
  /\ watcher # "none" => main \in {"spawn_loop"} \cup Started
  /\ watcher = "closing" => signalled
  /\ \A g \in Closers : /\ close[g] \in {"signal", "socket"} => once # "idle"
                        /\ close[g] \in {"wait", "returned"} => once = "finished"
                        /\ close[g] = "returned" => wg = 0
  /\ HasStopped /\ transport = "udp" => close["main"] = "returned"

\* Who is in Send: the loop never gets a fresh socket.
SendInv ==
  /\ send["main"] # "idle" => main = "leaving"
  /\ send["loop"] # "idle" => loop = "round"
  /\ send["loop"] = "dial" => signalled
  /\ send["loop"] # "write_fresh"
  /\ \A g \in Senders : /\ send[g] # "idle" => targets[g] > 0
                        /\ send[g] \notin {"idle", "check"} => transport = "udp"

IInv == TypeOK /\ MainInv /\ TransportInv /\ ReaderInv /\ CloseInv /\ SendInv

\* What a step in Send, or in Close, leaves alone.
SendFrame == UNCHANGED <<main, goroutines, closing, contexts, setup, connection>>
CloseFrame == UNCHANGED <<main, goroutines, sending, contexts, setup>>

-----------------------------------------------------------------------------
(* The invariant is inductive *)

\* A process that has not started has no transport, no goroutine but main,
\* and nobody in Send or Close.
LEMMA InitIInv == Init => IInv
<1> USE MaxTargetsAssumption DEF Init, Senders, Closers
<1>1. ASSUME Init PROVE TypeOK
  <2>1. send \in [Senders -> {"idle", "check", "snapshot", "persistent", "dial",
                              "write_socket", "write_fresh"}]
    BY <1>1
  <2>2. targets \in [Senders -> 0 .. MaxTargets]
    BY <1>1
  <2>3. close \in [Closers -> {"idle", "once", "signal", "socket", "wait", "returned"}]
    BY <1>1
  <2> QED
    <3>1. ControlOK
      BY <1>1, <2>1, <2>2, <2>3 DEF ControlOK, MainStates
    <3>2. FlagsOK
      BY <1>1, Zenon DEF FlagsOK
    <3> QED
      BY <3>1, <3>2 DEF TypeOK
<1>2. Init => MainInv /\ TransportInv /\ ReaderInv /\ CloseInv /\ SendInv
  BY DEF MainInv, TransportInv, ReaderInv, CloseInv, SendInv, Notified, Listened, Started,
         Reading, HasStopped
<1> QED
  BY <1>1, <1>2 DEF IInv

\* The boot starts each goroutine after what it relies on is in place.
LEMMA BootStep == IInv /\ Boot => IInv'
<1> USE MaxTargetsAssumption
    DEF IInv, TypeOK, ControlOK, FlagsOK, MainInv, TransportInv, ReaderInv, CloseInv, SendInv,
        MainStates, Notified, Listened, Started, Reading, HasStopped, Senders, Closers,
        goroutines, sending, closing, connection, contexts, setup
<1>1. IInv /\ Bootstrapped => IInv'
  BY DEF Bootstrapped
<1>2. IInv /\ InitTransport => IInv'
  BY DEF InitTransport
<1>3. IInv /\ NotifyContext => IInv'
  BY DEF NotifyContext
<1>4. ASSUME IInv, Listen PROVE IInv'
  <2>1. TypeOK'
    BY <1>4 DEF Listen
  <2>2. MainInv'
    BY <1>4 DEF Listen
  <2>3. TransportInv'
    BY <1>4 DEF Listen
  <2>4. ReaderInv'
    BY <1>4 DEF Listen
  <2>5. CloseInv'
    BY <1>4 DEF Listen
  <2>6. SendInv'
    BY <1>4 DEF Listen
  <2> QED
    BY <2>1, <2>2, <2>3, <2>4, <2>5, <2>6 DEF IInv
<1>5. IInv /\ ListenNoop => IInv'
  BY DEF ListenNoop
<1>6. IInv /\ SpawnReader => IInv'
  BY DEF SpawnReader
<1>7. ASSUME IInv, SpawnWatcher PROVE IInv'
  <2>1. TypeOK'
    <3>1. ControlOK'
      BY <1>7 DEF SpawnWatcher
    <3>2. signalled' = signalled /\ leaveExpired' = leaveExpired /\ conn' = conn
            /\ closed' = closed /\ done' = done
      BY <1>7 DEF SpawnWatcher
    <3>3. FlagsOK
      BY <1>7
    <3>4. FlagsOK'
      BY <3>2, <3>3, Zenon DEF FlagsOK
    <3> QED
      BY <3>1, <3>4 DEF TypeOK
  <2>2. MainInv'
    BY <1>7 DEF SpawnWatcher
  <2>3. TransportInv'
    BY <1>7 DEF SpawnWatcher
  <2>4. ReaderInv'
    BY <1>7 DEF SpawnWatcher
  <2>5. CloseInv'
    BY <1>7 DEF SpawnWatcher
  <2>6. SendInv'
    BY <1>7 DEF SpawnWatcher
  <2> QED
    BY <2>1, <2>2, <2>3, <2>4, <2>5, <2>6 DEF IInv
<1>8. IInv /\ SpawnLoop => IInv'
  BY DEF SpawnLoop
<1>9. IInv /\ EngineStarted => IInv'
  BY DEF EngineStarted
<1> QED
  BY <1>1, <1>2, <1>3, <1>4, <1>5, <1>6, <1>7, <1>8, <1>9 DEF Boot

\* The shutdown runs after a signal only.
LEMMA ShutdownStep == IInv /\ Shutdown => IInv'
<1> USE MaxTargetsAssumption
    DEF IInv, TypeOK, ControlOK, FlagsOK, MainInv, TransportInv, ReaderInv, CloseInv, SendInv,
        MainStates, Notified, Listened, Started, Reading, HasStopped, Senders, Closers,
        goroutines, sending, closing, connection, contexts, setup
<1>1. IInv /\ AnnounceLeave => IInv'
  BY DEF AnnounceLeave, SendTo
<1>2. IInv /\ LeaveAnnounced => IInv'
  BY DEF LeaveAnnounced
<1>3. IInv /\ Stop => IInv'
  BY DEF Stop, EnterClose
<1>4. IInv /\ Stopped => IInv'
  BY DEF Stopped
<1>5. IInv /\ Exit => IInv'
  BY DEF Exit
<1> QED
  BY <1>1, <1>2, <1>3, <1>4, <1>5 DEF Shutdown

\* The reader is counted until it ends, and does not end by itself.
LEMMA ReaderStep == IInv /\ Reader => IInv'
<1> USE MaxTargetsAssumption
    DEF IInv, TypeOK, ControlOK, FlagsOK, MainInv, TransportInv, ReaderInv, CloseInv, SendInv,
        MainStates, Notified, Listened, Started, Reading, HasStopped, Senders, Closers,
        goroutines, sending, closing, connection, contexts, setup
<1>1. IInv /\ Poll => IInv'
  BY DEF Poll, ReaderTo, Alive
<1>2. IInv /\ ReadDatagram => IInv'
  BY DEF ReadDatagram, ReaderTo, Alive
<1>3. IInv /\ HandlerReturns => IInv'
  BY DEF HandlerReturns, ReaderTo, Alive
<1>4. IInv /\ ReadFails => IInv'
  BY DEF ReadFails, ReaderTo, Alive
<1>5. IInv /\ ReaderDone => IInv'
  BY DEF ReaderDone, ReaderTo, Alive
<1> QED
  BY <1>1, <1>2, <1>3, <1>4, <1>5 DEF Reader

\* Neither main nor the loop reaches a fresh socket once Close has begun:
\* for the loop, a missing connection means that its context is done.
LEMMA SendStepOK == ASSUME NEW g \in Senders PROVE IInv /\ SendStep(g) => IInv'
<1> USE MaxTargetsAssumption
    DEF IInv, TypeOK, ControlOK, FlagsOK, MainInv, TransportInv, ReaderInv, CloseInv, SendInv,
        MainStates, Notified, Listened, Started, Reading, HasStopped, Senders, Closers,
        goroutines, sending, closing, connection, contexts, setup
<1>1. IInv /\ Alive /\ CheckClosed(g) /\ SendFrame => IInv'
  BY DEF SendFrame, CheckClosed, SendReturns, SendAt, Alive
<1>2. IInv /\ Alive /\ SnapshotConn(g) /\ SendFrame => IInv'
  BY DEF SendFrame, SnapshotConn, SendAt, Alive
<1>3. IInv /\ Alive /\ CheckContext(g) /\ SendFrame => IInv'
  BY DEF SendFrame, CheckContext, ContextDone, Expired, SendReturns, SendAt, Alive
<1>4. IInv /\ Alive /\ Write(g) /\ SendFrame => IInv'
  BY DEF SendFrame, Write, SendReturns, SendAt, Alive
<1> QED
  BY <1>1, <1>2, <1>3, <1>4 DEF SendStep, SendFrame

\* The body of Close runs once; whoever waits for it finds it finished.
LEMMA CloseStepOK == ASSUME NEW g \in Closers PROVE IInv /\ CloseStep(g) => IInv'
<1> USE MaxTargetsAssumption
    DEF IInv, TypeOK, ControlOK, FlagsOK, MainInv, TransportInv, ReaderInv, CloseInv, SendInv,
        MainStates, Notified, Listened, Started, Reading, HasStopped, Senders, Closers,
        goroutines, sending, closing, connection, contexts, setup
<1>1. ASSUME IInv, Alive, MarkClosed(g), CloseFrame
      PROVE  IInv'
  <2>1. TypeOK'
    <3>1. ControlOK'
      BY <1>1 DEF CloseFrame, MarkClosed, CloseTo, Alive
    <3>2. signalled' = signalled /\ leaveExpired' = leaveExpired /\ conn' = FALSE
          /\ closed' = TRUE /\ done' = done
      BY <1>1 DEF CloseFrame, MarkClosed, CloseTo, Alive
    <3>3. FlagsOK
      BY <1>1
    <3>4. FlagsOK'
      BY <3>2, <3>3, Zenon DEF FlagsOK
    <3> QED
      BY <3>1, <3>4 DEF TypeOK
  <2>2. MainInv'
    BY <1>1 DEF CloseFrame, MarkClosed, CloseTo, Alive
  <2>3. TransportInv'
    BY <1>1 DEF CloseFrame, MarkClosed, CloseTo, Alive
  <2>4. ReaderInv'
    BY <1>1 DEF CloseFrame, MarkClosed, CloseTo, Alive
  <2>5. CloseInv'
    BY <1>1 DEF CloseFrame, MarkClosed, CloseTo, Alive
  <2>6. SendInv'
    BY <1>1 DEF CloseFrame, MarkClosed, CloseTo, Alive
  <2> QED
    BY <2>1, <2>2, <2>3, <2>4, <2>5, <2>6 DEF IInv
<1>2. IInv /\ Alive /\ AlreadyClosed(g) /\ CloseFrame => IInv'
  BY DEF CloseFrame, AlreadyClosed, CloseTo, Alive
<1>3. IInv /\ Alive /\ SignalDone(g) /\ CloseFrame => IInv'
  BY DEF CloseFrame, SignalDone, CloseTo, Alive
<1>4. ASSUME IInv, Alive, CloseSocket(g), CloseFrame PROVE IInv'
  <2>1. TypeOK'
    BY <1>4 DEF CloseFrame, CloseSocket, CloseTo, Alive
  <2>2. MainInv'
    BY <1>4 DEF CloseFrame, CloseSocket, CloseTo, Alive
  <2>3. TransportInv'
    BY <1>4 DEF CloseFrame, CloseSocket, CloseTo, Alive
  <2>4. ReaderInv'
    BY <1>4 DEF CloseFrame, CloseSocket, CloseTo, Alive
  <2>5. CloseInv'
    BY <1>4 DEF CloseFrame, CloseSocket, CloseTo, Alive
  <2>6. SendInv'
    BY <1>4 DEF CloseFrame, CloseSocket, CloseTo, Alive
  <2> QED
    BY <2>1, <2>2, <2>3, <2>4, <2>5, <2>6 DEF IInv
<1>5. IInv /\ Alive /\ WaitReaders(g) /\ CloseFrame => IInv'
  BY DEF CloseFrame, WaitReaders, CloseTo, Alive
<1> QED
  BY <1>1, <1>2, <1>3, <1>4, <1>5 DEF CloseStep, CloseFrame

\* The loop and the watcher end after a signal only.
LEMMA LoopStep == IInv /\ Loop => IInv'
<1> USE MaxTargetsAssumption
    DEF IInv, TypeOK, ControlOK, FlagsOK, MainInv, TransportInv, ReaderInv, CloseInv, SendInv,
        MainStates, Notified, Listened, Started, Reading, HasStopped, Senders, Closers,
        goroutines, sending, closing, connection, contexts, setup
<1>1. IInv /\ StartRound => IInv'
  BY DEF StartRound, SendTo, Alive
<1>2. IInv /\ EndRound => IInv'
  BY DEF EndRound, Alive
<1>3. IInv /\ LoopEnds => IInv'
  BY DEF LoopEnds, Alive
<1>4. IInv /\ SendStep("loop") => IInv'
  BY SendStepOK
<1> QED
  BY <1>1, <1>2, <1>3, <1>4 DEF Loop

\* The watcher enters Close once.
LEMMA WatcherStep == IInv /\ Watcher => IInv'
<1> USE MaxTargetsAssumption
    DEF IInv, TypeOK, ControlOK, FlagsOK, MainInv, TransportInv, ReaderInv, CloseInv, SendInv,
        MainStates, Notified, Listened, Started, Reading, HasStopped, Senders, Closers,
        goroutines, sending, closing, connection, contexts, setup
<1>1. IInv /\ WatcherCloses => IInv'
  BY DEF WatcherCloses, EnterClose, Alive
<1>2. IInv /\ WatcherEnds => IInv'
  BY DEF WatcherEnds, Alive
<1>3. IInv /\ CloseStep("watcher") => IInv'
  BY CloseStepOK
<1> QED
  BY <1>1, <1>2, <1>3 DEF Watcher

\* A signal kills the process before NotifyContext and only cancels the
\* context after it.
LEMMA EnvironmentStep == IInv /\ (Signal \/ LeaveTimeout \/ Terminated) => IInv'
<1> USE MaxTargetsAssumption
    DEF IInv, TypeOK, ControlOK, FlagsOK, MainInv, TransportInv, ReaderInv, CloseInv, SendInv,
        MainStates, Notified, Listened, Started, Reading, HasStopped, Senders, Closers,
        goroutines, sending, closing, connection, contexts, setup
<1>1. ASSUME IInv, Signal PROVE IInv'
  <2>1. TypeOK'
    <3>1. ControlOK'
      BY <1>1 DEF Signal, Alive
    <3>2. (signalled' = signalled \/ signalled' = TRUE) /\ leaveExpired' = leaveExpired
          /\ conn' = conn /\ closed' = closed /\ done' = done
      BY <1>1 DEF Signal, Alive
    <3>3. FlagsOK
      BY <1>1
    <3>4. FlagsOK'
      BY <3>2, <3>3, Zenon DEF FlagsOK
    <3> QED
      BY <3>1, <3>4 DEF TypeOK
  <2>2. MainInv'
    BY <1>1 DEF Signal, Alive
  <2>3. TransportInv'
    BY <1>1 DEF Signal, Alive
  <2>4. ReaderInv'
    BY <1>1 DEF Signal, Alive
  <2>5. CloseInv'
    BY <1>1 DEF Signal, Alive
  <2>6. SendInv'
    BY <1>1 DEF Signal, Alive
  <2> QED
    BY <2>1, <2>2, <2>3, <2>4, <2>5, <2>6 DEF IInv
<1>2. IInv /\ LeaveTimeout => IInv'
  BY DEF LeaveTimeout
<1>3. IInv /\ Terminated => IInv'
  BY DEF Terminated, vars
<1> QED
  BY <1>1, <1>2, <1>3

-----------------------------------------------------------------------------
(* The theorems *)

\* Every step keeps the invariant.
LEMMA NextIInv == IInv /\ [Next]_vars => IInv'
<1>1. IInv /\ Main => IInv'
  <2>1. IInv /\ SendStep("main") => IInv'
    BY SendStepOK DEF Senders
  <2>2. IInv /\ CloseStep("main") => IInv'
    BY CloseStepOK DEF Closers
  <2> QED
    BY <2>1, <2>2, BootStep, ShutdownStep DEF Main
<1>2. IInv /\ UNCHANGED vars => IInv'
  BY EnvironmentStep DEF IInv, TypeOK, ControlOK, MainStates, FlagsOK, MainInv, TransportInv,
     ReaderInv, CloseInv, SendInv, Notified, Listened, Started, Reading, HasStopped, vars
<1> QED
  BY <1>1, <1>2, LoopStep, ReaderStep, WatcherStep, EnvironmentStep DEF Next

\* The invariant holds in every reachable state.
LEMMA Invariance == Spec => []IInv
  BY InitIInv, NextIInv, PTL DEF Spec

\* Type correctness, for any bound on the targets.
THEOREM ProcessTypes == Spec => []TypeOK
<1>1. IInv => TypeOK
  BY DEF IInv
<1> QED
  BY <1>1, Invariance, PTL

\* When Engine.Stop has returned to main, the reader has ended and the socket
\* is released, whoever ran the body of Close.
THEOREM CloseReleases == Spec => []StopReleases
<1>1. IInv => StopReleases
  BY DEF IInv, TransportInv, ReaderInv, CloseInv, StopReleases, HasStopped, Listened, Started,
         TypeOK, ControlOK, Reading, Closers
<1> QED
  BY <1>1, Invariance, PTL

\* A node that answers ready and has had no signal receives and gossips.
THEOREM ReadyMeansServing == Spec => []ReadyServes
<1>1. IInv => ReadyServes
  BY DEF IInv, MainInv, TransportInv, ReaderInv, ReadyServes, Listened, Started,
         TypeOK, ControlOK, Reading
<1> QED
  BY <1>1, Invariance, PTL

\* No goroutine can put a datagram on the network once Stop has returned.
THEOREM SilenceAfterStop == Spec => []NothingSentAfterStop
<1>1. IInv => NothingSentAfterStop
  BY DEF IInv, TransportInv, CloseInv, SendInv, NothingSentAfterStop, HasStopped, Listened,
         Started, TypeOK, ControlOK, Senders, Closers
<1> QED
  BY <1>1, Invariance, PTL
=============================================================================
