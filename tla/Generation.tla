----------------------------- MODULE Generation -----------------------------
(***************************************************************************)
(* AllocateGeneration (internal/identity/generation.go): the durable       *)
(* counter that gives every boot of a node its epoch and incarnation.      *)
(*                                                                         *)
(* Several processes may start on the same generation file: a supervisor   *)
(* restarting a node, or two nodes sharing a volume by mistake.  A process *)
(* may die, or a system call may fail, between any two steps; a power loss *)
(* kills every process and leaves at the path some content that it held    *)
(* since its directory was last synced.  A directory that a call has made  *)
(* is an entry of a parent that nobody syncs: a power loss may take it     *)
(* away, with all it holds.                                                *)
(***************************************************************************)
EXTENDS Naturals

CONSTANTS
  Process,         \* the processes that may call AllocateGeneration
  NoProcess,       \* the lock is free
  MaxGeneration,   \* bound, standing for math.MaxUint64
  Empty            \* the content of a file whose data never reached the disk

ASSUME GenerationAssumption ==
  /\ MaxGeneration \in Nat
  /\ Empty \notin Nat
  /\ NoProcess \notin Process

\* 0 stands for a file that does not exist.
Generations == 0 .. MaxGeneration
Contents == Generations \cup {Empty}

VARIABLES
  pc,         \* where each process is in AllocateGeneration
  temp,       \* its temporary file: the generation in it, and whether synced
  lock,       \* the holder of the flock on <path>.lock
  directory,  \* of path: absent, created by a call, or durable
  file,       \* the content of path that processes read
  survivors,  \* the contents of path that a power loss may leave
  latest,     \* history: the last generation allocated in this directory
  allocations \* history: how many were

vars == <<pc, temp, lock, directory, file, survivors, latest, allocations>>

\* The program counters between the acquisition and the release of the lock.
Critical == {"locked", "read", "written", "renamed"}

NoTemp == [generation |-> 0, synced |-> FALSE]

Init ==
  /\ pc = [p \in Process |-> "idle"]
  /\ temp = [p \in Process |-> NoTemp]
  /\ lock = NoProcess
  /\ directory \in {"absent", "durable"}
  /\ file = 0
  /\ survivors = {0}
  /\ latest = 0
  /\ allocations = 0

Goto(p, from, to) == pc[p] = from /\ pc' = [pc EXCEPT ![p] = to]

\* AllocateGeneration makes the directory unless it is there (os.MkdirAll),
\* opens the lock file and waits in flock.
Call(p) ==
  /\ Goto(p, "idle", "waiting")
  /\ directory' = IF directory = "absent" THEN "created" ELSE directory
  /\ UNCHANGED <<temp, lock, file, survivors, latest, allocations>>

\* flock(LOCK_EX) returns.
Acquire(p) ==
  /\ lock = NoProcess
  /\ Goto(p, "waiting", "locked")
  /\ lock' = p
  /\ UNCHANGED <<temp, directory, file, survivors, latest, allocations>>

Release(p) == lock' = IF lock = p THEN NoProcess ELSE lock

\* readGeneration fails on an empty file, and there is no next generation
\* after the largest one: the call returns an error.
Refuse(p) ==
  /\ file \in {Empty, MaxGeneration}
  /\ Goto(p, "locked", "idle")
  /\ Release(p)
  /\ UNCHANGED <<temp, directory, file, survivors, latest, allocations>>

\* Mutant: no check for the largest generation.
MutRead(p) ==
  /\ file # Empty
  /\ Goto(p, "locked", "read")
  /\ temp' = [temp EXCEPT ![p] = [generation |-> file + 1, synced |-> FALSE]]
  /\ UNCHANGED <<lock, directory, file, survivors, latest, allocations>>

\* readGeneration, and next := current + 1.
Read(p) ==
  /\ file \notin {Empty, MaxGeneration}
  /\ Goto(p, "locked", "read")
  /\ temp' = [temp EXCEPT ![p] = [generation |-> file + 1, synced |-> FALSE]]
  /\ UNCHANGED <<lock, directory, file, survivors, latest, allocations>>

\* Mutant: the temporary file is not synced before it is renamed.
MutWrite(p) ==
  /\ Goto(p, "read", "written")
  /\ UNCHANGED <<temp, lock, directory, file, survivors, latest, allocations>>

\* persistGeneration: write the temporary file and sync it.  Until the
\* rename nobody else sees it, so the order of a crash and these calls does
\* not matter.
Write(p) ==
  /\ Goto(p, "read", "written")
  /\ temp' = [temp EXCEPT ![p].synced = TRUE]
  /\ UNCHANGED <<lock, directory, file, survivors, latest, allocations>>

\* os.Rename: atomic for the processes, but not yet durable.
Rename(p) ==
  /\ Goto(p, "written", "renamed")
  /\ file' = temp[p].generation
  /\ survivors' = survivors \cup {IF temp[p].synced THEN temp[p].generation ELSE Empty}
  /\ UNCHANGED <<temp, lock, directory, latest, allocations>>

\* Mutant: the directory is not synced before the generation is returned.
MutSyncDirectory(p) ==
  /\ Goto(p, "renamed", "idle")
  /\ latest' = temp[p].generation
  /\ allocations' = allocations + 1
  /\ temp' = [temp EXCEPT ![p] = NoTemp]
  /\ Release(p)
  /\ UNCHANGED <<directory, file, survivors>>

\* directoryHandle.Sync returns: the generation is allocated, the lock is
\* released and the call returns.  A process that dies before it uses the
\* generation leaves a gap.
SyncDirectory(p) ==
  /\ Goto(p, "renamed", "idle")
  /\ survivors' = {file}
  /\ latest' = temp[p].generation
  /\ allocations' = allocations + 1
  /\ temp' = [temp EXCEPT ![p] = NoTemp]
  /\ Release(p)
  /\ UNCHANGED <<directory, file>>

\* Mutant: the lock is a file that a failed call leaves behind.
MutAbort(p) ==
  /\ pc[p] # "idle"
  /\ pc' = [pc EXCEPT ![p] = "idle"]
  /\ temp' = [temp EXCEPT ![p] = NoTemp]
  /\ UNCHANGED <<lock, directory, file, survivors, latest, allocations>>

\* A system call fails, and the deferred calls release the lock and remove
\* the temporary file; or the process dies, and the kernel releases it.
Abort(p) ==
  /\ pc[p] # "idle"
  /\ pc' = [pc EXCEPT ![p] = "idle"]
  /\ temp' = [temp EXCEPT ![p] = NoTemp]
  /\ Release(p)
  /\ UNCHANGED <<directory, file, survivors, latest, allocations>>

\* The directory, if there is one, is still there after the power loss, and
\* path holds one of the contents it may have on disk.
Survives ==
  /\ file' \in survivors
  /\ directory' = IF directory = "absent" THEN "absent" ELSE "durable"
  /\ UNCHANGED <<latest, allocations>>

\* A directory that was made since the last power loss is gone.
Vanishes ==
  /\ directory = "created"
  /\ directory' = "absent"
  /\ file' = 0
  /\ latest' = 0
  /\ allocations' = 0

\* All processes die.
PowerLoss ==
  /\ Survives \/ Vanishes
  /\ survivors' = {file'}
  /\ pc' = [p \in Process |-> "idle"]
  /\ temp' = [p \in Process |-> NoTemp]
  /\ lock' = NoProcess

\* The steps of a call that has begun.
Proceed(p) == Refuse(p) \/ Read(p) \/ Write(p) \/ Rename(p) \/ SyncDirectory(p)

Next ==
  \/ \E p \in Process : Call(p) \/ Acquire(p) \/ Proceed(p) \/ Abort(p)
  \/ PowerLoss

Spec == Init /\ [][Next]_vars

\* The scheduler runs every process, and the kernel wakes the waiters of a
\* flock in turn.  Nothing forces a call, a failure or a power loss.
Fairness == \A p \in Process : WF_vars(Proceed(p)) /\ SF_vars(Acquire(p))

FairSpec == Spec /\ Fairness

-----------------------------------------------------------------------------
(* Properties *)

TypeOK ==
  /\ pc \in [Process -> {"idle", "waiting"} \cup Critical]
  /\ temp \in [Process -> [generation : Generations, synced : BOOLEAN]]
  /\ lock \in Process \cup {NoProcess}
  /\ directory \in {"absent", "created", "durable"}
  /\ file \in Contents
  /\ survivors \in SUBSET Contents
  /\ latest \in Generations
  /\ allocations \in Nat

\* No crash, failed call or power loss leaves an unreadable generation file,
\* on which every later boot of the node would fail.
StorageReadable == file # Empty /\ Empty \notin survivors

Allocator ==
  INSTANCE GenerationAllocator
    WITH durable <- directory = "durable", latest <- latest,
         allocations <- allocations, Generations <- Generations

\* "Un crash puo' lasciare un salto, mai un riuso", with any interleaving of
\* processes, failures and power losses, in a directory that was there or
\* has outlived a power loss; one that a call has made may be lost once.
AllocatorSpec == Allocator!Spec

\* A call never waits for ever for the lock of one that failed or died.
CallsEnd == \A p \in Process : pc[p] # "idle" ~> pc[p] = "idle"
=============================================================================
