-------------------------- MODULE GenerationProofs --------------------------
(***************************************************************************)
(* Proofs about Generation, for any set of processes and any largest       *)
(* generation.  The inductive invariant Inv says that the holder of the    *)
(* lock works on the successor of what the file holds, and that nothing a  *)
(* power loss may leave is older than the last generation handed out.      *)
(***************************************************************************)
EXTENDS Generation, TLAPS

\* Only the holder of the lock is between its acquisition and its release.
LockInv == \A p \in Process : pc[p] \in Critical => lock = p

\* The temporary file holds the successor of the generation it replaces,
\* and it is on disk before it is renamed.
TempInv ==
  \A p \in Process :
    /\ pc[p] \in {"read", "written"} => temp[p].generation = file + 1
    /\ pc[p] = "written" => temp[p].synced
    /\ pc[p] = "renamed" => temp[p].generation = file /\ latest < file

\* The storage never falls behind what was handed out.
DurableInv == latest <= file /\ \A s \in survivors : latest <= s

Inv == TypeOK /\ StorageReadable /\ LockInv /\ TempInv /\ DurableInv

\* Without unreadable content, what the file holds is a generation.
LEMMA FileIsGeneration ==
  ASSUME Inv
  PROVE  /\ file \in Generations /\ file \in Nat
         /\ latest \in Nat /\ MaxGeneration \in Nat
         /\ \A s \in survivors : s \in Generations /\ s \in Nat
  BY GenerationAssumption DEF Inv, TypeOK, StorageReadable, Contents, Generations

\* Every step keeps the invariant.
LEMMA InvStep ==
  ASSUME Inv, [Next]_vars
  PROVE  Inv'
<1> USE GenerationAssumption DEF Inv
<1>1. ASSUME NEW p \in Process, Call(p)
      PROVE  Inv'
  BY <1>1
  DEF Call, Goto, TypeOK, StorageReadable, LockInv, TempInv, DurableInv, Critical
<1>2. ASSUME NEW p \in Process, Acquire(p)
      PROVE  Inv'
  BY <1>2
  DEF Acquire, Goto, TypeOK, StorageReadable, LockInv, TempInv, DurableInv, Critical
<1>3. ASSUME NEW p \in Process, Refuse(p)
      PROVE  Inv'
  BY <1>3
  DEF Refuse, Goto, Release, TypeOK, StorageReadable, LockInv, TempInv, DurableInv, Critical
<1>4. ASSUME NEW p \in Process, Read(p)
      PROVE  Inv'
  <2>1. file + 1 \in Generations
    BY <1>4, FileIsGeneration DEF Read, Generations
  <2>2. QED
    BY <1>4, <2>1
    DEF Read, Goto, TypeOK, StorageReadable, LockInv, TempInv, DurableInv, Critical
<1>5. ASSUME NEW p \in Process, Write(p)
      PROVE  Inv'
  BY <1>5
  DEF Write, Goto, TypeOK, StorageReadable, LockInv, TempInv, DurableInv, Critical
<1>6. ASSUME NEW p \in Process, Rename(p)
      PROVE  Inv'
  <2>1. /\ file' = temp[p].generation
        /\ file' = file + 1
        /\ survivors' = survivors \cup {file + 1}
        /\ pc[p] = "written" /\ lock = p
    BY <1>6 DEF Rename, Goto, TempInv, LockInv, Critical
  <2>2. file \in Nat /\ latest \in Nat /\ latest < file + 1 /\ file + 1 \in Generations
    <3>1. temp[p].generation \in Generations
      BY DEF TypeOK
    <3>2. latest <= file
      BY DEF DurableInv
    <3>3. QED BY <2>1, <3>1, <3>2, FileIsGeneration
  <2>3. TypeOK' /\ StorageReadable'
    BY <1>6, <2>1, <2>2
    DEF Rename, Goto, TypeOK, StorageReadable, Contents, Critical, Generations
  <2>4. LockInv' /\ TempInv'
    BY <1>6, <2>1, <2>2 DEF Rename, Goto, TypeOK, LockInv, TempInv, Critical
  <2>5. DurableInv'
    BY <1>6, <2>1, <2>2 DEF Rename, DurableInv
  <2>6. QED BY <2>3, <2>4, <2>5
<1>7. ASSUME NEW p \in Process, SyncDirectory(p)
      PROVE  Inv'
  <2>1. pc[p] = "renamed" /\ lock = p /\ temp[p].generation = file
    BY <1>7 DEF SyncDirectory, Goto, TempInv, LockInv, Critical
  <2>2. TypeOK' /\ StorageReadable'
    BY <1>7, <2>1, FileIsGeneration
    DEF SyncDirectory, Goto, Release, TypeOK, StorageReadable, NoTemp, Critical, Generations, Contents
  <2>3. LockInv' /\ TempInv'
    BY <1>7, <2>1, FileIsGeneration
    DEF SyncDirectory, Goto, Release, TypeOK, LockInv, TempInv, Critical
  <2>4. DurableInv'
    BY <1>7, <2>1, FileIsGeneration DEF SyncDirectory, DurableInv
  <2>5. QED BY <2>2, <2>3, <2>4
<1>8. ASSUME NEW p \in Process, Abort(p)
      PROVE  Inv'
  BY <1>8
  DEF Abort, Release, TypeOK, StorageReadable, LockInv, TempInv, DurableInv, NoTemp,
      Critical, Generations
<1>9. ASSUME PowerLoss
      PROVE  Inv'
  <2>1. /\ survivors' = {file'} /\ lock' = NoProcess
        /\ pc' = [p \in Process |-> "idle"] /\ temp' = [p \in Process |-> NoTemp]
    BY <1>9 DEF PowerLoss
  <2>2. /\ file' \in Generations /\ latest' \in Generations /\ latest' <= file'
        /\ directory' \in {"absent", "created", "durable"} /\ allocations' \in Nat
    <3>1. CASE Survives
      BY <3>1, FileIsGeneration DEF Survives, TypeOK, DurableInv
    <3>2. CASE Vanishes
      BY <3>2 DEF Vanishes, Generations
    <3>3. QED BY <1>9, <3>1, <3>2 DEF PowerLoss
  <2>3. QED BY <2>1, <2>2
        DEF TypeOK, StorageReadable, LockInv, TempInv, DurableInv, NoTemp, Critical,
            Generations, Contents
<1>10. CASE UNCHANGED vars
  BY <1>10 DEF vars, TypeOK, StorageReadable, LockInv, TempInv, DurableInv
<1>11. QED
  BY <1>1, <1>2, <1>3, <1>4, <1>5, <1>6, <1>7, <1>8, <1>9, <1>10 DEF Next, Proceed

\* The inductive invariant holds of every reachable state.
LEMMA Invariance == Spec => []Inv
<1>1. Init => Inv
  BY GenerationAssumption
  DEF Init, Inv, TypeOK, StorageReadable, LockInv, TempInv, DurableInv, NoTemp,
      Critical, Generations, Contents
<1>2. Inv /\ [Next]_vars => Inv'
  BY InvStep
<1>3. QED BY <1>1, <1>2, PTL DEF Spec

\* TypeOK: whatever calls, failures and power losses happen, AllocateGeneration
\* writes and returns generations only.
THEOREM GenerationTypes == Spec => []TypeOK
<1>1. Inv => TypeOK
  BY DEF Inv
<1>2. QED BY <1>1, Invariance, PTL

\* StorageReadable, for any number of processes: the order write, sync,
\* rename never leaves an empty generation file behind.
THEOREM StorageStaysReadable == Spec => []StorageReadable
<1>1. Inv => StorageReadable
  BY DEF Inv
<1>2. QED BY <1>1, Invariance, PTL

\* A power loss loses a directory that a call has made, or leaves it durable.
LEMMA PowerLossSteps ==
  ASSUME TypeOK, PowerLoss
  PROVE  Allocator!Next \/ UNCHANGED <<directory, latest, allocations>>
<1>1. CASE Survives
  <2>1. /\ latest' = latest /\ allocations' = allocations
        /\ directory' = IF directory = "absent" THEN "absent" ELSE "durable"
    BY <1>1 DEF Survives
  <2>2. CASE directory = "absent"
    BY <2>1, <2>2
  <2>3. CASE directory # "absent"
    BY <2>1, <2>3 DEF Allocator!Settle, Allocator!Next
  <2>4. QED BY <2>2, <2>3
<1>2. CASE Vanishes
  BY <1>2 DEF Vanishes, Allocator!Forget, Allocator!Next
<1>3. QED BY <1>1, <1>2 DEF PowerLoss

\* AllocatorSpec: with any number of processes, any failures and any power
\* losses, each generation handed out is greater than all those that the same
\* directory handed out before it.  A directory is lost with what it handed
\* out only if a call has made it and no power loss has spared it since.
THEOREM GenerationRefinesAllocator == Spec => AllocatorSpec
<1>1. Init => Allocator!Init
  BY DEF Init, Allocator!Init
<1>2. ASSUME Inv, [Next]_vars
      PROVE  [Allocator!Next]_Allocator!vars
  <2>1. ASSUME NEW p \in Process, SyncDirectory(p)
        PROVE  Allocator!Next
    <3>1. pc[p] = "renamed"
      BY <2>1 DEF SyncDirectory, Goto
    <3>2. temp[p].generation = file /\ latest < file /\ file \in Generations
      BY <1>2, <3>1, FileIsGeneration DEF Inv, TempInv
    <3>3. Allocator!Allocate(file)
      BY <2>1, <3>2 DEF SyncDirectory, Allocator!Allocate
    <3>4. QED BY <3>2, <3>3 DEF Allocator!Next
  <2>2. ASSUME NEW p \in Process, Call(p)
        PROVE  UNCHANGED Allocator!vars
    BY <2>2 DEF Call, Allocator!vars
  <2>3. ASSUME PowerLoss
        PROVE  Allocator!Next \/ UNCHANGED Allocator!vars
    BY <1>2, <2>3, PowerLossSteps DEF Inv, Allocator!vars
  <2>4. CASE UNCHANGED <<directory, latest, allocations>>
    BY <2>4 DEF Allocator!vars
  <2>5. QED
    BY <1>2, <2>1, <2>2, <2>3, <2>4
    DEF Next, Proceed, Acquire, Refuse, Read, Write, Rename, Abort, vars
<1>3. QED
  BY <1>1, <1>2, Invariance, PTL DEF Spec, AllocatorSpec, Allocator!Spec

\* "Mai un riuso", in a directory that is there and durable before the first
\* call, such as that of the Docker image: it is never lost, and whatever it
\* hands out is greater than all it has handed out before.
THEOREM ProvisionedNeverReuses ==
  Spec /\ directory = "durable" =>
    [][latest <= latest' /\ (allocations' # allocations => latest < latest')]_vars
<1> DEFINE Kept == directory = "durable"
           Grows == latest <= latest' /\ (allocations' # allocations => latest < latest')
<1>1. Inv /\ Kept /\ [Next]_vars => Kept' /\ [Grows]_vars
  <2> SUFFICES ASSUME Inv, Kept, [Next]_vars
               PROVE  Kept' /\ Grows
    OBVIOUS
  <2>1. latest \in Nat
    BY FileIsGeneration
  <2>2. ASSUME NEW p \in Process, SyncDirectory(p)
        PROVE  Kept' /\ Grows
    <3>1. pc[p] = "renamed" /\ directory' = directory /\ latest' = temp[p].generation
      BY <2>2 DEF SyncDirectory, Goto
    <3>2. temp[p].generation = file /\ latest < file /\ file \in Nat
      BY <3>1, FileIsGeneration DEF Inv, TempInv
    <3>3. QED BY <2>1, <3>1, <3>2
  <2>3. ASSUME PowerLoss
        PROVE  Kept' /\ Grows
    BY <2>1, <2>3 DEF PowerLoss, Survives, Vanishes
  <2>4. ASSUME NEW p \in Process, Call(p)
        PROVE  Kept' /\ Grows
    BY <2>1, <2>4 DEF Call
  <2>5. CASE UNCHANGED <<directory, latest, allocations>>
    BY <2>1, <2>5
  <2>6. QED
    BY <2>2, <2>3, <2>4, <2>5
    DEF Next, Proceed, Acquire, Refuse, Read, Write, Rename, Abort, vars
<1>2. QED BY <1>1, Invariance, PTL DEF Spec
=============================================================================
