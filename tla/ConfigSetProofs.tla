-------------------------- MODULE ConfigSetProofs ---------------------------
(***************************************************************************)
(* Proofs about OpsLock and ConfigSet, for any number of processes, keys   *)
(* and values and any lock timeout: two mutations never run together, nor  *)
(* one beside a dry run which holds the lock; no update is lost, no reader *)
(* sees half a file, and what an update replaces is in a backup.           *)
(*                                                                         *)
(* The argument has two halves.  Every step of ConfigSet is a step of      *)
(* OpsLock or leaves the lock alone, so the lock discipline carries over   *)
(* and at most one process is past its read.  FileInv then relates what    *)
(* that process remembers to the files.                                    *)
(***************************************************************************)
EXTENDS ConfigSet, TLAPS

-----------------------------------------------------------------------------
(* OpsLock.  OneMutation is not inductive: it says nothing of a process    *)
(* that holds the lock without running.  LockInv says that a process holds *)
(* the lock only while it runs and in the mode it asked for, that every    *)
(* running mutation holds it, and that an exclusive holder is alone.       *)
HeldByRunning ==
  \A p \in Procs : held[p] # "none" => phase[p] = "run" /\ held[p] = mode[p]

MutationHolds == \A p \in Procs : Mutating(p) => held[p] = "exclusive"

ExclusiveAlone ==
  \A p, q \in Procs : held[p] = "exclusive" /\ p # q => held[q] = "none"

LockInv == LockTypeOK /\ HeldByRunning /\ MutationHolds /\ ExclusiveAlone

(* The variables keep their types: the code never waits with a negative    *)
(* timeout left, and every command is in one of its phases.                *)
THEOREM LockTypes == Spec => []LockTypeOK
<1>1. LockInit => LockTypeOK
  BY LockAssumption DEF LockInit, LockTypeOK, Modes, Phases
<1>2. LockTypeOK /\ [Next]_lockVars => LockTypeOK'
  <2> SUFFICES ASSUME LockTypeOK, [Next]_lockVars PROVE LockTypeOK'
    OBVIOUS
  <2> USE LockAssumption DEF LockTypeOK, Modes, Phases
  <2>1. ASSUME NEW p \in Procs, NEW m \in Modes, Begin(p, m) PROVE LockTypeOK'
    BY <2>1 DEF Begin
  <2>2. ASSUME NEW p \in Procs, CheckLockFile(p) PROVE LockTypeOK'
    BY <2>2 DEF CheckLockFile
  <2>3. ASSUME NEW p \in Procs, Open(p) PROVE LockTypeOK'
    BY <2>3 DEF Open
  <2>4. ASSUME NEW p \in Procs, TryGranted(p) PROVE LockTypeOK'
    BY <2>4 DEF TryGranted
  <2>5. ASSUME NEW p \in Procs, TryBusy(p) PROVE LockTypeOK'
    BY <2>5 DEF TryBusy
  <2>6. ASSUME NEW p \in Procs, Finish(p) \/ Die(p) PROVE LockTypeOK'
    BY <2>6 DEF Finish, Die, Release
  <2>7. CASE UNCHANGED lockVars
    BY <2>7 DEF lockVars
  <2> QED
    BY <2>1, <2>2, <2>3, <2>4, <2>5, <2>6, <2>7 DEF Next, Acquire
<1> QED
  BY <1>1, <1>2, PTL DEF Spec

(* Granting an exclusive lock finds no other holder, granting a shared one *)
(* finds no exclusive holder.                                              *)
LEMMA GrantKeepsAlone ==
  ASSUME LockInv, NEW p \in Procs, TryGranted(p)
  PROVE  ExclusiveAlone'
<1> SUFFICES ASSUME NEW q \in Procs, NEW r \in Procs,
                    held'[q] = "exclusive", q # r
             PROVE  held'[r] = "none"
  BY DEF ExclusiveAlone
<1> USE DEF LockInv, LockTypeOK, TryGranted, Grants, Modes
<1>1. CASE q = p
  BY <1>1
<1>2. CASE r = p
  BY <1>2
<1>3. CASE q # p /\ r # p
  BY <1>3 DEF ExclusiveAlone
<1> QED
  BY <1>1, <1>2, <1>3

(* The lock discipline is an invariant: only running commands hold the     *)
(* lock, a running mutation does, and an exclusive holder is alone.        *)
THEOREM LockDiscipline == Spec => []LockInv
<1>1. LockInit => LockInv
  BY LockAssumption
  DEF LockInit, LockInv, LockTypeOK, HeldByRunning, MutationHolds, Mutating,
      ExclusiveAlone, Modes, Phases
<1>2. LockTypeOK' /\ LockInv /\ [Next]_lockVars => LockInv'
  <2> SUFFICES ASSUME LockTypeOK', LockInv, [Next]_lockVars PROVE LockInv'
    OBVIOUS
  <2> USE DEF LockInv, LockTypeOK, HeldByRunning, MutationHolds, Mutating
  <2>1. ASSUME NEW p \in Procs, NEW m \in Modes, Begin(p, m) PROVE LockInv'
    BY <2>1 DEF Begin, ExclusiveAlone
  <2>2. ASSUME NEW p \in Procs, CheckLockFile(p) PROVE LockInv'
    BY <2>2 DEF CheckLockFile, ExclusiveAlone
  <2>3. ASSUME NEW p \in Procs, Open(p) PROVE LockInv'
    BY <2>3 DEF Open, ExclusiveAlone
  <2>4. ASSUME NEW p \in Procs, TryGranted(p) PROVE LockInv'
    <3>1. ExclusiveAlone'
      BY <2>4, GrantKeepsAlone
    <3> QED
      BY <2>4, <3>1 DEF TryGranted
  <2>5. ASSUME NEW p \in Procs, TryBusy(p) PROVE LockInv'
    BY <2>5 DEF TryBusy, ExclusiveAlone
  <2>6. ASSUME NEW p \in Procs, Finish(p) \/ Die(p) PROVE LockInv'
    BY <2>6 DEF Finish, Die, Release, ExclusiveAlone
  <2>7. CASE UNCHANGED lockVars
    BY <2>7 DEF lockVars, ExclusiveAlone
  <2> QED
    BY <2>1, <2>2, <2>3, <2>4, <2>5, <2>6, <2>7 DEF Next, Acquire
<1>3. Spec => []LockTypeOK
  BY LockTypes
<1> QED
  BY <1>1, <1>2, <1>3, PTL DEF Spec

(* Two mutations never run at the same time, for any number of processes,  *)
(* whichever of them time out or die.                                      *)
THEOREM MutualExclusion == Spec => []OneMutation
<1>1. LockInv => OneMutation
  BY DEF LockInv, MutationHolds, ExclusiveAlone, OneMutation
<1> QED
  BY <1>1, LockDiscipline, PTL

(* No mutation runs beside a dry run that holds the shared lock.           *)
THEOREM DryRunIsolation == Spec => []LockedDryRunIsolated
<1>1. LockInv => LockedDryRunIsolated
  BY DEF LockInv, HeldByRunning, MutationHolds, ExclusiveAlone,
         LockedDryRunIsolated, Mutating, DryRunning
<1> QED
  BY <1>1, LockDiscipline, PTL

(* The lock does what its callers count on: a mutation runs alone.         *)
THEOREM MutationIsAlone == Spec => []MutationRunsAlone
<1>1. OneMutation /\ LockedDryRunIsolated => MutationRunsAlone
  BY DEF MutationRunsAlone
<1> QED
  BY <1>1, MutualExclusion, DryRunIsolation, PTL

-----------------------------------------------------------------------------
(* ConfigSet.                                                              *)

Writing(p) == step[p] \in {"backup", "create", "write", "commit"}

(* What a process that is about to write knows: it holds the lock, what it *)
(* read is still what is live, and its copies are its own.                 *)
FileInv ==
  /\ live \in Files
  /\ live.whole
  /\ step \in [Procs -> WorkSteps]
  /\ job \in [Procs -> Jobs \cup {NoJob}]
  /\ \A p \in Procs : phase[p] # "run" => step[p] = "read"
  /\ \A p \in Procs :
       Writing(p) =>
         /\ mode[p] = "exclusive"
         /\ job[p] \in Jobs
         /\ job[p].old = live.data
  /\ \A p \in Procs : step[p] \in {"create", "write", "commit"} =>
       backup = job[p].old
  /\ \A p \in Procs : step[p] = "commit" =>
       part = [data |-> Updated(p), whole |-> TRUE]

(* Every behaviour of ConfigSet is a behaviour of the lock.                *)
THEOREM UsesTheLock == SetSpec => Spec
<1>1. Init => LockInit
  BY DEF Init
<1>2. [SetNext]_vars => [Next]_lockVars
  BY DEF SetNext, Step, Start, Lock, Work, ReadFile, WriteBackup, CreatePart,
         WritePart, CommitPart, End, Kill, Working, Next, vars
<1> QED
  BY <1>1, <1>2, PTL DEF SetSpec, Spec

(* A process past its read is the only one.                                *)
LEMMA WriterIsAlone ==
  ASSUME LockInv, FileInv, NEW p \in Procs, NEW q \in Procs,
         Writing(p), Writing(q)
  PROVE  p = q
BY DEF LockInv, MutationHolds, ExclusiveAlone, Mutating, FileInv, Writing

LEMMA UpdatedIsData ==
  ASSUME FileInv, NEW p \in Procs, Writing(p)
  PROVE  Updated(p) \in Data
BY DEF FileInv, Updated, Jobs, Data

LEMMA FileInvStep ==
  ASSUME LockInv, LockInv', FileInv, [SetNext]_vars
  PROVE  FileInv'
<1> USE DEF FileInv, WorkSteps, Writing
<1>1. ASSUME NEW p \in Procs, Start(p) PROVE FileInv'
  BY <1>1 DEF Start, Begin, fileVars, workVars, LockInv, LockTypeOK, Updated
<1>2. ASSUME NEW p \in Procs, Lock(p) PROVE FileInv'
  BY <1>2 DEF Lock, Acquire, CheckLockFile, Open, TryGranted, TryBusy,
              fileVars, workVars, LockInv, LockTypeOK, Updated
<1>3. ASSUME NEW p \in Procs, ReadFile(p) PROVE FileInv'
  <2>1. PICK k \in Keys, v \in Values :
          job' = [job EXCEPT ![p] = [key |-> k, value |-> v, old |-> live.data]]
    BY <1>3 DEF ReadFile
  <2>2. job'[p] \in Jobs /\ job'[p].old = live.data
    BY <2>1 DEF Jobs, Files, Data
  <2> QED
    BY <1>3, <2>1, <2>2
    DEF ReadFile, Working, Goto, fileVars, lockVars, Updated
<1>4. ASSUME NEW p \in Procs, WriteBackup(p) PROVE FileInv'
  <2>1. Writing(p)
    BY <1>4 DEF WriteBackup, Working
  <2>2. \A q \in Procs : Writing(q) => q = p
    BY <2>1, WriterIsAlone
  <2> QED
    BY <1>4, <2>1, <2>2 DEF WriteBackup, Working, Goto, lockVars, Updated
<1>5. ASSUME NEW p \in Procs, CreatePart(p) PROVE FileInv'
  <2>1. Writing(p)
    BY <1>5 DEF CreatePart, Working
  <2>2. \A q \in Procs : Writing(q) => q = p
    BY <2>1, WriterIsAlone
  <2> QED
    BY <1>5, <2>1, <2>2 DEF CreatePart, Working, Goto, lockVars, Updated
<1>6. ASSUME NEW p \in Procs, WritePart(p) PROVE FileInv'
  <2>1. Writing(p)
    BY <1>6 DEF WritePart, Working
  <2>2. \A q \in Procs : Writing(q) => q = p
    BY <2>1, WriterIsAlone
  <2> QED
    BY <1>6, <2>1, <2>2 DEF WritePart, Working, Goto, lockVars, Updated
<1>7. ASSUME NEW p \in Procs, CommitPart(p) PROVE FileInv'
  <2>1. Writing(p)
    BY <1>7 DEF CommitPart, Working
  <2>2. \A q \in Procs : Writing(q) => q = p
    BY <2>1, WriterIsAlone
  <2>3. live' \in Files /\ live'.whole
    <3>1. part = [data |-> Updated(p), whole |-> TRUE]
      BY <1>7 DEF CommitPart, Working
    <3>2. Updated(p) \in Data
      BY <2>1, UpdatedIsData
    <3>3. part \in Files /\ part.whole
      BY <3>1, <3>2 DEF Files, Data
    <3>4. live' = part \/ live' = live
      BY <1>7 DEF CommitPart
    <3>5. live \in Files /\ live.whole
      OBVIOUS
    <3> HIDE DEF FileInv
    <3> QED
      BY <3>3, <3>4, <3>5
  <2>4. \A q \in Procs : ~Writing(q)'
    BY <1>7, <2>2 DEF CommitPart, Working, Goto
  <2> QED
    BY <1>7, <2>3, <2>4 DEF CommitPart, Working, Goto, lockVars
<1>8. ASSUME NEW p \in Procs, End(p) \/ Kill(p) PROVE FileInv'
  BY <1>8 DEF End, Kill, Finish, Die, Release, Gone, Goto, fileVars,
              LockInv, LockTypeOK, Updated
<1>9. CASE UNCHANGED vars
  BY <1>9 DEF vars, lockVars, fileVars, workVars, Updated
<1> QED
  BY <1>1, <1>2, <1>3, <1>4, <1>5, <1>6, <1>7, <1>8, <1>9
  DEF SetNext, Step, Work

(* What a writing process remembers of the files stays true until it has   *)
(* written.                                                                *)
THEOREM WriterKnows == SetSpec => [](LockInv /\ FileInv)
<1>1. Init => FileInv
  BY DEF Init, FileInv, Files, Data, WorkSteps, Writing, LockInit
<1>2. LockInv /\ LockInv' /\ FileInv /\ [SetNext]_vars => FileInv'
  BY FileInvStep
<1>3. SetSpec => []LockInv
  BY UsesTheLock, LockDiscipline, PTL
<1> QED
  BY <1>1, <1>2, <1>3, PTL DEF SetSpec

(* No reader ever finds a half-written config file.                        *)
THEOREM ReadersSeeWholeFiles == SetSpec => []NeverTorn
<1>1. FileInv => NeverTorn
  BY DEF FileInv, NeverTorn
<1> QED
  BY <1>1, WriterKnows, PTL

(* Only a commit changes the live file, and it writes what its process     *)
(* made of the live file.                                                  *)
LEMMA OnlyCommitsWrite ==
  ASSUME LockInv, FileInv, [SetNext]_vars, live' # live
  PROVE  \E p \in Procs :
           /\ Writing(p)
           /\ step[p] = "commit"
           /\ live' = [data |-> Updated(p), whole |-> TRUE]
<1>1. PICK p \in Procs : CommitPart(p)
  BY DEF SetNext, Step, Start, Lock, Work, ReadFile, WriteBackup, CreatePart,
         WritePart, End, Kill, Gone, fileVars, vars
<1>2. Writing(p) /\ step[p] = "commit"
  BY <1>1 DEF CommitPart, Working, Writing
<1> QED
  BY <1>1, <1>2 DEF CommitPart, FileInv

(* No update is lost: a write changes one key and keeps every other        *)
(* process's setting.                                                      *)
THEOREM NoLostUpdate == SetSpec => OneKeyAtATime
<1>1. LockInv /\ FileInv /\ [SetNext]_vars =>
        [live' # live =>
           \E p \in Procs :
             live'.data = [live.data EXCEPT ![job[p].key] = job[p].value]]_vars
  <2> SUFFICES ASSUME LockInv, FileInv, [SetNext]_vars, live' # live
               PROVE  \E p \in Procs :
                        live'.data =
                          [live.data EXCEPT ![job[p].key] = job[p].value]
    OBVIOUS
  <2>1. PICK p \in Procs : Writing(p) /\ live' = [data |-> Updated(p), whole |-> TRUE]
    BY OnlyCommitsWrite
  <2>2. job[p].old = live.data
    BY <2>1 DEF FileInv
  <2> QED
    BY <2>1, <2>2 DEF Updated
<1> QED
  BY <1>1, WriterKnows, PTL DEF SetSpec, OneKeyAtATime

(* What a write replaces has been copied to a backup before.               *)
THEOREM BackupBeforeWrite == SetSpec => ReplacedIsBackedUp
<1>1. LockInv /\ FileInv /\ [SetNext]_vars =>
        [live' # live => backup = live.data]_vars
  BY OnlyCommitsWrite DEF FileInv
<1> QED
  BY <1>1, WriterKnows, PTL DEF SetSpec, ReplacedIsBackedUp

(* Writers exclude each other and readers always find a whole file.        *)
THEOREM TakingTurns == SetSpec => []WritersTakeTurns
<1>1. MutationRunsAlone /\ NeverTorn => WritersTakeTurns
  BY DEF WritersTakeTurns
<1> QED
  BY <1>1, UsesTheLock, MutationIsAlone, ReadersSeeWholeFiles, PTL

(* A write keeps every other process's setting and what it replaces is in  *)
(* a backup.                                                               *)
THEOREM NoOverwrite == SetSpec => NothingIsOverwritten
<1>1. LockInv /\ FileInv /\ [SetNext]_vars =>
        [live' # live =>
           /\ \E p \in Procs :
                live'.data = [live.data EXCEPT ![job[p].key] = job[p].value]
           /\ backup = live.data]_vars
  <2> SUFFICES ASSUME LockInv, FileInv, [SetNext]_vars, live' # live
               PROVE  /\ \E p \in Procs :
                           live'.data =
                             [live.data EXCEPT ![job[p].key] = job[p].value]
                      /\ backup = live.data
    OBVIOUS
  <2>1. PICK p \in Procs :
          Writing(p) /\ step[p] = "commit" /\ live' = [data |-> Updated(p), whole |-> TRUE]
    BY OnlyCommitsWrite
  <2>2. job[p].old = live.data /\ backup = job[p].old
    BY <2>1 DEF FileInv
  <2> QED
    BY <2>1, <2>2 DEF Updated
<1> QED
  BY <1>1, WriterKnows, PTL DEF SetSpec, NothingIsOverwritten
=============================================================================
