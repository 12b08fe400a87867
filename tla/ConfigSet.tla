----------------------------- MODULE ConfigSet ------------------------------
(***************************************************************************)
(* "config set" by several ops processes on one config file: the ops lock  *)
(* around a read-modify-write whose write is an atomicfile.Writer.         *)
(*                                                                         *)
(* The writer's temporary file has one fixed name, <target>.part, which    *)
(* every process would open and truncate: only the lock keeps two of them  *)
(* apart.  A process may die at any step and leave its .part behind.       *)
(*                                                                         *)
(* The file is abstracted to the values of its keys and whether it is      *)
(* whole.  "config get" reads it without the lock.                         *)
(***************************************************************************)
EXTENDS OpsLock

CONSTANTS
  Keys,        \* settings in the file
  Values       \* the values a setting may take

Files  == [data : [Keys -> Values], whole : BOOLEAN]
NoPart == [data |-> <<>>, whole |-> FALSE]

VARIABLES
  live,        \* the config file
  part,        \* <file>.part, NoPart when there is none
  backup,      \* content of the newest <file>.bak-<time>
  step,        \* step[p]: what gameconfig.Set does next
  job          \* job[p]: the setting p was asked to make, and what it read

fileVars == <<live, part, backup>>
workVars == <<step, job>>
vars == <<lockVars, fileVars, workVars>>

WorkSteps == {"read", "backup", "create", "write", "commit", "end"}
Data      == [Keys -> Values]
Jobs      == [key : Keys, value : Values, old : Data]
NoJob     == [key |-> "", value |-> "", old |-> <<>>]

Init ==
  /\ LockInit
  /\ live \in [data : Data, whole : {TRUE}]
  /\ part = NoPart
  /\ backup = live.data
  /\ step = [p \in Procs |-> "read"]
  /\ job = [p \in Procs |-> NoJob]

Updated(p) == [job[p].old EXCEPT ![job[p].key] = job[p].value]

Goto(p, s) == step' = [step EXCEPT ![p] = s]

Working(p, s) ==
  /\ phase[p] = "run"
  /\ step[p] = s
  /\ UNCHANGED lockVars

-----------------------------------------------------------------------------
Start(p) == (\E m \in Modes : Begin(p, m)) /\ UNCHANGED <<fileVars, workVars>>

Lock(p) == Acquire(p) /\ UNCHANGED <<fileVars, workVars>>

(* readRegular, then setServer, setLua or setBanlist on what was read.  An *)
(* invalid key or value, and every dry run, ends here.                     *)
ReadFile(p) ==
  /\ Working(p, "read")
  /\ \E k \in Keys, v \in Values :
       job' = [job EXCEPT ![p] = [key |-> k, value |-> v, old |-> live.data]]
  /\ \/ Goto(p, "end")
     \/ mode[p] = "exclusive" /\ Goto(p, "backup")
  /\ UNCHANGED fileVars

(* Mutant of WriteBackup: the copy is taken of the updated text.           *)
WriteBackupOfNew(p) ==
  /\ Working(p, "backup")
  /\ Goto(p, "create")
  /\ backup' = Updated(p)
  /\ UNCHANGED <<live, part, job>>

(* The .bak copy is written under a name no other copy has.                *)
WriteBackup(p) ==
  /\ Working(p, "backup")
  /\ \/ Goto(p, "create") /\ backup' = job[p].old
     \/ Goto(p, "end") /\ UNCHANGED backup
  /\ UNCHANGED <<live, part, job>>

(* atomicfile.New truncates a .part that is already there.                 *)
CreatePart(p) ==
  /\ Working(p, "create")
  /\ \/ Goto(p, "write") /\ part' = [data |-> Updated(p), whole |-> FALSE]
     \/ Goto(p, "end") /\ UNCHANGED part
  /\ UNCHANGED <<live, backup, job>>

(* Write, then the fsync and close of Commit; a failure discards the file. *)
WritePart(p) ==
  /\ Working(p, "write")
  /\ \/ Goto(p, "commit") /\ part' = [data |-> Updated(p), whole |-> TRUE]
     \/ Goto(p, "end") /\ part' = NoPart
  /\ UNCHANGED <<live, backup, job>>

(* The rename.  The directory sync after it may fail, which is an error to *)
(* the caller but leaves the new file in place.                            *)
CommitPart(p) ==
  /\ Working(p, "commit")
  /\ Goto(p, "end")
  /\ \/ part # NoPart /\ live' = part
     \/ UNCHANGED live
  /\ part' = NoPart
  /\ UNCHANGED <<backup, job>>

(* The process is gone, and what it had in memory with it.                 *)
Gone(p) ==
  /\ Goto(p, "read")
  /\ job' = [job EXCEPT ![p] = NoJob]
  /\ UNCHANGED fileVars

End(p) == step[p] = "end" /\ Finish(p) /\ Gone(p)

Kill(p) == Die(p) /\ Gone(p)

Work(p) ==
  \/ ReadFile(p) \/ WriteBackup(p) \/ CreatePart(p) \/ WritePart(p)
  \/ CommitPart(p) \/ End(p)

Step(p) == Start(p) \/ Lock(p) \/ Work(p) \/ Kill(p)

SetNext == \E p \in Procs : Step(p)

SetSpec == Init /\ [][SetNext]_vars

(* A running process is scheduled, and a command that runs comes to its    *)
(* end.  Whether flock is ever granted is up to the others.                *)
FairSetSpec ==
  SetSpec /\ \A p \in Procs : WF_vars(Lock(p)) /\ WF_vars(Work(p))

-----------------------------------------------------------------------------
TypeOK ==
  /\ LockTypeOK
  /\ live \in Files
  /\ part \in Files \cup {NoPart}
  /\ backup \in Data
  /\ step \in [Procs -> WorkSteps]
  /\ job \in [Procs -> Jobs \cup {NoJob}]

(* A reader without the lock never sees a half-written config: what is     *)
(* renamed into place was written out in full by one process.              *)
NeverTorn == live.whole

(* Nobody's setting is lost: a write changes the one key it was asked to   *)
(* change, whatever other processes have set since the command started.    *)
OneKeyAtATime ==
  [][live' # live =>
       \E p \in Procs :
         live'.data = [live.data EXCEPT ![job[p].key] = job[p].value]]_vars

(* What a write replaces is in the newest backup copy.                     *)
ReplacedIsBackedUp == [][live' # live => backup = live.data]_vars

(* Writers take turns and readers need not: one mutating command at a time *)
(* holds tes3mp-easy.lock, so the one name <file>.part is written by one   *)
(* process, and a "config get" that takes no lock reads a whole file.      *)
WritersTakeTurns == MutationRunsAlone /\ NeverTorn

(* Nothing is overwritten unseen: a write changes the one key it was asked *)
(* to change, whatever others have set since the command started, and what *)
(* it replaces is in the newest .bak copy.                                 *)
NothingIsOverwritten ==
  [][live' # live =>
       /\ \E p \in Procs :
            live'.data = [live.data EXCEPT ![job[p].key] = job[p].value]
       /\ backup = live.data]_vars
=============================================================================
