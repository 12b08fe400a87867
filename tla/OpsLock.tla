------------------------------ MODULE OpsLock -------------------------------
(***************************************************************************)
(* The advisory lock .locks/ops.lock that every ops command takes, and the *)
(* life of the processes that take it.                                     *)
(*                                                                         *)
(* A mutation takes the lock exclusively, a --dry-run takes it shared.     *)
(* acquireOpsLock opens the lock file, tries flock without blocking, and   *)
(* polls until --lock-timeout.  The kernel drops the lock when the process *)
(* ends, however it ends.  The file itself is never removed.               *)
(*                                                                         *)
(* A dry run that finds no lock file does not create one and runs without  *)
(* a lock.                                                                 *)
(***************************************************************************)
EXTENDS Naturals

CONSTANTS
  Procs,       \* ops processes, each running one command after another
  MaxPolls     \* --lock-timeout, counted in poll intervals

ASSUME LockAssumption == MaxPolls \in Nat

VARIABLES
  phase,       \* phase[p]: where p's command stands
  mode,        \* mode[p]: what the command asks for
  held,        \* held[p]: the flock p's open descriptor holds
  polls,       \* polls[p]: poll intervals left before ErrLocked
  lockFile     \* does .locks/ops.lock exist?

lockVars == <<phase, mode, held, polls, lockFile>>

Modes  == {"exclusive", "shared"}
Phases == {"idle", "check", "open", "try", "run"}

LockTypeOK ==
  /\ phase \in [Procs -> Phases]
  /\ mode \in [Procs -> Modes]
  /\ held \in [Procs -> Modes \cup {"none"}]
  /\ polls \in [Procs -> 0..MaxPolls]
  /\ lockFile \in BOOLEAN

LockInit ==
  /\ phase = [p \in Procs |-> "idle"]
  /\ mode = [p \in Procs |-> "shared"]
  /\ held = [p \in Procs |-> "none"]
  /\ polls = [p \in Procs |-> 0]
  /\ lockFile \in BOOLEAN

(* flock grants a shared lock beside shared ones and an exclusive lock     *)
(* beside none.                                                            *)
Grants(p, m) ==
  \A q \in Procs \ {p} :
    IF m = "shared" THEN held[q] # "exclusive" ELSE held[q] = "none"

-----------------------------------------------------------------------------
(* The command line names the mode: --dry-run or not.                      *)
Begin(p, m) ==
  /\ phase[p] = "idle"
  /\ phase' = [phase EXCEPT ![p] = "check"]
  /\ mode' = [mode EXCEPT ![p] = m]
  /\ UNCHANGED <<held, polls, lockFile>>

(* acquireOpsLock: the stat of the lock file.  A dry run without one goes  *)
(* on with no lock at all.                                                 *)
CheckLockFile(p) ==
  /\ phase[p] = "check"
  /\ phase' = [phase EXCEPT ![p] =
                IF mode[p] = "shared" /\ ~lockFile THEN "run" ELSE "open"]
  /\ UNCHANGED <<mode, held, polls, lockFile>>

(* lock.Acquire: open or create the file, then start the clock.            *)
Open(p) ==
  /\ phase[p] = "open"
  /\ phase' = [phase EXCEPT ![p] = "try"]
  /\ lockFile' = TRUE
  /\ \E timeout \in 0..MaxPolls : polls' = [polls EXCEPT ![p] = timeout]
  /\ UNCHANGED <<mode, held>>

TryGranted(p) ==
  /\ phase[p] = "try"
  /\ Grants(p, mode[p])
  /\ held' = [held EXCEPT ![p] = mode[p]]
  /\ phase' = [phase EXCEPT ![p] = "run"]
  /\ UNCHANGED <<mode, polls, lockFile>>

(* Mutant of TryBusy: the command goes on when its time is up.             *)
TryBusyGoesOn(p) ==
  /\ phase[p] = "try"
  /\ ~Grants(p, mode[p])
  /\ IF polls[p] = 0
     THEN phase' = [phase EXCEPT ![p] = "run"] /\ UNCHANGED polls
     ELSE polls' = [polls EXCEPT ![p] = @ - 1] /\ UNCHANGED phase
  /\ UNCHANGED <<mode, held, lockFile>>

(* Mutant of TryBusy: every attempt starts the clock anew.                 *)
TryBusyRestartsClock(p) ==
  /\ phase[p] = "try"
  /\ ~Grants(p, mode[p])
  /\ polls[p] = 0
  /\ phase' = [phase EXCEPT ![p] = "idle"]
  /\ UNCHANGED <<mode, held, polls, lockFile>>

(* Busy: sleep and try again, or return ErrLocked when the time is up.     *)
TryBusy(p) ==
  /\ phase[p] = "try"
  /\ ~Grants(p, mode[p])
  /\ IF polls[p] = 0
     THEN phase' = [phase EXCEPT ![p] = "idle"] /\ UNCHANGED polls
     ELSE polls' = [polls EXCEPT ![p] = @ - 1] /\ UNCHANGED phase
  /\ UNCHANGED <<mode, held, lockFile>>

Acquire(p) == CheckLockFile(p) \/ Open(p) \/ TryGranted(p) \/ TryBusy(p)

(* The command is over: the deferred Close, or the kernel closing the      *)
(* descriptor of a process that died.                                      *)
Release(p) ==
  /\ phase' = [phase EXCEPT ![p] = "idle"]
  /\ held' = [held EXCEPT ![p] = "none"]
  /\ UNCHANGED <<mode, polls, lockFile>>

Finish(p) == phase[p] = "run" /\ Release(p)

Die(p) == phase[p] # "idle" /\ Release(p)

Next ==
  \E p \in Procs :
    \/ \E m \in Modes : Begin(p, m)
    \/ Acquire(p)
    \/ Finish(p)
    \/ Die(p)

Spec == LockInit /\ [][Next]_lockVars

-----------------------------------------------------------------------------
Mutating(p) == phase[p] = "run" /\ mode[p] = "exclusive"
DryRunning(p) == phase[p] = "run" /\ mode[p] = "shared"

(* Two mutations never run at the same time, whatever timed out or died.   *)
OneMutation == \A p, q \in Procs : Mutating(p) /\ Mutating(q) => p = q

(* "--dry-run takes the shared lock": no mutation runs beside a dry run    *)
(* that holds a lock.                                                      *)
LockedDryRunIsolated ==
  \A p, q \in Procs : Mutating(p) /\ DryRunning(q) => held[q] = "none"

(* A mutation runs beside no other and beside no locked dry run.           *)
MutationRunsAlone == OneMutation /\ LockedDryRunIsolated

(* A command that wants the lock gets it or reports locked; it never waits *)
(* for ever, even when others hold the lock again and again.               *)
AlwaysAnswers == \A p \in Procs : phase[p] # "idle" ~> phase[p] = "idle"
=============================================================================
