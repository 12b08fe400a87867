---------------------------- MODULE StateDeploy -----------------------------
(***************************************************************************)
(* One run of "state deploy" under the ops lock: deployStateLocked and the *)
(* file transaction stateDeployTx it drives.                               *)
(*                                                                         *)
(* The live players/ and world/ directories cannot be renamed themselves   *)
(* (their parent belongs to root), so the transaction moves their entries  *)
(* one rename at a time: live -> old, then staged -> live, and config.lua  *)
(* last.  Every rename, every sync, every systemd command may fail; a      *)
(* failure starts the rollback, whose own steps may fail too; and the      *)
(* process may die between any two steps.                                  *)
(*                                                                         *)
(* A file's content is abstracted to which set it belongs to.              *)
(***************************************************************************)
EXTENDS GameUnit

CONSTANTS
  Players,     \* entry names of players/
  World,       \* entry names of world/
  Config,      \* configs/config.lua, the one config a state carries
  MaxFaults    \* bound: file and systemd operations that fail in one run

ASSUME FilesAssumption ==
  /\ Players \cap World = {}
  /\ Config \notin Players \cup World
  /\ MaxFaults \in Nat

Files == Players \cup World \cup {Config}

Contents == {"absent", "old", "new"}

(* Where a file can be: the live data directories, the extracted archive   *)
(* in .staging/state-<id>, and .staging/state-<id>/old.                    *)
Places == {"live", "staged", "old"}

VARIABLES
  pc,            \* where deployStateLocked stands
  result,        \* what the command reports: none yet, ok, or error
  noRestart,     \* --no-restart
  wasActive,     \* the unit was active when it was checked
  archived,      \* content of the selected archive
  before,        \* history: the live files when the command started
  disk,          \* disk[place][file]
  todo,          \* entries the current ReadDir loop still has to handle
  moved,         \* tx.playersMoved, tx.worldMoved: the loops begun
  configsMoved,  \* tx.configsMoved
  installed,     \* tx.installedPlayers, installedWorld, installedConfigs
  faults         \* operations that failed so far

txVars == <<disk, todo, moved, configsMoved, installed>>
vars == <<unitVars, pc, result, noRestart, wasActive, archived, before,
          txVars, faults>>

-----------------------------------------------------------------------------
(* The loops of the transaction.  Each is one call of moveDirEntries.      *)

InstallLoops == {"installPlayers", "installWorld"}
BackupLoops  == {"movePlayers", "moveWorld"}
RestoreLoops == {"restorePlayers", "restoreWorld"}
MoveLoops    == BackupLoops \cup InstallLoops \cup RestoreLoops

Area(loop) ==
  IF loop \in {"movePlayers", "installPlayers", "restorePlayers"}
  THEN Players ELSE World

From(loop) ==
  IF loop \in BackupLoops THEN "live"
  ELSE IF loop \in InstallLoops THEN "staged" ELSE "old"

To(loop) == IF loop \in BackupLoops THEN "old" ELSE "live"

Undone(loop) ==
  IF loop = "restorePlayers" THEN "movePlayers" ELSE "moveWorld"

(* Mutant of Following: the two restore loops call each other for ever.    *)
FollowingLoopsBack(loop) ==
  CASE loop = "movePlayers"    -> "moveWorld"
    [] loop = "moveWorld"      -> "installPlayers"
    [] loop = "installPlayers" -> "installWorld"
    [] loop = "installWorld"   -> "moveConfig"
    [] loop = "restorePlayers" -> "restoreWorld"
    [] loop = "restoreWorld"   -> "restorePlayers"

Following(loop) ==
  CASE loop = "movePlayers"    -> "moveWorld"
    [] loop = "moveWorld"      -> "installPlayers"
    [] loop = "installPlayers" -> "installWorld"
    [] loop = "installWorld"   -> "moveConfig"
    [] loop = "restorePlayers" -> "restoreWorld"
    [] loop = "restoreWorld"   -> "dropStaging"

SwitchSteps   == BackupLoops \cup InstallLoops
                   \cup {"moveConfig", "installConfig", "syncConfigs"}
RollbackSteps == {"removeInstalled", "restoreConfig", "dropStaging"}
                   \cup RestoreLoops
Steps == {"prepare", "isActive", "stop", "stage", "start", "commit", "restart",
          "done", "crashed"} \cup SwitchSteps \cup RollbackSteps

Listed(files, area) == {f \in area : files[f] # "absent"}

(* Mutant of Enter: the flag is set only when its loop has finished.       *)
EnterFlagsLate(step) ==
  /\ pc' = step
  /\ todo' = CASE step \in RestoreLoops ->
                    IF Undone(step) \in moved
                    THEN Listed(disk'["old"], Area(step)) ELSE {}
               [] step \in MoveLoops \ RestoreLoops ->
                    Listed(disk'[From(step)], Area(step))
               [] step = "removeInstalled" -> installed'
               [] OTHER -> {}
  /\ moved' = IF pc \in BackupLoops /\ step = Following(pc)
              THEN moved \cup {pc} ELSE moved

(* Go to a step; a loop starts with the ReadDir of its source directory.   *)
(* switchDirs sets playersMoved and worldMoved before the loop they guard, *)
(* and a rollback skips the areas that were never touched.                 *)
Enter(step) ==
  /\ pc' = step
  /\ todo' = CASE step \in RestoreLoops ->
                    IF Undone(step) \in moved
                    THEN Listed(disk'["old"], Area(step)) ELSE {}
               [] step \in MoveLoops \ RestoreLoops ->
                    Listed(disk'[From(step)], Area(step))
               [] step = "removeInstalled" -> installed'
               [] OTHER -> {}
  /\ moved' = IF step \in BackupLoops THEN moved \cup {step} ELSE moved

Rename(from, to, f) ==
  disk' = [disk EXCEPT ![from][f] = "absent", ![to][f] = disk[from][f]]

Remove(place, f) == disk' = [disk EXCEPT ![place][f] = "absent"]

Fault == faults < MaxFaults /\ faults' = faults + 1
NoFault == UNCHANGED faults

-----------------------------------------------------------------------------
Init ==
  /\ UnitInit
  /\ pc = "prepare"
  /\ result = "none"
  /\ noRestart \in BOOLEAN
  /\ wasActive = FALSE
  /\ archived \in [Files -> {"absent", "new"}]
  /\ archived[Config] = "new"
  /\ before \in [Files -> {"absent", "old"}]
  /\ disk = [p \in Places |->
              IF p = "live" THEN before ELSE [f \in Files |-> "absent"]]
  /\ todo = {}
  /\ moved = {}
  /\ configsMoved = FALSE
  /\ installed = {}
  /\ faults = 0

Fixed == UNCHANGED <<noRestart, archived, before>>

Return(r) == pc' = "done" /\ result' = r /\ UNCHANGED <<todo, moved>>

(* Target resolution, space check, predeploy backup, newStateDeployTx: all *)
(* of it before the server or a live file is touched.                      *)
Prepare ==
  /\ pc = "prepare"
  /\ UNCHANGED <<disk, installed>>
  /\ \/ Enter("isActive") /\ UNCHANGED result
     \/ Return("error")
  /\ UNCHANGED <<unitVars, wasActive, configsMoved>>
  /\ NoFault /\ Fixed

CheckActive ==
  /\ pc = "isActive"
  /\ UNCHANGED <<disk, installed>>
  /\ \/ /\ wasActive' = IsActive
        /\ Enter(IF IsActive THEN "stop" ELSE "stage")
        /\ NoFault /\ UNCHANGED result
     \/ Fault /\ Return("error") /\ UNCHANGED wasActive
  /\ UNCHANGED <<unitVars, configsMoved>>
  /\ Fixed

(* Mutant of Stop: a stop that failed does not end the command.            *)
StopGoesOn ==
  /\ pc = "stop"
  /\ UNCHANGED <<disk, installed>>
  /\ \/ ControlSucceeds("stop") /\ NoFault
     \/ ControlFails("stop") /\ Fault
  /\ Enter("stage")
  /\ UNCHANGED <<result, wasActive, configsMoved>>
  /\ Fixed

(* A failed stop returns at once: nothing to roll back, no restart.        *)
Stop ==
  /\ pc = "stop"
  /\ UNCHANGED <<disk, installed>>
  /\ \/ ControlSucceeds("stop") /\ NoFault /\ Enter("stage") /\ UNCHANGED result
     \/ ControlFails("stop") /\ Fault /\ Return("error")
  /\ UNCHANGED <<wasActive, configsMoved>>
  /\ Fixed

(* Extract the archive into a fresh staging directory.  When it fails half *)
(* of the archive may be there.                                            *)
Stage ==
  /\ pc = "stage"
  /\ UNCHANGED installed
  /\ \E extracted \in SUBSET Files :
       /\ disk' = [disk EXCEPT !["staged"] =
                     [f \in Files |->
                        IF f \in extracted THEN archived[f] ELSE "absent"]]
       /\ \/ extracted = Files /\ NoFault /\ Enter("movePlayers")
          \/ Fault /\ Enter("removeInstalled")
  /\ UNCHANGED <<unitVars, result, wasActive, configsMoved>>
  /\ Fixed

(* moveDirEntries: one rename.                                             *)
MoveEntry ==
  /\ pc \in MoveLoops
  /\ \E f \in todo :
       /\ Rename(From(pc), To(pc), f)
       /\ todo' = todo \ {f}
       /\ installed' = IF pc \in InstallLoops THEN installed \cup {f}
                       ELSE installed
  /\ UNCHANGED <<unitVars, pc, result, wasActive, moved, configsMoved>>
  /\ NoFault /\ Fixed

MoveEnds ==
  /\ pc \in MoveLoops
  /\ todo = {}
  /\ UNCHANGED disk
  /\ UNCHANGED installed
  /\ Enter(Following(pc))
  /\ UNCHANGED <<unitVars, result, wasActive, configsMoved>>
  /\ NoFault /\ Fixed

(* A rename or a directory sync fails: the loop stops where it is.  While  *)
(* switching that starts the rollback; the rollback itself only notes the  *)
(* error and goes on with its next step.  A directory cannot be renamed    *)
(* over one that is still there, so that rename may fail by itself.        *)
MoveFails ==
  /\ pc \in MoveLoops
  /\ \/ Fault
     \/ /\ \E f \in todo : disk[To(pc)][f] # "absent"
        /\ NoFault
  /\ UNCHANGED disk
  /\ UNCHANGED installed
  /\ Enter(IF pc \in RestoreLoops THEN Following(pc) ELSE "removeInstalled")
  /\ UNCHANGED <<unitVars, result, wasActive, configsMoved>>
  /\ Fixed

-----------------------------------------------------------------------------
(* switchConfigs                                                           *)

MoveConfig ==
  /\ pc = "moveConfig"
  /\ \/ /\ IF disk["live"][Config] # "absent"
           THEN Rename("live", "old", Config) /\ configsMoved' = TRUE
           ELSE UNCHANGED <<disk, configsMoved>>
        /\ NoFault /\ UNCHANGED installed
        /\ Enter("installConfig")
     \/ /\ UNCHANGED <<disk, configsMoved, installed>> /\ Fault
        /\ Enter("removeInstalled")
  /\ UNCHANGED <<unitVars, result, wasActive>>
  /\ Fixed

InstallConfig ==
  /\ pc = "installConfig"
  /\ \/ /\ Rename("staged", "live", Config)
        /\ installed' = installed \cup {Config}
        /\ NoFault
        /\ Enter("syncConfigs")
     \/ /\ Fault /\ UNCHANGED <<disk, installed>>
        /\ Enter("removeInstalled")
  /\ UNCHANGED <<unitVars, result, wasActive, configsMoved>>
  /\ Fixed

SyncConfigs ==
  /\ pc = "syncConfigs"
  /\ UNCHANGED <<disk, installed>>
  /\ \/ NoFault /\ Enter("start")
     \/ Fault /\ Enter("removeInstalled")
  /\ UNCHANGED <<unitVars, result, wasActive, configsMoved>>
  /\ Fixed

-----------------------------------------------------------------------------
Restarting == wasActive /\ ~noRestart

(* Mutant of Start: a failed start is reported but not rolled back.        *)
StartNoRollback ==
  /\ pc = "start"
  /\ UNCHANGED <<disk, installed>>
  /\ \/ ControlSucceeds("start") /\ NoFault /\ Enter("commit") /\ UNCHANGED result
     \/ ControlFails("start") /\ Fault /\ Return("error")
  /\ UNCHANGED <<wasActive, configsMoved>>
  /\ Fixed

Start ==
  /\ pc = "start"
  /\ UNCHANGED <<disk, installed>>
  /\ IF Restarting
     THEN \/ ControlSucceeds("start") /\ NoFault /\ Enter("commit")
          \/ ControlFails("start") /\ Fault /\ Enter("removeInstalled")
     ELSE UNCHANGED unitVars /\ NoFault /\ Enter("commit")
  /\ UNCHANGED <<result, wasActive, configsMoved>>
  /\ Fixed

(* commit removes the staging directory with the old files in it; what it  *)
(* cannot remove is a warning.                                             *)
Commit ==
  /\ pc = "commit"
  /\ \E left \in SUBSET Files :
       /\ disk' = [disk EXCEPT
                     !["staged"] = [f \in Files |-> IF f \in left THEN @[f] ELSE "absent"],
                     !["old"]    = [f \in Files |-> IF f \in left THEN @[f] ELSE "absent"]]
       /\ \/ left = {} /\ NoFault
          \/ Fault
  /\ Return("ok")
  /\ UNCHANGED <<unitVars, wasActive, configsMoved, installed>>
  /\ Fixed

-----------------------------------------------------------------------------
(* tx.rollback: remove what was installed, put config.lua back, move the   *)
(* old entries back, and drop the staging directory whatever happened.     *)

RemoveInstalled ==
  /\ pc = "removeInstalled"
  /\ \E f \in todo :
       /\ todo' = todo \ {f}
       /\ \/ Remove("live", f) /\ NoFault
          \/ UNCHANGED disk /\ Fault
  /\ UNCHANGED <<unitVars, pc, result, wasActive, moved, configsMoved, installed>>
  /\ Fixed

RemoveEnds ==
  /\ pc = "removeInstalled"
  /\ todo = {}
  /\ UNCHANGED <<disk, installed>>
  /\ Enter(IF configsMoved THEN "restoreConfig" ELSE "restorePlayers")
  /\ UNCHANGED <<unitVars, result, wasActive, configsMoved>>
  /\ NoFault /\ Fixed

RestoreConfig ==
  /\ pc = "restoreConfig"
  /\ \/ Rename("old", "live", Config) /\ NoFault
     \/ UNCHANGED disk /\ Fault
  /\ UNCHANGED installed
  /\ Enter("restorePlayers")
  /\ UNCHANGED <<unitVars, result, wasActive, configsMoved>>
  /\ Fixed

DropStaging ==
  /\ pc = "dropStaging"
  /\ \/ /\ disk' = [disk EXCEPT !["staged"] = [f \in Files |-> "absent"],
                                !["old"]    = [f \in Files |-> "absent"]]
        /\ NoFault
     \/ UNCHANGED disk /\ Fault
  /\ UNCHANGED installed
  /\ Enter("restart")
  /\ UNCHANGED <<unitVars, result, wasActive, configsMoved>>
  /\ Fixed

(* The fail closure starts the server again after the rollback.            *)
Restart ==
  /\ pc = "restart"
  /\ IF Restarting
     THEN \/ ControlSucceeds("start") /\ NoFault
          \/ ControlFails("start") /\ Fault
     ELSE UNCHANGED unitVars /\ NoFault
  /\ Return("error")
  /\ UNCHANGED <<wasActive, disk, configsMoved, installed>>
  /\ Fixed

-----------------------------------------------------------------------------
Running == pc \notin {"done", "crashed"}

(* The process dies: out of memory, power, a kill.  Nothing resumes it.    *)
Crash ==
  /\ Running
  /\ pc' = "crashed"
  /\ UNCHANGED <<unitVars, result, wasActive, txVars, faults>>
  /\ Fixed

Unit ==
  /\ UnitStep
  /\ UNCHANGED <<pc, result, wasActive, txVars, faults>>
  /\ Fixed

Terminated == ~Running /\ UNCHANGED vars

Command ==
  \/ Prepare \/ CheckActive \/ Stop \/ Stage
  \/ MoveEntry \/ MoveEnds \/ MoveFails
  \/ MoveConfig \/ InstallConfig \/ SyncConfigs
  \/ Start \/ Commit
  \/ RemoveInstalled \/ RemoveEnds \/ RestoreConfig \/ DropStaging \/ Restart

Next == Command \/ Crash \/ Unit \/ Terminated

Spec == Init /\ [][Next]_vars

(* Only the process's own steps are fair: it is scheduled, and every call  *)
(* it makes has a deadline.  The command waits for nothing that systemd or *)
(* the game does, so neither has to run a job, restart or crash.           *)
FairSpec == Spec /\ WF_vars(Command)

-----------------------------------------------------------------------------
TypeOK ==
  /\ UnitTypeOK
  /\ pc \in Steps
  /\ result \in {"none", "ok", "error"}
  /\ noRestart \in BOOLEAN
  /\ wasActive \in BOOLEAN
  /\ archived \in [Files -> {"absent", "new"}]
  /\ before \in [Files -> {"absent", "old"}]
  /\ disk \in [Places -> [Files -> Contents]]
  /\ todo \in SUBSET Files
  /\ moved \in SUBSET BackupLoops
  /\ configsMoved \in BOOLEAN
  /\ installed \in SUBSET Files
  /\ faults \in 0..MaxFaults

Untouched == disk["live"] = before
Replaced  == disk["live"] = archived

(* Every file of the old state is still on the disk, live or set aside.    *)
OldKept ==
  \A f \in Files :
    before[f] = "old" => \E p \in {"live", "old"} : disk[p][f] = "old"

(* What a rollback that meets no failure would leave in the live           *)
(* directories: installed files gone, set-aside files of the areas and     *)
(* configs the transaction moved back in place.                            *)
PutBack(f) ==
  \/ f \in Players /\ "movePlayers" \in moved
  \/ f \in World /\ "moveWorld" \in moved
  \/ f = Config /\ configsMoved

Undo(live, old) ==
  [f \in Files |->
     IF PutBack(f) /\ old[f] # "absent" THEN old[f]
     ELSE IF f \in installed THEN "absent" ELSE live[f]]

(* From any point of the switch a clean rollback gives back exactly the    *)
(* files the command found: the transaction has recorded every move and    *)
(* every install it has made (flags set before or after the right rename,  *)
(* partial loops included).                                                *)
Reversible ==
  pc \in SwitchSteps \cup {"stage", "start"} =>
    Undo(disk["live"], disk["old"]) = before

(* A command that reports success has replaced the state exactly: all of   *)
(* the archive, nothing left over from the old one.                        *)
SuccessReplaces == result = "ok" => Replaced

(* A command that reports an error has the old players/, world/ and        *)
(* config.lua back, whichever operation failed.                            *)
FailureRestores == result = "error" => Untouched

(* Whatever fails and wherever the process dies, the old state survives    *)
(* until the new one is complete.                                          *)
NothingLost == Replaced \/ OldKept

(* "mods deploy" and "state deploy" stop the server before they replace    *)
(* files (docs/v2/04-ops.md): it is down from the first rename to the last.*)
ServerDownDuringSwitch == pc \in SwitchSteps => unit # "active"

(* The same for a server that does not crash on its own; and a rollback    *)
(* meets it only if the start before it was killed at its deadline, with   *)
(* its job queued.                                                         *)
StoppedForSwitch ==
  gameCrashes = 0 =>
    /\ ServerDownDuringSwitch
    /\ pc \in RollbackSteps /\ unit = "active" => "start" \in abandoned

(* After an error the server runs, or systemd is about to run it, if it    *)
(* ran before: unless the operator asked for --no-restart, a second        *)
(* operation failed, or a stop killed at its deadline takes effect late.   *)
ServerAsBefore ==
  result = "error" /\ wasActive /\ ~noRestart /\ faults < 2 /\ unit = "inactive" =>
    "stop" \in abandoned

(* A stop that was killed at its deadline ended the command with an error  *)
(* and no file touched, so that it cannot meet a switch when it runs late. *)
LateStopMeetsNothing ==
  "stop" \in abandoned =>
    /\ pc = "done" /\ result = "error" /\ Untouched
    /\ \A f \in Files : disk["staged"][f] = "absent" /\ disk["old"][f] = "absent"

(* Players are off the server while the world is switched and back on it   *)
(* after an error, with control commands that fail, or time out and take   *)
(* effect later (deployStateLocked, its fail closure, deployControl).      *)
ServerStopsAndReturns ==
  StoppedForSwitch /\ ServerAsBefore /\ LateStopMeetsNothing

(* Every run of the command comes to an end.                               *)
Terminates == <>(~Running)

(* The promise of AtomicDeploy, seen at the moments a caller can see it.   *)
Promise == INSTANCE AtomicDeploy WITH
  outcome <- IF Running THEN "pending"
             ELSE IF pc = "done" THEN result ELSE "crashed",
  live    <- IF Running \/ Untouched THEN "before"
             ELSE IF Replaced THEN "after" ELSE "torn",
  kept    <- Running \/ OldKept

KeepsPromise == Promise!Spec
=============================================================================
