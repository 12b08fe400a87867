----------------------------- MODULE ModsDeploy -----------------------------
(***************************************************************************)
(* One run of "mods deploy" under the ops lock: deployModsLocked and the   *)
(* file transaction modsDeployTx it drives.                                *)
(*                                                                         *)
(* mods/plugins and mods/scripts are replaced by whole-directory renames;  *)
(* the old directories wait beside them as plugins.old-<id> and            *)
(* scripts.old-<id>, outside the staging directory.  customScripts.lua is  *)
(* generated from the new scripts, and current.txt is written last.  The   *)
(* old text of these two is kept in memory only.                           *)
(*                                                                         *)
(* A failure starts the rollback, which tries every one of its steps and   *)
(* collects the errors.  The process may die between any two steps.        *)
(***************************************************************************)
EXTENDS GameUnit

CONSTANT
  MaxFaults    \* bound: file and systemd operations that fail in one run

ASSUME FaultsAssumption == MaxFaults \in Nat

Dirs  == {"plugins", "scripts"}
Texts == {"customScripts", "current"}
Items == Dirs \cup Texts

(* Which package an item belongs to.  A directory that RemoveAll could not *)
(* remove completely is damaged.                                           *)
Contents == {"absent", "old", "new", "damaged"}

VARIABLES
  pc,            \* where deployModsLocked stands
  result,        \* what the command reports: none yet, ok, or error
  noRestart,     \* --no-restart
  wasActive,     \* the unit was active when it was checked
  before,        \* tx.oldCurrent, oldCustom, *Existed, and what the dirs held
  live,          \* live[item]
  staged,        \* staged[dir]: .staging/mods-<id>
  retired,       \* retired[dir]: <dir>.old-<id>
  moved,         \* tx.pluginsMoved, tx.scriptsMoved
  installed,     \* tx.pluginsInstalled, tx.scriptsInstalled
  written,       \* tx.customWritten, tx.currentWritten
  faults         \* operations that failed so far

txVars == <<live, staged, retired, moved, installed, written>>
vars == <<unitVars, pc, result, noRestart, wasActive, before, txVars, faults>>

-----------------------------------------------------------------------------
MoveSteps    == {"movePlugins", "moveScripts"}
InstallSteps == {"installPlugins", "installScripts"}
WriteSteps   == {"writeCustom", "writeCurrent"}
RemoveSteps  == {"removePlugins", "removeScripts"}
RestoreSteps == {"restorePlugins", "restoreScripts"}
RewriteSteps == {"restoreCurrent", "restoreCustom"}

SwitchSteps   == MoveSteps \cup InstallSteps \cup {"syncMods"} \cup WriteSteps
RollbackSteps == RemoveSteps \cup RestoreSteps \cup RewriteSteps
                   \cup {"dropStaging"}
Steps == {"prepare", "isActive", "stop", "stage", "start", "commit", "restart",
          "done", "crashed"} \cup SwitchSteps \cup RollbackSteps

Dir(step) ==
  IF step \in {"movePlugins", "installPlugins", "removePlugins", "restorePlugins"}
  THEN "plugins" ELSE "scripts"

Text(step) ==
  IF step \in {"writeCustom", "restoreCustom"} THEN "customScripts" ELSE "current"

(* Mutant of Following: current.txt is written before the scripts move.    *)
FollowingPublishesEarly(step) ==
  CASE step = "movePlugins"    -> "installPlugins"
    [] step = "installPlugins" -> "writeCurrent"
    [] step = "writeCurrent"   -> "moveScripts"
    [] step = "moveScripts"    -> "installScripts"
    [] step = "installScripts" -> "syncMods"
    [] step = "syncMods"       -> "writeCustom"
    [] step = "writeCustom"    -> "start"
    [] step = "removePlugins"  -> "restorePlugins"
    [] step = "restorePlugins" -> "removeScripts"
    [] step = "removeScripts"  -> "restoreScripts"
    [] step = "restoreScripts" -> "restoreCurrent"
    [] step = "restoreCurrent" -> "restoreCustom"
    [] step = "restoreCustom"  -> "dropStaging"

(* switchDirs, writeCustomScripts, writeCurrent; and rollback.             *)
Following(step) ==
  CASE step = "movePlugins"    -> "installPlugins"
    [] step = "installPlugins" -> "moveScripts"
    [] step = "moveScripts"    -> "installScripts"
    [] step = "installScripts" -> "syncMods"
    [] step = "syncMods"       -> "writeCustom"
    [] step = "writeCustom"    -> "writeCurrent"
    [] step = "writeCurrent"   -> "start"
    [] step = "removePlugins"  -> "restorePlugins"
    [] step = "restorePlugins" -> "removeScripts"
    [] step = "removeScripts"  -> "restoreScripts"
    [] step = "restoreScripts" -> "restoreCurrent"
    [] step = "restoreCurrent" -> "restoreCustom"
    [] step = "restoreCustom"  -> "dropStaging"

Goto(step) == pc' = step /\ UNCHANGED result
Return(r)  == pc' = "done" /\ result' = r
Rollback   == Goto("removePlugins")

Fault   == faults < MaxFaults /\ faults' = faults + 1
NoFault == UNCHANGED faults
Fixed   == UNCHANGED <<noRestart, before>>

NoDirs == [d \in Dirs |-> "absent"]

-----------------------------------------------------------------------------
Init ==
  /\ UnitInit
  /\ pc = "prepare"
  /\ result = "none"
  /\ noRestart \in BOOLEAN
  /\ wasActive = FALSE
  /\ before \in [Items -> {"absent", "old"}]
  /\ live = before
  /\ staged = NoDirs
  /\ retired = NoDirs
  /\ moved = {}
  /\ installed = {}
  /\ written = {}
  /\ faults = 0

(* Target resolution, space check, predeploy backup, newModsDeployTx: all  *)
(* of it before the server or a live file is touched.                      *)
Prepare ==
  /\ pc = "prepare"
  /\ Goto("isActive") \/ Return("error")
  /\ NoFault /\ Fixed
  /\ UNCHANGED <<unitVars, wasActive, txVars>>

CheckActive ==
  /\ pc = "isActive"
  /\ \/ wasActive' = IsActive /\ NoFault /\ Goto(IF IsActive THEN "stop" ELSE "stage")
     \/ Fault /\ Return("error") /\ UNCHANGED wasActive
  /\ Fixed
  /\ UNCHANGED <<unitVars, txVars>>

Stop ==
  /\ pc = "stop"
  /\ \/ ControlSucceeds("stop") /\ NoFault /\ Goto("stage")
     \/ ControlFails("stop") /\ Fault /\ Return("error")
  /\ Fixed
  /\ UNCHANGED <<wasActive, txVars>>

(* Extract and validate: a valid package has both directories.             *)
Stage ==
  /\ pc = "stage"
  /\ \E extracted \in SUBSET Dirs :
       /\ staged' = [d \in Dirs |-> IF d \in extracted THEN "new" ELSE "absent"]
       /\ \/ extracted = Dirs /\ NoFault /\ Goto("movePlugins")
          \/ Fault /\ Rollback
  /\ Fixed
  /\ UNCHANGED <<unitVars, wasActive, live, retired, moved, installed, written>>

(* switchDirs: set the old directory aside, if there was one.              *)
MoveOld ==
  /\ pc \in MoveSteps
  /\ LET d == Dir(pc) IN
     \/ /\ before[d] # "absent"
        /\ live' = [live EXCEPT ![d] = "absent"]
        /\ retired' = [retired EXCEPT ![d] = live[d]]
        /\ moved' = moved \cup {d}
        /\ NoFault /\ Goto(Following(pc))
     \/ /\ before[d] = "absent"
        /\ NoFault /\ Goto(Following(pc)) /\ UNCHANGED <<live, retired, moved>>
     \/ /\ before[d] # "absent"
        /\ Fault /\ Rollback /\ UNCHANGED <<live, retired, moved>>
  /\ Fixed
  /\ UNCHANGED <<unitVars, wasActive, staged, installed, written>>

(* switchDirs: move the staged directory into place.                       *)
Install ==
  /\ pc \in InstallSteps
  /\ LET d == Dir(pc) IN
     \/ /\ live' = [live EXCEPT ![d] = staged[d]]
        /\ staged' = [staged EXCEPT ![d] = "absent"]
        /\ installed' = installed \cup {d}
        /\ NoFault /\ Goto(Following(pc))
     \/ Fault /\ Rollback /\ UNCHANGED <<live, staged, installed>>
  /\ Fixed
  /\ UNCHANGED <<unitVars, wasActive, retired, moved, written>>

SyncMods ==
  /\ pc = "syncMods"
  /\ (NoFault /\ Goto(Following(pc))) \/ (Fault /\ Rollback)
  /\ Fixed
  /\ UNCHANGED <<unitVars, wasActive, txVars>>

(* Mutant of WriteText: customWritten and currentWritten are set after the *)
(* write returned without an error.                                        *)
WriteTextFlagsLate ==
  /\ pc \in WriteSteps
  /\ LET t == Text(pc) IN
     \/ /\ written' = written \cup {t}
        /\ live' = [live EXCEPT ![t] = "new"]
        /\ NoFault /\ Goto(Following(pc))
     \/ /\ live' \in {live, [live EXCEPT ![t] = "new"]}
        /\ Fault /\ Rollback /\ UNCHANGED written
  /\ Fixed
  /\ UNCHANGED <<unitVars, wasActive, staged, retired, moved, installed>>

(* writeCustomScripts, writeCurrent: the flag is set before the write, for *)
(* a write whose directory sync failed has replaced the file.  Listing the *)
(* scripts or making configs/ may fail before the flag.                    *)
WriteText ==
  /\ pc \in WriteSteps
  /\ LET t == Text(pc) IN
     \/ /\ written' = written \cup {t}
        /\ live' = [live EXCEPT ![t] = "new"]
        /\ NoFault /\ Goto(Following(pc))
     \/ /\ written' = written \cup {t}
        /\ live' \in {live, [live EXCEPT ![t] = "new"]}
        /\ Fault /\ Rollback
     \/ /\ pc = "writeCustom"
        /\ Fault /\ Rollback /\ UNCHANGED <<written, live>>
  /\ Fixed
  /\ UNCHANGED <<unitVars, wasActive, staged, retired, moved, installed>>

-----------------------------------------------------------------------------
Restarting == wasActive /\ ~noRestart

Start ==
  /\ pc = "start"
  /\ IF Restarting
     THEN \/ ControlSucceeds("start") /\ NoFault /\ Goto("commit")
          \/ ControlFails("start") /\ Fault /\ Rollback
     ELSE UNCHANGED unitVars /\ NoFault /\ Goto("commit")
  /\ Fixed
  /\ UNCHANGED <<wasActive, txVars>>

(* commit removes the old directories and the staging directory, then full *)
(* retention runs; whatever fails here is a warning.                       *)
Commit ==
  /\ pc = "commit"
  /\ \E kept \in SUBSET Dirs :
       /\ retired' = [d \in Dirs |-> IF d \in kept THEN retired[d] ELSE "absent"]
       /\ (kept = {} /\ NoFault) \/ Fault
  /\ staged' = NoDirs
  /\ Return("ok") /\ Fixed
  /\ UNCHANGED <<unitVars, wasActive, live, moved, installed, written>>

-----------------------------------------------------------------------------
(* rollback: remove the directory this transaction installed.              *)
RemoveNew ==
  /\ pc \in RemoveSteps
  /\ LET d == Dir(pc) IN
     \/ d \in installed /\ live' = [live EXCEPT ![d] = "absent"] /\ NoFault
     \/ /\ d \in installed
        /\ live' \in {live, [live EXCEPT ![d] = "damaged"]}
        /\ Fault
     \/ d \notin installed /\ UNCHANGED live /\ NoFault
  /\ Goto(Following(pc)) /\ Fixed
  /\ UNCHANGED <<unitVars, wasActive, staged, retired, moved, installed, written>>

(* rollback: move the old directory back.  A directory that is still in    *)
(* its place makes the rename fail by itself, unless it is empty.          *)
MoveBack ==
  /\ pc \in RestoreSteps
  /\ LET d == Dir(pc) IN
     \/ /\ d \in moved
        /\ live' = [live EXCEPT ![d] = retired[d]]
        /\ retired' = [retired EXCEPT ![d] = "absent"]
        /\ NoFault
     \/ d \in moved /\ Fault /\ UNCHANGED <<live, retired>>
     \/ d \in moved /\ live[d] # "absent" /\ NoFault /\ UNCHANGED <<live, retired>>
     \/ d \notin moved /\ NoFault /\ UNCHANGED <<live, retired>>
  /\ Goto(Following(pc)) /\ Fixed
  /\ UNCHANGED <<unitVars, wasActive, staged, moved, installed, written>>

(* rollback: restoreOptionalFile writes the old text again, or removes the *)
(* file if there was none.                                                 *)
RestoreText ==
  /\ pc \in RewriteSteps
  /\ LET t == Text(pc) IN
     \/ t \in written /\ live' = [live EXCEPT ![t] = before[t]] /\ NoFault
     \/ t \in written /\ live' \in {live, [live EXCEPT ![t] = before[t]]} /\ Fault
     \/ t \notin written /\ UNCHANGED live /\ NoFault
  /\ Goto(Following(pc)) /\ Fixed
  /\ UNCHANGED <<unitVars, wasActive, staged, retired, moved, installed, written>>

(* rollback: the staging directory, the .part files, the directory syncs.  *)
DropStaging ==
  /\ pc = "dropStaging"
  /\ \/ staged' = NoDirs /\ NoFault
     \/ UNCHANGED staged /\ Fault
  /\ Goto("restart") /\ Fixed
  /\ UNCHANGED <<unitVars, wasActive, live, retired, moved, installed, written>>

(* Mutant of Restart: the server is started only for --no-restart.         *)
RestartInverted ==
  /\ pc = "restart"
  /\ IF wasActive /\ noRestart
     THEN \/ ControlSucceeds("start") /\ NoFault
          \/ ControlFails("start") /\ Fault
     ELSE UNCHANGED unitVars /\ NoFault
  /\ Return("error") /\ Fixed
  /\ UNCHANGED <<wasActive, txVars>>

(* The fail closure starts the server again after the rollback.            *)
Restart ==
  /\ pc = "restart"
  /\ IF Restarting
     THEN \/ ControlSucceeds("start") /\ NoFault
          \/ ControlFails("start") /\ Fault
     ELSE UNCHANGED unitVars /\ NoFault
  /\ Return("error") /\ Fixed
  /\ UNCHANGED <<wasActive, txVars>>

-----------------------------------------------------------------------------
Running == pc \notin {"done", "crashed"}

(* The process dies.  What it knew of the old texts is gone with it.       *)
Crash ==
  /\ Running
  /\ pc' = "crashed"
  /\ Fixed
  /\ UNCHANGED <<unitVars, result, wasActive, txVars, faults>>

Unit == UnitStep /\ Fixed /\ UNCHANGED <<pc, result, wasActive, txVars, faults>>

Terminated == ~Running /\ UNCHANGED vars

Command ==
  \/ Prepare \/ CheckActive \/ Stop \/ Stage
  \/ MoveOld \/ Install \/ SyncMods \/ WriteText
  \/ Start \/ Commit
  \/ RemoveNew \/ MoveBack \/ RestoreText \/ DropStaging \/ Restart

Next == Command \/ Crash \/ Unit \/ Terminated

Spec == Init /\ [][Next]_vars

-----------------------------------------------------------------------------
TypeOK ==
  /\ UnitTypeOK
  /\ pc \in Steps
  /\ result \in {"none", "ok", "error"}
  /\ noRestart \in BOOLEAN
  /\ wasActive \in BOOLEAN
  /\ before \in [Items -> {"absent", "old"}]
  /\ live \in [Items -> Contents]
  /\ staged \in [Dirs -> {"absent", "new"}]
  /\ retired \in [Dirs -> {"absent", "old"}]
  /\ moved \in SUBSET Dirs
  /\ installed \in SUBSET Dirs
  /\ written \in SUBSET Texts
  /\ faults \in 0..MaxFaults

Untouched == live = before
Replaced  == live = [i \in Items |-> "new"]

(* Every old mods directory is still on the disk, live or set aside.       *)
OldKept ==
  \A d \in Dirs : before[d] = "old" => live[d] = "old" \/ retired[d] = "old"

(* Whatever fails, however often, and wherever the process dies: an old    *)
(* mods directory is removed only when the new package is complete.        *)
NothingLost == Replaced \/ OldKept

(* current.txt, which players' clients follow, names the new package only  *)
(* when its plugins, scripts and customScripts.lua are in place, unless a  *)
(* rollback is under way, died, or met a second failure.  (It takes them   *)
(* back in the same order, current.txt not first.)                         *)
PublishedLast ==
  /\ live["current"] = "new"
  /\ pc \notin RollbackSteps \cup {"crashed"}
  /\ faults < 2
  => Replaced

(* A server that does not crash on its own is down while mods are          *)
(* switched, and while they are rolled back unless the start that failed   *)
(* had been killed at its deadline: its job may run in the middle of that. *)
ServerDownDuringSwitch ==
  gameCrashes = 0 =>
    /\ pc \in SwitchSteps => unit # "active"
    /\ pc \in RollbackSteps /\ unit = "active" => "start" \in abandoned

(* After an error the server runs, or systemd is about to run it, if it    *)
(* ran before, whatever late start there was: unless the operator asked    *)
(* for --no-restart, a second operation failed, or the stop was killed at  *)
(* its deadline and takes effect after all.                                *)
ServerAsBefore ==
  result = "error" /\ wasActive /\ ~noRestart /\ faults < 2 /\ unit = "inactive" =>
    "stop" \in abandoned

(* A stop that was killed at its deadline ended the command with an error  *)
(* and no file touched, so that it cannot meet a switch when it runs late. *)
LateStopMeetsNothing ==
  "stop" \in abandoned =>
    /\ pc = "done" /\ result = "error" /\ Untouched
    /\ staged = NoDirs /\ retired = NoDirs

(* Players are not on the server while mods are switched, and they are     *)
(* back on it after an error: both halves of the stop and restart around a *)
(* deploy, with control commands that fail, or time out and take effect    *)
(* later.  Two cases are excused, and named by the command left behind: a  *)
(* late start may come up during the rollback (RolledBackWhileDown), and a *)
(* late stop may leave the server down after a deploy that changed nothing *)
(* (deployModsLocked, its fail closure, deployControl).                    *)
ServerStopsAndReturns ==
  ServerDownDuringSwitch /\ ServerAsBefore /\ LateStopMeetsNothing

(* docs/v2/04-ops.md:82, "`mods deploy` and `state deploy` stop the server *)
(* before they replace files": also when a rollback replaces them.  The    *)
(* code does not stop a server again whose start timed out.                *)
RolledBackWhileDown ==
  gameCrashes = 0 /\ pc \in RollbackSteps => unit # "active"

(* The promise of AtomicDeploy, seen at the moments a caller can see it.   *)
(* What is kept through a crash are the mods directories, not the texts; a *)
(* rollback that met a second failure promises no more than a crash does.  *)
Promise == INSTANCE AtomicDeploy WITH
  outcome <- IF Running THEN "pending"
             ELSE IF pc = "done" /\ (result = "ok" \/ faults < 2) THEN result
             ELSE "crashed",
  live    <- IF Running \/ Untouched THEN "before"
             ELSE IF Replaced THEN "after" ELSE "torn",
  kept    <- Running \/ OldKept

KeepsPromise == Promise!Spec
=============================================================================
