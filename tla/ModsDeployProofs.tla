-------------------------- MODULE ModsDeployProofs --------------------------
(***************************************************************************)
(* Proofs about ModsDeploy and Doctor, for any number of failures, those   *)
(* of the rollback included, and a death of the process anywhere: types,   *)
(* that no old mods directory is lost, that current.txt is published last, *)
(* that the server is stopped and comes back, that the deploy implements   *)
(* AtomicDeploy, and that doctor's all-clear is true.                      *)
(*                                                                         *)
(* Three invariants carry them.  KeepInv follows one directory through the *)
(* transaction: not yet moved, moved aside with nothing in its place,      *)
(* replaced, and in the rollback before and after the step that moves it   *)
(* back.  UndoInv says what the rollback of a single failure finds and     *)
(* restores.  ServerInv follows the unit.                                  *)
(***************************************************************************)
EXTENDS Doctor, TLAPS

NotMoved(d) ==
  {"prepare", "isActive", "stop", "stage", "movePlugins"}
    \cup (IF d = "plugins" THEN {} ELSE {"installPlugins", "moveScripts"})

Missing(d) == IF d = "plugins" THEN {"installPlugins"} ELSE {"installScripts"}

InPlace(d) ==
  {"syncMods", "writeCustom", "writeCurrent", "start", "commit"}
    \cup (IF d = "plugins" THEN {"moveScripts", "installScripts"} ELSE {})

ToRestore(d) ==
  {"removePlugins", "restorePlugins"}
    \cup (IF d = "plugins" THEN {} ELSE {"removeScripts", "restoreScripts"})

Restored(d) ==
  {"restoreCurrent", "restoreCustom", "dropStaging", "restart"}
    \cup (IF d = "plugins" THEN {"removeScripts", "restoreScripts"} ELSE {})

DirInv(d) ==
  /\ pc \in NotMoved(d) =>
       d \notin moved /\ d \notin installed /\ live[d] = before[d]
  /\ pc \in Missing(d) \cup InPlace(d) /\ before[d] = "old" =>
       d \in moved /\ retired[d] = "old"
  /\ pc \in Missing(d) => d \notin installed
  /\ pc \in InPlace(d) => live[d] = "new"
  /\ pc \in ToRestore(d) /\ before[d] = "old" =>
       \/ d \in moved /\ retired[d] = "old"
       \/ d \notin moved /\ d \notin installed /\ live[d] = "old"
  /\ pc \in Restored(d) /\ before[d] = "old" =>
       live[d] = "old" \/ retired[d] = "old"

(* The new package on its way into place.                                  *)
PackageInv ==
  /\ pc \in {"movePlugins", "installPlugins"} => staged["plugins"] = "new"
  /\ pc \in {"movePlugins", "installPlugins", "moveScripts", "installScripts"} =>
       staged["scripts"] = "new"
  /\ pc \in {"writeCurrent", "start", "commit"} => live["customScripts"] = "new"
  /\ pc \in {"start", "commit"} => live["current"] = "new"

KeepInv ==
  /\ \A d \in Dirs : DirInv(d)
  /\ PackageInv
  /\ pc \in {"done", "crashed"} => NothingLost

-----------------------------------------------------------------------------
LEMMA UnitTypes ==
  ASSUME UnitTypeOK, NEW verb \in Verbs,
         ControlSucceeds(verb) \/ ControlFails(verb) \/ UnitStep
                               \/ UNCHANGED unitVars
  PROVE  UnitTypeOK'
<1>1. /\ unit \in UnitStates /\ job \in Verbs \cup {"none"}
      /\ gameCrashes \in 0..MaxGameCrashes /\ abandoned \in SUBSET Verbs
  BY DEF UnitTypeOK
<1>2. unit' \in UnitStates /\ job' \in Verbs \cup {"none"}
  BY <1>1 DEF Verbs, UnitStates, ControlSucceeds, ControlFails, UnitStep, JobRuns,
              GameCrashes, AutoRestart, Reached, unitVars
<1>3. gameCrashes' \in 0..MaxGameCrashes
  BY <1>1, UnitAssumption
  DEF ControlSucceeds, ControlFails, UnitStep, JobRuns, GameCrashes, AutoRestart,
      unitVars
<1>4. abandoned' \in SUBSET Verbs
  BY <1>1 DEF ControlSucceeds, ControlFails, UnitStep, JobRuns, GameCrashes,
              AutoRestart, unitVars
<1> QED
  BY <1>2, <1>3, <1>4 DEF UnitTypeOK

LEMMA FaultTypes ==
  ASSUME faults \in 0..MaxFaults, Fault \/ NoFault
  PROVE  faults' \in 0..MaxFaults
BY FaultsAssumption DEF Fault, NoFault

(* Where each old directory is at every step, for any number of faults.    *)
THEOREM ModsDeployKeeps == Spec => [](TypeOK /\ KeepInv)
<1> USE DEF Items, Dirs, Texts, Contents
<1>1. Init => TypeOK /\ KeepInv
  <2> SUFFICES ASSUME Init PROVE TypeOK /\ KeepInv
    OBVIOUS
  <2>1. UnitTypeOK
    BY UnitAssumption DEF Init, UnitInit, UnitTypeOK, UnitStates
  <2>2. TypeOK
    <3>1. before \in [Items -> {"absent", "old"}] /\ live \in [Items -> Contents]
      BY DEF Init
    <3>2. staged \in [Dirs -> {"absent", "new"}] /\ retired \in [Dirs -> {"absent", "old"}]
      BY DEF Init, NoDirs
    <3>3. /\ pc \in Steps /\ result = "none" /\ noRestart \in BOOLEAN
          /\ wasActive = FALSE /\ faults \in 0..MaxFaults
          /\ moved = {} /\ installed = {} /\ written = {}
      BY FaultsAssumption DEF Init, Steps
    <3> QED
      BY <2>1, <3>1, <3>2, <3>3 DEF TypeOK
  <2>3. KeepInv
    BY DEF Init, KeepInv, DirInv, PackageInv, NotMoved, Missing, InPlace,
           ToRestore, Restored
  <2> QED
    BY <2>2, <2>3
<1>2. TypeOK /\ KeepInv /\ [Next]_vars => (TypeOK /\ KeepInv)'
  <2> SUFFICES ASSUME TypeOK, KeepInv, [Next]_vars PROVE (TypeOK /\ KeepInv)'
    OBVIOUS
  <2> DEFINE Typed == /\ UnitTypeOK' /\ faults' \in 0..MaxFaults /\ Fixed
                      /\ wasActive' \in BOOLEAN
  <2> USE DEF KeepInv, DirInv, PackageInv, NotMoved, Missing, InPlace, ToRestore,
              Restored, Goto, Return, Rollback, Steps, SwitchSteps,
              RollbackSteps, MoveSteps, InstallSteps, WriteSteps, RemoveSteps,
              RestoreSteps, RewriteSteps
  <2>1. CASE Prepare \/ CheckActive \/ Stop
    <3>1. Typed
      BY <2>1, UnitTypes, FaultTypes
      DEF Prepare, CheckActive, Stop, TypeOK, IsActive, Verbs
    <3> QED
      BY <2>1, <3>1
      DEF Prepare, CheckActive, Stop, TypeOK, Fixed, txVars, NothingLost, OldKept
  <2>2. CASE Stage
    <3>1. Typed
      BY <2>2, UnitTypes, FaultTypes DEF Stage, TypeOK, Verbs
    <3> QED
      BY <2>2, <3>1 DEF Stage, TypeOK, Fixed
  <2>3. CASE MoveOld
    <3>1. Typed
      BY <2>3, UnitTypes, FaultTypes DEF MoveOld, TypeOK, Verbs
    <3> QED
      BY <2>3, <3>1 DEF MoveOld, TypeOK, Fixed, Dir, Following
  <2>4. CASE Install
    <3>1. Typed
      BY <2>4, UnitTypes, FaultTypes DEF Install, TypeOK, Verbs
    <3> QED
      BY <2>4, <3>1 DEF Install, TypeOK, Fixed, Dir, Following
  <2>5. CASE SyncMods
    <3>1. Typed
      BY <2>5, UnitTypes, FaultTypes DEF SyncMods, TypeOK, Verbs
    <3> QED
      BY <2>5, <3>1 DEF SyncMods, TypeOK, Fixed, Following, txVars
  <2>6. CASE WriteText
    <3>1. Typed
      BY <2>6, UnitTypes, FaultTypes DEF WriteText, TypeOK, Verbs
    <3> QED
      BY <2>6, <3>1 DEF WriteText, TypeOK, Fixed, Text, Following
  <2>7. CASE Start
    <3>1. Typed
      BY <2>7, UnitTypes, FaultTypes DEF Start, TypeOK, Verbs
    <3> QED
      BY <2>7, <3>1 DEF Start, TypeOK, Fixed, txVars
  <2>8. CASE Commit
    <3>1. Typed
      BY <2>8, UnitTypes, FaultTypes DEF Commit, TypeOK, Verbs
    <3>2. Replaced'
      BY <2>8 DEF Commit, Replaced, TypeOK
    <3> QED
      BY <2>8, <3>1, <3>2 DEF Commit, TypeOK, Fixed, NoDirs, NothingLost
  <2>9. CASE RemoveNew
    <3>1. Typed
      BY <2>9, UnitTypes, FaultTypes DEF RemoveNew, TypeOK, Verbs
    <3>2. TypeOK'
      BY <2>9, <3>1 DEF RemoveNew, TypeOK, Fixed, Dir, Following
    <3>3. DirInv("plugins")'
      BY <2>9 DEF RemoveNew, TypeOK, Fixed, Dir, Following
    <3>4. DirInv("scripts")'
      BY <2>9 DEF RemoveNew, TypeOK, Fixed, Dir, Following
    <3>5. PackageInv' /\ pc' \in RollbackSteps
      BY <2>9 DEF RemoveNew, Following
    <3> QED
      BY <3>2, <3>3, <3>4, <3>5
  <2>10. CASE MoveBack
    <3>1. Typed
      BY <2>10, UnitTypes, FaultTypes DEF MoveBack, TypeOK, Verbs
    <3>2. TypeOK'
      BY <2>10, <3>1 DEF MoveBack, TypeOK, Fixed, Dir, Following
    <3>3. DirInv("plugins")'
      BY <2>10 DEF MoveBack, TypeOK, Fixed, Dir, Following
    <3>4. DirInv("scripts")'
      BY <2>10 DEF MoveBack, TypeOK, Fixed, Dir, Following
    <3>5. PackageInv' /\ pc' \in RollbackSteps
      BY <2>10 DEF MoveBack, Following
    <3> QED
      BY <3>2, <3>3, <3>4, <3>5
  <2>11. CASE RestoreText
    <3>1. Typed
      BY <2>11, UnitTypes, FaultTypes DEF RestoreText, TypeOK, Verbs
    <3>2. TypeOK'
      BY <2>11, <3>1 DEF RestoreText, TypeOK, Fixed, Text, Following
    <3>3. DirInv("plugins")'
      BY <2>11 DEF RestoreText, TypeOK, Fixed, Text, Following
    <3>4. DirInv("scripts")'
      BY <2>11 DEF RestoreText, TypeOK, Fixed, Text, Following
    <3>5. PackageInv' /\ pc' \in RollbackSteps
      BY <2>11 DEF RestoreText, Following
    <3> QED
      BY <3>2, <3>3, <3>4, <3>5
  <2>12. CASE DropStaging
    <3>1. Typed
      BY <2>12, UnitTypes, FaultTypes DEF DropStaging, TypeOK, Verbs
    <3> QED
      BY <2>12, <3>1 DEF DropStaging, TypeOK, Fixed, NoDirs
  <2>13. CASE Restart
    <3>1. Typed
      BY <2>13, UnitTypes, FaultTypes DEF Restart, TypeOK, Verbs
    <3> QED
      BY <2>13, <3>1 DEF Restart, TypeOK, Fixed, txVars, NothingLost, OldKept
  <2>14. CASE Crash
    <3>1. NothingLost
      BY <2>14 DEF Crash, Running, TypeOK, NothingLost, OldKept, Replaced
    <3> QED
      BY <2>14, <3>1
      DEF Crash, txVars, Fixed, TypeOK, NothingLost, OldKept, Replaced, unitVars,
          UnitTypeOK
  <2>15. CASE Unit
    <3>1. UnitTypeOK'
      BY <2>15, UnitTypes DEF Unit, TypeOK, Verbs
    <3> QED
      BY <2>15, <3>1
      DEF Unit, txVars, Fixed, TypeOK, NothingLost, OldKept, Replaced
  <2>16. CASE UNCHANGED vars
    BY <2>16 DEF vars, unitVars, txVars, TypeOK, UnitTypeOK, NothingLost,
                 OldKept, Replaced
  <2> QED
    BY <2>1, <2>2, <2>3, <2>4, <2>5, <2>6, <2>7, <2>8, <2>9, <2>10, <2>11,
       <2>12, <2>13, <2>14, <2>15, <2>16
    DEF Next, Command, Terminated
<1> QED
  BY <1>1, <1>2, PTL DEF Spec

(* However many operations fail, also in the rollback, and wherever the    *)
(* process dies, an old mods directory is removed only when the new        *)
(* package is complete: .old-<id> lies outside what the rollback removes.  *)
THEOREM NothingIsLost == Spec => []NothingLost
<1>1. TypeOK /\ KeepInv => NothingLost
  BY DEF TypeOK, KeepInv, DirInv, NotMoved, Missing, InPlace, ToRestore,
         Restored, Steps, SwitchSteps, RollbackSteps, MoveSteps, InstallSteps,
         WriteSteps, RemoveSteps, RestoreSteps, RewriteSteps, NothingLost,
         OldKept, Dirs
<1> QED
  BY <1>1, ModsDeployKeeps, PTL

(* The type invariant, for any number of faults.                           *)
THEOREM ModsDeployTypes == Spec => []TypeOK
BY ModsDeployKeeps, PTL

-----------------------------------------------------------------------------
(* The rollback of a single failure.  Undoable says of a directory that    *)
(* removing what was installed and moving back what was moved gives it as  *)
(* it was; the steps of the rollback do that to one directory and one text *)
(* after the other, and without a second failure nothing stands in their   *)
(* way.                                                                    *)
Forward ==
  {"prepare", "isActive", "stop", "stage"} \cup SwitchSteps \cup {"start", "commit"}

ToRemove(d) ==
  {"removePlugins"}
    \cup (IF d = "plugins" THEN {} ELSE {"restorePlugins", "removeScripts"})

ToReturn(d) == IF d = "plugins" THEN {"restorePlugins"} ELSE {"restoreScripts"}

Rewritten(t) ==
  {"dropStaging", "restart"} \cup (IF t = "current" THEN {"restoreCustom"} ELSE {})

SetAside(d) == d \in moved /\ before[d] = "old" /\ retired[d] = "old"

Undoable(d) ==
  \/ d \notin moved /\ d \notin installed /\ live[d] = before[d]
  \/ SetAside(d) /\ d \notin installed /\ live[d] = "absent"
  \/ d \in installed /\ (SetAside(d) \/ (d \notin moved /\ before[d] = "absent"))

Returning(d) ==
  \/ d \notin moved /\ live[d] = before[d]
  \/ SetAside(d) /\ live[d] = "absent"

DirUndo(d) ==
  /\ pc \in Forward \cup ToRemove(d) => Undoable(d)
  /\ faults < 2 /\ pc \in ToReturn(d) => Returning(d)
  /\ faults < 2 /\ pc \in Restored(d) => live[d] = before[d]

TextUndo(t) ==
  /\ t \notin written => live[t] = before[t]
  /\ faults < 2 /\ pc \in Rewritten(t) => live[t] = before[t]

OutcomeInv ==
  /\ pc \in {"prepare", "isActive", "stop", "stage"} => live = before /\ written = {}
  /\ pc \in Forward \ {"start", "commit"} => "current" \notin written
  /\ pc \in RollbackSteps \cup {"restart"} => faults > 0
  /\ pc # "done" => result = "none"
  /\ pc = "done" =>
       \/ result = "ok" /\ Replaced
       \/ result = "error" /\ (faults < 2 => Untouched)

UndoInv ==
  /\ \A d \in Dirs : DirUndo(d)
  /\ \A t \in Texts : TextUndo(t)
  /\ OutcomeInv

(* The new package is complete when the server is started.                 *)
LEMMA CommitReplaces ==
  ASSUME TypeOK, KeepInv, pc \in {"start", "commit"}
  PROVE  Replaced
BY DEF TypeOK, KeepInv, DirInv, InPlace, PackageInv, Replaced, Items, Dirs, Texts

(* A rollback that met no second failure has put everything back.          *)
LEMMA RestartUntouched ==
  ASSUME TypeOK, UndoInv, pc = "restart", faults < 2
  PROVE  Untouched
BY DEF TypeOK, UndoInv, DirUndo, TextUndo, Restored, Rewritten, Untouched, Items,
       Dirs, Texts

(* Where the old files are at every step as long as a second failure has   *)
(* not occurred.                                                           *)
THEOREM ModsDeployUndoes == Spec => []UndoInv
<1> USE DEF Items, Dirs, Texts, Contents, SwitchSteps, RollbackSteps, MoveSteps,
            InstallSteps, WriteSteps, RemoveSteps, RestoreSteps, RewriteSteps
<1>1. Init => UndoInv
  BY DEF Init, UndoInv, DirUndo, TextUndo, OutcomeInv, Undoable, Returning,
         Restored, Rewritten, ToRemove, ToReturn
<1>2. /\ TypeOK /\ TypeOK' /\ KeepInv /\ UndoInv /\ [Next]_vars
      => UndoInv'
  <2> SUFFICES ASSUME TypeOK, TypeOK', KeepInv, UndoInv, [Next]_vars
               PROVE  UndoInv'
    OBVIOUS
  <2>0. /\ faults \in Nat /\ faults' \in Nat
        /\ live \in [Items -> Contents] /\ before \in [Items -> {"absent", "old"}]
        /\ staged \in [Dirs -> {"absent", "new"}]
        /\ retired \in [Dirs -> {"absent", "old"}]
    BY DEF TypeOK
  <2>a. /\ DirUndo("plugins") /\ DirUndo("scripts")
        /\ TextUndo("customScripts") /\ TextUndo("current") /\ OutcomeInv
    BY DEF UndoInv
  <2>b. /\ DirUndo("plugins")' /\ DirUndo("scripts")'
        /\ TextUndo("customScripts")' /\ TextUndo("current")' /\ OutcomeInv'
        => UndoInv'
    BY DEF UndoInv
  <2> USE DEF Goto, Return, Rollback, Fault, NoFault, Fixed
  <2>1. CASE Prepare \/ CheckActive \/ Stop
    BY <2>0, <2>a, <2>b, <2>1
    DEF Prepare, CheckActive, Stop, txVars, Untouched, DirUndo, TextUndo, OutcomeInv, Forward, Undoable, Returning, SetAside,
        Restored, Rewritten, ToRemove, ToReturn
  <2>2. CASE Stage
    BY <2>0, <2>a, <2>b, <2>2
    DEF Stage, DirUndo, TextUndo, OutcomeInv, Forward, Undoable, Returning, SetAside,
        Restored, Rewritten, ToRemove, ToReturn
  <2>3. CASE MoveOld
    <3>1. pc \in MoveSteps
      BY <2>3 DEF MoveOld
    <3>2. ASSUME NEW d \in Dirs PROVE DirUndo(d)'
      <4>1. DirUndo(d)
        BY DEF UndoInv
      <4>2. CASE pc = "movePlugins"
        <5>1. Dir(pc) = "plugins" /\ Following(pc) = "installPlugins"
          BY <4>2 DEF Dir, Following
        <5>2. CASE d = "plugins"
          BY <2>0, <2>3, <4>1, <4>2, <5>1, <5>2
          DEF MoveOld, DirUndo, Forward, Undoable, SetAside, Restored, ToReturn,
              KeepInv, DirInv, NotMoved
        <5>3. CASE d # "plugins"
          BY <2>0, <2>3, <4>1, <4>2, <5>1, <5>3
          DEF MoveOld, DirUndo, Forward, Undoable, SetAside, Restored, ToReturn
        <5> QED
          BY <5>2, <5>3
      <4>3. CASE pc = "moveScripts"
        <5>1. Dir(pc) = "scripts" /\ Following(pc) = "installScripts"
          BY <4>3 DEF Dir, Following
        <5>2. CASE d = "scripts"
          BY <2>0, <2>3, <4>1, <4>3, <5>1, <5>2
          DEF MoveOld, DirUndo, Forward, Undoable, SetAside, Restored, ToReturn,
              KeepInv, DirInv, NotMoved
        <5>3. CASE d # "scripts"
          BY <2>0, <2>3, <4>1, <4>3, <5>1, <5>3
          DEF MoveOld, DirUndo, Forward, Undoable, SetAside, Restored, ToReturn
        <5> QED
          BY <5>2, <5>3
      <4> QED
        BY <3>1, <4>2, <4>3
    <3>3. ASSUME NEW t \in Texts PROVE TextUndo(t)'
      <4>1. TextUndo(t)
        BY DEF UndoInv
      <4>2. CASE pc = "movePlugins"
        BY <2>0, <2>3, <4>1, <4>2 DEF MoveOld, Dir, Following, TextUndo, Rewritten
      <4>3. CASE pc = "moveScripts"
        BY <2>0, <2>3, <4>1, <4>3 DEF MoveOld, Dir, Following, TextUndo, Rewritten
      <4> QED
        BY <3>1, <4>2, <4>3
    <3>4. OutcomeInv'
      BY <2>0, <2>a, <2>3 DEF MoveOld, Dir, Following, OutcomeInv, Forward
    <3> QED
      BY <3>2, <3>3, <3>4 DEF UndoInv
  <2>4. CASE Install
    BY <2>0, <2>a, <2>b, <2>4
    DEF Install, Dir, Following, KeepInv, DirInv, PackageInv, Missing, NotMoved, DirUndo, TextUndo, OutcomeInv, Forward, Undoable, Returning, SetAside,
        Restored, Rewritten, ToRemove, ToReturn
  <2>5. CASE SyncMods
    BY <2>0, <2>a, <2>b, <2>5
    DEF SyncMods, Following, txVars, DirUndo, TextUndo, OutcomeInv, Forward, Undoable, Returning, SetAside,
        Restored, Rewritten, ToRemove, ToReturn
  <2>6. CASE WriteText
    BY <2>0, <2>a, <2>b, <2>6
    DEF WriteText, Text, Following, DirUndo, TextUndo, OutcomeInv, Forward, Undoable, Returning, SetAside,
        Restored, Rewritten, ToRemove, ToReturn
  <2>7. CASE Start
    BY <2>0, <2>a, <2>b, <2>7
    DEF Start, txVars, DirUndo, TextUndo, OutcomeInv, Forward, Undoable, Returning, SetAside,
        Restored, Rewritten, ToRemove, ToReturn
  <2>8. CASE Commit
    BY <2>0, <2>a, <2>b, <2>8, CommitReplaces
    DEF Commit, Replaced, DirUndo, TextUndo, OutcomeInv, Forward, Undoable, Returning, SetAside,
        Restored, Rewritten, ToRemove, ToReturn
  <2>9. CASE RemoveNew
    <3>1. pc \in RemoveSteps
      BY <2>9 DEF RemoveNew
    <3>2. ASSUME NEW d \in Dirs PROVE DirUndo(d)'
      <4>1. DirUndo(d)
        BY DEF UndoInv
      <4>2. CASE pc = "removePlugins"
        BY <2>0, <2>a, <2>9, <4>1, <4>2
        DEF RemoveNew, Dir, Following, DirUndo, Forward, Undoable, Returning, SetAside, Restored, ToRemove,
            ToReturn, OutcomeInv
      <4>3. CASE pc = "removeScripts"
        BY <2>0, <2>a, <2>9, <4>1, <4>3
        DEF RemoveNew, Dir, Following, DirUndo, Forward, Undoable, Returning, SetAside, Restored, ToRemove,
            ToReturn, OutcomeInv
      <4> QED
        BY <3>1, <4>2, <4>3
    <3>3. ASSUME NEW t \in Texts PROVE TextUndo(t)'
      <4>1. TextUndo(t)
        BY DEF UndoInv
      <4>2. CASE pc = "removePlugins"
        BY <2>0, <2>9, <4>1, <4>2 DEF RemoveNew, Dir, Following, TextUndo, Rewritten
      <4>3. CASE pc = "removeScripts"
        BY <2>0, <2>9, <4>1, <4>3 DEF RemoveNew, Dir, Following, TextUndo, Rewritten
      <4> QED
        BY <3>1, <4>2, <4>3
    <3>4. OutcomeInv'
      <4>1. pc' \in RollbackSteps
        BY <2>9, <3>1 DEF RemoveNew, Following
      <4>2. faults' > 0 /\ result' = "none"
        BY <2>0, <2>a, <2>9, <3>1 DEF RemoveNew, OutcomeInv
      <4> QED
        BY <4>1, <4>2 DEF OutcomeInv, Forward
    <3> QED
      BY <3>2, <3>3, <3>4 DEF UndoInv
  <2>10. CASE MoveBack
    <3>1. pc \in RestoreSteps
      BY <2>10 DEF MoveBack
    <3>2. ASSUME NEW d \in Dirs PROVE DirUndo(d)'
      <4>1. DirUndo(d)
        BY DEF UndoInv
      <4>2. CASE pc = "restorePlugins"
        BY <2>0, <2>a, <2>10, <4>1, <4>2
        DEF MoveBack, Dir, Following, DirUndo, Forward, Undoable, Returning, SetAside, Restored, ToRemove,
            ToReturn, OutcomeInv
      <4>3. CASE pc = "restoreScripts"
        BY <2>0, <2>a, <2>10, <4>1, <4>3
        DEF MoveBack, Dir, Following, DirUndo, Forward, Undoable, Returning, SetAside, Restored, ToRemove,
            ToReturn, OutcomeInv
      <4> QED
        BY <3>1, <4>2, <4>3
    <3>3. ASSUME NEW t \in Texts PROVE TextUndo(t)'
      <4>1. TextUndo(t)
        BY DEF UndoInv
      <4>2. CASE pc = "restorePlugins"
        BY <2>0, <2>10, <4>1, <4>2 DEF MoveBack, Dir, Following, TextUndo, Rewritten
      <4>3. CASE pc = "restoreScripts"
        BY <2>0, <2>10, <4>1, <4>3 DEF MoveBack, Dir, Following, TextUndo, Rewritten
      <4> QED
        BY <3>1, <4>2, <4>3
    <3>4. OutcomeInv'
      <4>1. pc' \in RollbackSteps
        BY <2>10, <3>1 DEF MoveBack, Following
      <4>2. faults' > 0 /\ result' = "none"
        BY <2>0, <2>a, <2>10, <3>1 DEF MoveBack, OutcomeInv
      <4> QED
        BY <4>1, <4>2 DEF OutcomeInv, Forward
    <3> QED
      BY <3>2, <3>3, <3>4 DEF UndoInv
  <2>11. CASE RestoreText
    <3>1. pc \in RewriteSteps
      BY <2>11 DEF RestoreText
    <3>2. ASSUME NEW d \in Dirs PROVE DirUndo(d)'
      <4>1. DirUndo(d)
        BY DEF UndoInv
      <4>2. CASE pc = "restoreCurrent"
        BY <2>0, <2>a, <2>11, <4>1, <4>2
        DEF RestoreText, Text, Following, DirUndo, Forward, Undoable, Returning, SetAside, Restored, ToRemove,
            ToReturn, OutcomeInv
      <4>3. CASE pc = "restoreCustom"
        BY <2>0, <2>a, <2>11, <4>1, <4>3
        DEF RestoreText, Text, Following, DirUndo, Forward, Undoable, Returning, SetAside, Restored, ToRemove,
            ToReturn, OutcomeInv
      <4> QED
        BY <3>1, <4>2, <4>3
    <3>3. ASSUME NEW t \in Texts PROVE TextUndo(t)'
      <4>1. TextUndo(t)
        BY DEF UndoInv
      <4>2. CASE pc = "restoreCurrent"
        <5>1. Text(pc) = "current" /\ pc' = "restoreCustom"
          BY <2>11, <4>2 DEF RestoreText, Text, Following
        <5>2. faults > 0
          BY <2>a, <4>2 DEF OutcomeInv
        <5> QED
          BY <2>0, <2>11, <4>1, <4>2, <5>1, <5>2
          DEF RestoreText, TextUndo, Rewritten
      <4>3. CASE pc = "restoreCustom"
        <5>1. Text(pc) = "customScripts" /\ pc' = "dropStaging"
          BY <2>11, <4>3 DEF RestoreText, Text, Following
        <5>2. faults > 0
          BY <2>a, <4>3 DEF OutcomeInv
        <5> QED
          BY <2>0, <2>11, <4>1, <4>3, <5>1, <5>2
          DEF RestoreText, TextUndo, Rewritten
      <4> QED
        BY <3>1, <4>2, <4>3
    <3>4. OutcomeInv'
      <4>1. pc' \in RollbackSteps
        BY <2>11, <3>1 DEF RestoreText, Following
      <4>2. faults' > 0 /\ result' = "none"
        BY <2>0, <2>a, <2>11, <3>1 DEF RestoreText, OutcomeInv
      <4> QED
        BY <4>1, <4>2 DEF OutcomeInv, Forward
    <3> QED
      BY <3>2, <3>3, <3>4 DEF UndoInv
  <2>12. CASE DropStaging
    BY <2>0, <2>a, <2>b, <2>12
    DEF DropStaging, DirUndo, TextUndo, OutcomeInv, Forward, Undoable, Returning, SetAside,
        Restored, Rewritten, ToRemove, ToReturn
  <2>13. CASE Restart
    BY <2>0, <2>a, <2>b, <2>13, RestartUntouched
    DEF Restart, txVars, Untouched, DirUndo, TextUndo, OutcomeInv, Forward, Undoable, Returning, SetAside,
        Restored, Rewritten, ToRemove, ToReturn
  <2>14. CASE Crash
    BY <2>0, <2>a, <2>b, <2>14
    DEF Crash, Running, txVars, DirUndo, TextUndo, OutcomeInv, Forward, Undoable, Returning, SetAside,
        Restored, Rewritten, ToRemove, ToReturn
  <2>15. CASE Unit
    BY <2>0, <2>a, <2>b, <2>15
    DEF Unit, txVars, Replaced, Untouched, DirUndo, TextUndo, OutcomeInv, Forward, Undoable, Returning, SetAside,
        Restored, Rewritten, ToRemove, ToReturn
  <2>16. CASE UNCHANGED vars
    BY <2>0, <2>a, <2>b, <2>16
    DEF vars, txVars, Replaced, Untouched, DirUndo, TextUndo, OutcomeInv, Forward, Undoable, Returning, SetAside,
        Restored, Rewritten, ToRemove, ToReturn
  <2> QED
    BY <2>1, <2>2, <2>3, <2>4, <2>5, <2>6, <2>7, <2>8, <2>9, <2>10, <2>11,
       <2>12, <2>13, <2>14, <2>15, <2>16
    DEF Next, Command, Terminated
<1> QED
  BY <1>1, <1>2, ModsDeployKeeps, PTL DEF Spec

(* current.txt, which the players' clients follow, names the new package   *)
(* only when the rest of it is in place, for any number of failures        *)
(* (deployModsLocked writes it last, rollback).                            *)
THEOREM PublishesLast == Spec => []PublishedLast
<1>1. TypeOK /\ KeepInv /\ UndoInv => PublishedLast
  <2> SUFFICES ASSUME TypeOK, KeepInv, UndoInv, live["current"] = "new",
                      pc \notin RollbackSteps \cup {"crashed"}, faults < 2
               PROVE  Replaced
    BY DEF PublishedLast
  <2>1. before["current"] # "new"
    BY DEF TypeOK, Items, Texts
  <2>2. "current" \in written
    BY <2>1 DEF UndoInv, TextUndo, Texts
  <2>3. pc \in {"start", "commit", "restart", "done"}
    BY <2>2 DEF TypeOK, UndoInv, OutcomeInv, Forward, Steps, SwitchSteps
  <2>4. CASE pc = "restart"
    BY <2>1, <2>4, RestartUntouched DEF Untouched
  <2>5. CASE pc = "done"
    BY <2>1, <2>5 DEF UndoInv, OutcomeInv, Untouched
  <2> QED
    BY <2>3, <2>4, <2>5, CommitReplaces
<1> QED
  BY <1>1, ModsDeployKeeps, ModsDeployUndoes, PTL

-----------------------------------------------------------------------------
(* The server.  A systemd job that outlives its client may start or stop   *)
(* the unit at any later time: a stop only after the command has ended, a  *)
(* start only after the whole package was in place.                        *)
ServerInv ==
  /\ job \in abandoned \cup {"none"}
  /\ pc \in {"prepare", "isActive", "stop", "stage", "start"} \cup SwitchSteps =>
       abandoned = {}
  /\ gameCrashes = 0 =>
       /\ unit # "activating"
       /\ pc \in {"stage", "start"} \cup SwitchSteps => unit = "inactive"
       /\ pc \in RollbackSteps \cup {"restart"} /\ unit = "active" =>
            "start" \in abandoned
  /\ pc \in {"prepare", "isActive"} => ~wasActive
  /\ pc \in {"prepare", "isActive", "stop"} =>
       Untouched /\ staged = NoDirs /\ retired = NoDirs
  /\ pc = "stop" => unit # "inactive"
  /\ ServerAsBefore /\ LateStopMeetsNothing

(* What the unit does by itself, and when a queued job is behind it.       *)
LEMMA UnitAlone ==
  ASSUME job \in abandoned \cup {"none"}, unit \in UnitStates, gameCrashes \in Nat,
         abandoned \in SUBSET Verbs, UnitStep
  PROVE  /\ abandoned' = abandoned /\ job' \in abandoned' \cup {"none"}
         /\ unit' \in UnitStates
         /\ unit' = "inactive" => "stop" \in abandoned
         /\ gameCrashes' = 0 =>
              /\ gameCrashes = 0
              /\ unit # "activating" =>
                   unit' # "activating" /\ (unit' = "active" => "start" \in abandoned)
BY DEF UnitStep, JobRuns, GameCrashes, AutoRestart, Reached, UnitStates, Verbs

(* Players are off the server while mods are switched, and back on it      *)
(* after an error, whether control commands succeed, fail, or time out and *)
(* take effect later: for any number of failures and crashes of the        *)
(* server.                                                                 *)
THEOREM StopsAndReturns == Spec => []ServerStopsAndReturns
<1> USE DEF SwitchSteps, RollbackSteps, MoveSteps, InstallSteps, WriteSteps,
            RemoveSteps, RestoreSteps, RewriteSteps
<1>1. Init => ServerInv
  BY DEF Init, UnitInit, ServerInv, ServerAsBefore, LateStopMeetsNothing, Untouched
<1>2. TypeOK /\ UndoInv /\ ServerInv /\ [Next]_vars => ServerInv'
  <2> SUFFICES ASSUME TypeOK, UndoInv, ServerInv, [Next]_vars PROVE ServerInv'
    OBVIOUS
  <2>0. /\ faults \in Nat /\ gameCrashes \in Nat /\ unit \in UnitStates
        /\ OutcomeInv /\ abandoned \in SUBSET Verbs
    BY DEF TypeOK, UnitTypeOK, UndoInv
  <2> USE DEF Goto, Return, Rollback, Fault, NoFault, Fixed, ServerInv,
              ServerAsBefore, LateStopMeetsNothing, OutcomeInv, Untouched
  <2>1. CASE Prepare \/ CheckActive
    BY <2>0, <2>1 DEF Prepare, CheckActive, unitVars, txVars, IsActive, UnitStates
  <2>2. CASE Stop
    BY <2>0, <2>2 DEF Stop, ControlSucceeds, ControlFails, Reached, txVars
  <2>3. CASE Stage \/ MoveOld \/ Install \/ SyncMods \/ WriteText
    BY <2>0, <2>3 DEF Stage, MoveOld, Install, SyncMods, WriteText, Following, unitVars
  <2>4. CASE Start \/ Restart
    BY <2>0, <2>4
    DEF Start, Restart, Restarting, ControlSucceeds, ControlFails, Reached,
        txVars, unitVars
  <2>5. CASE Commit
    BY <2>0, <2>5 DEF Commit, unitVars
  <2>6. CASE RemoveNew \/ MoveBack \/ RestoreText \/ DropStaging
    BY <2>0, <2>6
    DEF RemoveNew, MoveBack, RestoreText, DropStaging, Following, unitVars
  <2>7. CASE Crash
    BY <2>7 DEF Crash, Running, txVars, unitVars
  <2>8. CASE Unit
    <3>1. UNCHANGED <<pc, result, noRestart, wasActive, before, live, staged,
                      retired, faults>>
      BY <2>8 DEF Unit, txVars
    <3>2. /\ abandoned' = abandoned /\ job' \in abandoned' \cup {"none"}
          /\ unit' \in UnitStates
          /\ unit' = "inactive" => "stop" \in abandoned
          /\ gameCrashes' = 0 =>
               /\ gameCrashes = 0
               /\ unit # "activating" =>
                    unit' # "activating" /\ (unit' = "active" => "start" \in abandoned)
      BY <2>0, <2>8, UnitAlone DEF Unit
    <3>3. ServerAsBefore' /\ LateStopMeetsNothing'
      BY <3>1, <3>2
    <3>4. gameCrashes' = 0 =>
            /\ unit' # "activating"
            /\ pc' \in {"stage", "start"} \cup SwitchSteps => unit' = "inactive"
            /\ pc' \in RollbackSteps \cup {"restart"} /\ unit' = "active" =>
                 "start" \in abandoned'
      <4>1. ASSUME gameCrashes' = 0, pc' \in {"stage", "start"} \cup SwitchSteps
            PROVE  unit' = "inactive"
        <5>1. abandoned = {}
          BY <3>1, <4>1
        <5>2. unit' # "activating" /\ unit' # "active"
          BY <3>2, <4>1, <5>1
        <5> QED
          BY <3>2, <5>2 DEF UnitStates
      <4> QED
        BY <3>1, <3>2, <4>1
    <3>5. /\ pc' \in {"prepare", "isActive", "stop", "stage", "start"} \cup SwitchSteps =>
               abandoned' = {}
          /\ pc' = "stop" => unit' # "inactive"
      BY <3>1, <3>2
    <3>6. /\ pc' \in {"prepare", "isActive"} => ~wasActive'
          /\ pc' \in {"prepare", "isActive", "stop"} =>
               (Untouched /\ staged = NoDirs /\ retired = NoDirs)'
      BY <3>1
    <3> QED
      BY <3>2, <3>3, <3>4, <3>5, <3>6
  <2>9. CASE UNCHANGED vars
    BY <2>9 DEF vars, txVars, unitVars
  <2> QED
    BY <2>1, <2>2, <2>3, <2>4, <2>5, <2>6, <2>7, <2>8, <2>9
    DEF Next, Command, Terminated
<1>3. TypeOK /\ ServerInv => ServerStopsAndReturns
  BY DEF ServerInv, ServerStopsAndReturns, ServerDownDuringSwitch
<1> QED
  BY <1>1, <1>2, <1>3, ModsDeployTypes, ModsDeployUndoes, PTL DEF Spec

-----------------------------------------------------------------------------
LEMMA FinishedStays ==
  ASSUME ~Running, [Next]_vars
  PROVE  UNCHANGED <<pc, result, before, live, retired, faults>>
BY DEF Running, Next, Command, vars, txVars, Prepare, CheckActive, Stop, Stage,
       MoveOld, Install, SyncMods, WriteText, Start, Commit, RemoveNew,
       MoveBack, RestoreText, DropStaging, Restart, Crash, Unit, Terminated,
       Fixed, MoveSteps, InstallSteps, WriteSteps, RemoveSteps, RestoreSteps,
       RewriteSteps

(* A mods deploy refines AtomicDeploy: what its caller sees at the end is  *)
(* one of the outcomes promised there, however many operations fail and    *)
(* wherever the process dies (an error after a second failure promises no  *)
(* more than a crash); a step before the end is not seen at all.           *)
THEOREM ModsAtomicity == Spec => KeepsPromise
<1>1. Init => Promise!Init
  BY DEF Init, Promise!Init, Running
<1>2. /\ TypeOK /\ TypeOK' /\ KeepInv' /\ UndoInv /\ UndoInv' /\ [Next]_vars
      => [Promise!Next]_(Promise!vars)
  <2> SUFFICES ASSUME TypeOK, TypeOK', KeepInv', UndoInv, UndoInv', [Next]_vars
               PROVE  [Promise!Next]_(Promise!vars)
    OBVIOUS
  <2>1. CASE ~Running
    <3>1. UNCHANGED <<pc, result, before, live, retired, faults>>
      BY <2>1, FinishedStays
    <3> QED
      BY <3>1 DEF Promise!vars, Running, Untouched, Replaced, OldKept
  <2>2. CASE Running /\ Running'
    BY <2>2 DEF Promise!vars
  <2>3. CASE Running /\ ~Running'
    <3>1. /\ pc' = "done" \/ pc' = "crashed"
          /\ NothingLost'
      BY <2>3 DEF Running, KeepInv
    <3>2. ~(Untouched' /\ Replaced')
      BY DEF TypeOK, Untouched, Replaced, Items, Texts
    <3>3. Untouched' => OldKept'
      BY DEF Untouched, OldKept
    <3>4. CASE pc' = "done" /\ result' = "ok"
      <4>1. Replaced'
        BY <3>4 DEF UndoInv, OutcomeInv
      <4> QED
        BY <2>3, <3>2, <3>4, <4>1 DEF Promise!Next, Promise!Succeed, Running
    <3>5. CASE pc' = "done" /\ result' # "ok" /\ faults' < 2
      <4>1. Untouched' /\ result' = "error"
        BY <3>5 DEF UndoInv, OutcomeInv
      <4> QED
        BY <2>3, <3>3, <3>5, <4>1 DEF Promise!Next, Promise!Fail, Running
    <3>6. CASE ~(pc' = "done" /\ (result' = "ok" \/ faults' < 2))
      BY <2>3, <3>1, <3>2, <3>3, <3>6
      DEF Promise!Next, Promise!Crash, Running, NothingLost
    <3> QED
      BY <3>4, <3>5, <3>6
  <2> QED
    BY <2>1, <2>2, <2>3
<1> QED
  BY <1>1, <1>2, ModsDeployKeeps, ModsDeployUndoes, PTL
  DEF Spec, KeepsPromise, Promise!Spec

-----------------------------------------------------------------------------
(* Doctor beside the deploy.  It changes nothing of the deploy, so what is *)
(* proved above holds beside it.                                           *)
LEMMA DoctorStep ==
  ASSUME [DoctorNext]_allVars
  PROVE  [Next]_vars
BY DEF DoctorNext, allVars, Run, RunCheck, Deploy, Die, Next

(* Doctor beside a deploy leaves it the deploy it is.                      *)
THEOREM DoctorWatches == DoctorSpec => Spec
<1>1. DoctorInit => Init
  BY DEF DoctorInit
<1> QED
  BY <1>1, DoctorStep, PTL DEF DoctorSpec, Spec

(* What is old was there before.                                           *)
OldWasThere ==
  \A d \in Dirs : live[d] = "old" \/ retired[d] = "old" => before[d] = "old"

(* What the files beside the live ones say of the deploy.                  *)
RemainsInv ==
  /\ StagingHolds => stagingDir
  /\ pc # "crashed" => parts = {}
  /\ pc \in {"prepare", "isActive", "stop", "stage"} => ~stagingDir
  /\ pc = "done" /\ result = "ok" /\ faults = 0 => ~stagingDir /\ retired = NoDirs

(* A doctor that nothing disturbed has seen, check by check, the tree that *)
(* is there now.                                                           *)
SeenInv ==
  /\ check \in 0..5
  /\ check = 0 => failed = {}
  /\ quiet /\ check > 0 =>
       /\ ~Running
       /\ failed \subseteq {Checks[i] : i \in 1..4}
       /\ \A i \in 1..4 : i < check => (Checks[i] \in failed <=> ~Passes(Checks[i]))
       /\ \A i \in 1..4 : i >= check => Checks[i] \notin failed

DoctorInv == OldWasThere /\ RemainsInv /\ SeenInv

LEMMA ChecksAre ==
  /\ Len(Checks) = 4
  /\ Checks[1] = "current" /\ Checks[2] = "datafiles"
  /\ Checks[3] = "configs" /\ Checks[4] = "cleanup"
BY DEF Checks

LEMMA PassesAre ==
  /\ Passes("current") <=> checkCurrent
  /\ Passes("datafiles") <=> checkDataFiles
  /\ Passes("configs") <=> checkCustomScripts
  /\ Passes("cleanup") <=> checkCleanup
BY DEF Passes

(* Where a step of the command can lead.                                   *)
LEMMA CommandLeads ==
  ASSUME Command
  PROVE  /\ Running /\ pc' # "crashed"
         /\ pc' \in {"prepare", "isActive", "stop", "stage"} =>
              pc \in {"prepare", "isActive", "stop"}
         /\ pc' = "done" => (pc = "commit" /\ Commit) \/ result' = "error"
BY DEF Command, Running, Prepare, CheckActive, Stop, Stage, MoveOld, Install,
       SyncMods, WriteText, Start, Commit, RemoveNew, MoveBack, RestoreText,
       DropStaging, Restart, Goto, Return, Rollback, Following, MoveSteps,
       InstallSteps, WriteSteps, RemoveSteps, RestoreSteps, RewriteSteps

LEMMA OldStays ==
  ASSUME TypeOK, OldWasThere, [Next]_vars
  PROVE  OldWasThere'
<1> USE DEF Items, Dirs, Texts, Contents
<1>0. /\ live \in [Items -> Contents] /\ retired \in [Dirs -> {"absent", "old"}]
      /\ staged \in [Dirs -> {"absent", "new"}]
  BY DEF TypeOK
<1>1. CASE UNCHANGED <<live, retired, before>>
  BY <1>1 DEF OldWasThere
<1>2. CASE MoveOld
  BY <1>0, <1>2 DEF MoveOld, OldWasThere, Dir, Fixed
<1>3. CASE Install
  BY <1>0, <1>3 DEF Install, OldWasThere, Dir, Fixed
<1>4. CASE WriteText
  BY <1>0, <1>4 DEF WriteText, OldWasThere, Text, Fixed
<1>5. CASE Commit
  BY <1>0, <1>5 DEF Commit, OldWasThere, Fixed
<1>6. CASE RemoveNew
  BY <1>0, <1>6 DEF RemoveNew, OldWasThere, Dir, Fixed
<1>7. CASE MoveBack
  BY <1>0, <1>7 DEF MoveBack, OldWasThere, Dir, Fixed
<1>8. CASE RestoreText
  BY <1>0, <1>8 DEF RestoreText, OldWasThere, Text, Fixed
<1> QED
  BY <1>1, <1>2, <1>3, <1>4, <1>5, <1>6, <1>7, <1>8
  DEF Next, Command, Prepare, CheckActive, Stop, Stage, SyncMods, Start,
      DropStaging, Restart, Crash, Unit, Terminated, txVars, vars, Fixed

(* An all-clear of an undisturbed doctor means one complete package in     *)
(* mods/ and no remains; a deploy that went well gets the all-clear: for   *)
(* any number of failures of the deploy, and wherever it dies.             *)
THEOREM DoctorTellsTheTruth == DoctorSpec => []DoctorIsRight
<1>1. DoctorInit => DoctorInv
  BY ChecksAre
  DEF DoctorInit, Init, DoctorInv, OldWasThere, RemainsInv, SeenInv, StagingHolds,
      Items, Dirs, Texts, NoDirs
<1>2. /\ TypeOK /\ TypeOK' /\ UndoInv /\ UndoInv' /\ DoctorInv /\ [DoctorNext]_allVars
      => DoctorInv'
  <2> SUFFICES ASSUME TypeOK, TypeOK', UndoInv, UndoInv', DoctorInv, [DoctorNext]_allVars
               PROVE  DoctorInv'
    OBVIOUS
  <2>1. OldWasThere'
    BY DoctorStep, OldStays DEF DoctorInv
  <2>2. RemainsInv'
    <3> USE DEF RemainsInv
    <3>0. RemainsInv /\ faults \in Nat /\ faults' \in Nat
      BY DEF DoctorInv, TypeOK
    <3>1. CASE Deploy
      <4>1. /\ StagingHolds' => stagingDir'
            /\ parts' = parts /\ stagingDir' \in StagingAfter /\ Command
        BY <3>1 DEF Deploy
      <4>2. parts' = {} /\ pc' # "crashed"
        BY <3>0, <4>1, CommandLeads DEF Running
      <4>3. pc' \in {"prepare", "isActive", "stop", "stage"} => ~stagingDir'
        BY <3>0, <4>1, CommandLeads DEF StagingAfter
      <4>4. ASSUME pc' = "done", result' = "ok", faults' = 0
            PROVE  ~stagingDir' /\ retired' = NoDirs
        <5>1. pc = "commit" /\ Commit
          BY <4>1, <4>4, CommandLeads
        <5>2. faults = 0 /\ retired' = NoDirs
          BY <3>0, <4>4, <5>1 DEF Commit, Fault, NoFault, NoDirs
        <5>3. ~stagingDir'
          BY <3>0, <4>1, <4>4, <5>1, <5>2 DEF StagingAfter
        <5> QED
          BY <5>2, <5>3
      <4> QED
        BY <4>1, <4>2, <4>3, <4>4
    <3>2. CASE Die
      BY <3>0, <3>2 DEF Die, Crash, Running, StagingHolds, txVars
    <3>3. CASE UNCHANGED <<pc, result, staged, retired, faults, treeVars>>
      BY <3>0, <3>3 DEF StagingHolds, treeVars
    <3> QED
      BY <3>1, <3>2, <3>3
      DEF DoctorNext, allVars, vars, txVars, Run, RunCheck, Unit, Terminated
  <2>3. SeenInv'
    <3>0. SeenInv
      BY DEF DoctorInv
    <3>1. CASE Run
      <4>1. check' = 1 /\ failed' = {} /\ (quiet' => ~Running)
        BY <3>1 DEF Run
      <4>2. Running' <=> Running
        BY <3>1 DEF Run, vars, Running
      <4> QED
        BY <4>1, <4>2 DEF SeenInv
    <3>2. CASE RunCheck
      <4>1. check \in 1..4 /\ check' = check + 1 /\ UNCHANGED quiet
        BY <3>0, <3>2, ChecksAre DEF RunCheck, SeenInv, Finished
      <4>2. \A i \in 1..4 : Passes(Checks[i])' <=> Passes(Checks[i])
        BY <3>2 DEF RunCheck, vars, txVars, treeVars, Passes, checkCurrent,
                    checkDataFiles, checkCustomScripts, checkCleanup, orphanName,
                    Checks
      <4>3. Running' <=> Running
        BY <3>2 DEF RunCheck, vars, Running
      <4>4. failed' = IF Passes(Checks[check]) THEN failed
                                               ELSE failed \cup {Checks[check]}
        BY <3>2 DEF RunCheck
      <4>5. \A i, j \in 1..4 : i # j => Checks[i] # Checks[j]
        BY ChecksAre
      <4>6. SUFFICES ASSUME quiet
                     PROVE  /\ failed' \subseteq {Checks[i] : i \in 1..4}
                            /\ \A i \in 1..4 : i < check + 1 =>
                                 (Checks[i] \in failed' <=> ~Passes(Checks[i]))
                            /\ \A i \in 1..4 : i >= check + 1 => Checks[i] \notin failed'
        BY <3>0, <4>1, <4>2, <4>3 DEF SeenInv, Checks
      <4> QED
        BY <3>0, <4>1, <4>4, <4>5, <4>6 DEF SeenInv
    <3>3. CASE ~Running /\ UNCHANGED <<live, retired, pc, treeVars, doctorVars>>
      BY <3>0, <3>3
      DEF SeenInv, doctorVars, treeVars, Running, Passes, checkCurrent,
          checkDataFiles, checkCustomScripts, checkCleanup, orphanName, Checks
    <3>4. CASE Running /\ UNCHANGED doctorVars
      BY <3>0, <3>4 DEF SeenInv, doctorVars
    <3>5. ~Running /\ ~Run /\ ~RunCheck =>
            UNCHANGED <<live, retired, pc, treeVars, doctorVars>>
      BY CommandLeads
      DEF DoctorNext, allVars, Deploy, Die, Crash, Unit, Terminated, vars, txVars
    <3>6. ~Run /\ ~RunCheck => UNCHANGED doctorVars
      BY DEF DoctorNext, allVars, Deploy, Die
    <3> QED
      BY <3>1, <3>2, <3>3, <3>4, <3>5, <3>6
  <2> QED
    BY <2>1, <2>2, <2>3 DEF DoctorInv
<1>3. TypeOK /\ KeepInv /\ UndoInv /\ DoctorInv => DoctorIsRight
  <2> SUFFICES ASSUME TypeOK, KeepInv, UndoInv, DoctorInv, Finished, quiet
               PROVE  /\ summarize = "ok" /\ before["plugins"] = before["scripts"] =>
                           /\ live["plugins"] = live["scripts"]
                           /\ live["plugins"] \in {"old", "new"}
                           /\ live["customScripts"] = live["scripts"]
                           /\ retired = NoDirs /\ staged = NoDirs
                      /\ result = "ok" /\ faults = 0 => summarize = "ok"
    BY DEF DoctorIsRight, AllClear
  <2>1. /\ pc \in {"done", "crashed"}
        /\ failed \subseteq {"current", "datafiles", "configs", "cleanup"}
        /\ "current" \in failed <=> ~checkCurrent
        /\ "datafiles" \in failed <=> ~checkDataFiles
        /\ "configs" \in failed <=> ~checkCustomScripts
        /\ "cleanup" \in failed <=> ~checkCleanup
    <3>1. check = 5
      BY ChecksAre DEF DoctorInv, SeenInv, Finished
    <3>2. \A i \in 1..4 : Checks[i] \in failed <=> ~Passes(Checks[i])
      BY <3>1 DEF DoctorInv, SeenInv
    <3>3. failed \subseteq {Checks[i] : i \in 1..4} /\ ~Running
      BY <3>1 DEF DoctorInv, SeenInv
    <3>4. pc \in {"done", "crashed"}
      BY <3>3 DEF Running
    <3>5. failed \subseteq {"current", "datafiles", "configs", "cleanup"}
      BY <3>3, ChecksAre
    <3>6. "current" \in failed <=> ~checkCurrent
      BY <3>2, ChecksAre, PassesAre
    <3>7. "datafiles" \in failed <=> ~checkDataFiles
      BY <3>2, ChecksAre, PassesAre
    <3>8. "configs" \in failed <=> ~checkCustomScripts
      BY <3>2, ChecksAre, PassesAre
    <3>9. "cleanup" \in failed <=> ~checkCleanup
      BY <3>2, ChecksAre, PassesAre
    <3> QED
      BY <3>4, <3>5, <3>6, <3>7, <3>8, <3>9
  <2>2. ASSUME summarize = "ok", before["plugins"] = before["scripts"]
        PROVE  /\ live["plugins"] = live["scripts"]
               /\ live["plugins"] \in {"old", "new"}
               /\ live["customScripts"] = live["scripts"]
               /\ retired = NoDirs /\ staged = NoDirs
    <3>1. checkDataFiles /\ checkCustomScripts /\ checkCleanup
      BY <2>1, <2>2 DEF summarize
    <3>2. retired = NoDirs
      BY <3>1 DEF checkCleanup, orphanName, TypeOK, NoDirs
    <3>3. staged = NoDirs
      BY <3>1 DEF checkCleanup, DoctorInv, RemainsInv, StagingHolds
    <3>4. live["plugins"] = live["scripts"]
      BY <2>1, <2>2, <3>1, <3>2
      DEF KeepInv, NothingLost, Replaced, OldKept, DoctorInv, OldWasThere,
          checkDataFiles, checkCustomScripts, NoDirs, Items, Dirs, Texts
    <3> QED
      BY <3>1, <3>2, <3>3, <3>4 DEF checkDataFiles, checkCustomScripts
  <2>3. ASSUME result = "ok", faults = 0
        PROVE  summarize = "ok"
    <3>1. pc = "done" /\ Replaced
      BY <2>1, <2>3 DEF UndoInv, OutcomeInv
    <3>2. checkCurrent /\ checkDataFiles /\ checkCustomScripts
      BY <3>1
      DEF Replaced, Items, Dirs, Texts, checkCurrent, checkDataFiles,
          checkCustomScripts
    <3>3. checkCleanup
      BY <2>3, <3>1
      DEF DoctorInv, RemainsInv, checkCleanup, orphanName, NoDirs, Replaced,
          Items, Dirs, Texts
    <3> QED
      BY <2>1, <3>2, <3>3 DEF summarize
  <2> QED
    BY <2>2, <2>3
<1> QED
  BY <1>1, <1>2, <1>3, DoctorWatches, ModsDeployKeeps, ModsDeployUndoes, PTL
  DEF DoctorSpec
=============================================================================
