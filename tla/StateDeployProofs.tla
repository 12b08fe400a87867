------------------------- MODULE StateDeployProofs --------------------------
(***************************************************************************)
(* Proofs about StateDeploy: its type invariant, that the switch can be    *)
(* undone from every point of it and that success means the archive is     *)
(* live, for any number of faults; and, when at most one operation fails,  *)
(* that an error leaves the old files live and that no crash loses them.   *)
(*                                                                         *)
(* None of these is inductive.  SwitchInv says where each file is at each  *)
(* step of the switch: still in place (Fresh), set aside (Aside), or       *)
(* replaced (Switched), with the loop that is running in between.          *)
(* RollbackInv says the same of the rollback: what is still to be removed  *)
(* or moved back, and that nothing stands in the way of it.                *)
(***************************************************************************)
EXTENDS StateDeploy, TLAPS

Live(f)   == disk["live"][f]
Staged(f) == disk["staged"][f]
Old(f)    == disk["old"][f]

Fresh(f) ==
  /\ Live(f) = before[f] /\ Staged(f) = archived[f] /\ Old(f) = "absent"
  /\ f \notin installed

Aside(f) ==
  /\ Live(f) = "absent" /\ Staged(f) = archived[f] /\ Old(f) = before[f]
  /\ f \notin installed

Switched(f) ==
  /\ Live(f) = archived[f] /\ Old(f) = before[f]
  /\ f \notin installed => archived[f] = "absent"

BackingUp(area) ==
  \A f \in area : IF f \in todo THEN Fresh(f) /\ before[f] # "absent" ELSE Aside(f)

Installing(area) ==
  \A f \in area : IF f \in todo THEN Aside(f) /\ archived[f] # "absent" ELSE Switched(f)

(* Before the first rename.                                                *)
UntouchedInv ==
  /\ moved = {} /\ ~configsMoved /\ installed = {}
  /\ \A f \in Files : Live(f) = before[f] /\ Old(f) = "absent"

ConfigInv ==
  IF pc \in {"installConfig", "syncConfigs", "start", "commit"}
  THEN configsMoved <=> before[Config] # "absent"
  ELSE ~configsMoved /\ Fresh(Config)

SwitchInv ==
  /\ pc \in {"prepare", "isActive", "stop", "stage"} => UntouchedInv
  /\ pc \in SwitchSteps \cup {"start", "commit"} => ConfigInv
  /\ pc = "movePlayers" =>
       /\ moved = {"movePlayers"} /\ todo \subseteq Players
       /\ BackingUp(Players)
       /\ \A f \in World : Fresh(f)
  /\ pc \in (SwitchSteps \cup {"start", "commit"}) \ {"movePlayers"} =>
       moved = BackupLoops
  /\ pc = "moveWorld" =>
       /\ todo \subseteq World
       /\ \A f \in Players : Aside(f)
       /\ BackingUp(World)
  /\ pc = "installPlayers" =>
       /\ todo \subseteq Players
       /\ Installing(Players)
       /\ \A f \in World : Aside(f)
  /\ pc = "installWorld" =>
       /\ todo \subseteq World
       /\ \A f \in Players : Switched(f)
       /\ Installing(World)
  /\ pc \in {"moveConfig", "installConfig", "syncConfigs", "start", "commit"} =>
       \A f \in Players \cup World : Switched(f)
  /\ pc = "installConfig" => Aside(Config)
  /\ pc \in {"syncConfigs", "start", "commit"} => Switched(Config)
  /\ pc # "done" => result = "none"
  /\ result = "ok" => Replaced

-----------------------------------------------------------------------------
(* The rollback, when nothing fails any more.                              *)

ToMoveBack(f) == PutBack(f) /\ Old(f) # "absent"

(* Removing what is in todo and moving back what is to be moved back gives *)
(* f as it was.                                                            *)
Undoing(f) ==
  /\ ToMoveBack(f) => Old(f) = before[f] /\ (Live(f) = "absent" \/ f \in todo)
  /\ ~ToMoveBack(f) =>
       IF f \in todo THEN before[f] = "absent" ELSE Live(f) = before[f]

ConfigAside == configsMoved => Old(Config) = before[Config] /\ Old(Config) # "absent"

Restoring(area) ==
  \A f \in area :
    IF f \in todo THEN Live(f) = "absent" /\ Old(f) = before[f]
                  ELSE Live(f) = before[f]

MovedBack(f) ==
  /\ ToMoveBack(f) => Old(f) = before[f] /\ Live(f) = "absent"
  /\ ~ToMoveBack(f) => Live(f) = before[f]

RollbackInv ==
  /\ pc \in RollbackSteps \cup {"restart"} => faults = 1
  /\ pc \in {"removeInstalled", "restoreConfig"} =>
       ConfigAside /\ \A f \in Files : Undoing(f)
  /\ pc = "restoreConfig" => todo = {} /\ configsMoved
  /\ pc = "restorePlayers" =>
       /\ todo \subseteq Players
       /\ Restoring(Players)
       /\ \A f \in World : MovedBack(f)
       /\ Live(Config) = before[Config]
  /\ pc = "restoreWorld" =>
       /\ todo \subseteq World
       /\ \A f \in Players : Live(f) = before[f]
       /\ Restoring(World)
       /\ Live(Config) = before[Config]
  /\ pc \in {"dropStaging", "restart"} => Untouched
  /\ pc = "crashed" => NothingLost
  /\ pc = "done" => result # "none"
  /\ result = "error" => pc = "done" /\ Untouched

OneFault == MaxFaults <= 1
-----------------------------------------------------------------------------
DiskType == [Places -> [Files -> Contents]]

(* Entering a step lists files, and flags an area it begins to move.       *)
LEMMA EnterTypes ==
  ASSUME TypeOK, disk' \in DiskType, installed' \in SUBSET Files,
         NEW s \in Steps, Enter(s)
  PROVE  /\ pc' \in Steps
         /\ todo' \in SUBSET Files
         /\ moved' \in SUBSET BackupLoops
<1>1. CASE s \in RestoreLoops
  BY <1>1 DEF Enter, TypeOK, Listed, Area, Files, RestoreLoops, MoveLoops, BackupLoops
<1>2. CASE s \in MoveLoops \ RestoreLoops
  BY <1>2 DEF Enter, TypeOK, Listed, Area, Files, RestoreLoops, MoveLoops,
              BackupLoops, InstallLoops
<1>3. CASE s \notin MoveLoops
  BY <1>3 DEF Enter, TypeOK, RestoreLoops, MoveLoops, BackupLoops, InstallLoops
<1> QED
  BY <1>1, <1>2, <1>3

(* A rename moves one file and touches no other.                           *)
LEMMA RenameMoves ==
  ASSUME disk \in DiskType, NEW from \in Places, NEW to \in Places, from # to,
         NEW f \in Files, Rename(from, to, f)
  PROVE  /\ disk' \in DiskType
         /\ disk'[from][f] = "absent"
         /\ disk'[to][f] = disk[from][f]
         /\ \A p \in Places, g \in Files :
              g # f \/ p \notin {from, to} => disk'[p][g] = disk[p][g]
BY DEF Rename, DiskType, Contents

LEMMA RemoveTypes ==
  ASSUME disk \in DiskType, NEW f \in Files, Remove("live", f)
  PROVE  /\ disk' \in DiskType
         /\ disk'["live"][f] = "absent"
         /\ \A p \in Places, g \in Files :
              g # f \/ p # "live" => disk'[p][g] = disk[p][g]
BY DEF Remove, DiskType, Contents, Places

LEMMA UnitTypes ==
  ASSUME UnitTypeOK, NEW verb \in Verbs,
         ControlSucceeds(verb) \/ ControlFails(verb) \/ UnitStep
                               \/ UNCHANGED unitVars
  PROVE  UnitTypeOK'
<1>1. /\ unit \in UnitStates /\ job \in Verbs \cup {"none"}
      /\ gameCrashes \in 0..MaxGameCrashes /\ abandoned \in SUBSET Verbs
  BY DEF UnitTypeOK
<1>2. unit' \in UnitStates /\ job' \in Verbs \cup {"none"}
  BY <1>1 DEF Verbs, UnitStates, ControlSucceeds, ControlFails, UnitStep, JobRuns,
              GameCrashes, AutoRestart, Reached, unitVars
<1>3. gameCrashes' \in 0..MaxGameCrashes
  BY <1>1, UnitAssumption
  DEF ControlSucceeds, ControlFails, UnitStep, JobRuns, GameCrashes, AutoRestart,
      unitVars
<1>4. abandoned' \in SUBSET Verbs
  BY <1>1 DEF ControlSucceeds, ControlFails, UnitStep, JobRuns, GameCrashes,
              AutoRestart, unitVars
<1> QED
  BY <1>2, <1>3, <1>4 DEF UnitTypeOK

LEMMA FaultTypes ==
  ASSUME faults \in 0..MaxFaults, Fault \/ NoFault
  PROVE  faults' \in 0..MaxFaults
BY FilesAssumption DEF Fault, NoFault

(* The type invariant, for any number of files and faults.                 *)
THEOREM StateDeployTypes == Spec => []TypeOK
<1>1. Init => TypeOK
  <2> SUFFICES ASSUME Init PROVE TypeOK
    OBVIOUS
  <2>1. UnitTypeOK
    BY UnitAssumption DEF Init, UnitInit, UnitTypeOK, UnitStates
  <2>2. disk \in [Places -> [Files -> Contents]]
    BY DEF Init, Contents, Places
  <2>3. /\ pc \in Steps /\ result = "none" /\ noRestart \in BOOLEAN
        /\ wasActive = FALSE /\ configsMoved = FALSE /\ faults \in 0..MaxFaults
    BY FilesAssumption DEF Init, Steps
  <2>4. /\ archived \in [Files -> {"absent", "new"}]
        /\ before \in [Files -> {"absent", "old"}]
        /\ todo = {} /\ moved = {} /\ installed = {}
    BY DEF Init
  <2> QED
    BY <2>1, <2>2, <2>3, <2>4 DEF TypeOK
<1>2. TypeOK /\ [Next]_vars => TypeOK'
  <2> SUFFICES ASSUME TypeOK, [Next]_vars PROVE TypeOK'
    OBVIOUS
  <2> DEFINE Rest == /\ result' \in {"none", "ok", "error"}
                     /\ wasActive' \in BOOLEAN
                     /\ configsMoved' \in BOOLEAN
                     /\ faults' \in 0..MaxFaults
                     /\ Fixed
                     /\ UnitTypeOK'
             Tx == /\ pc' \in Steps
                   /\ todo' \in SUBSET Files
                   /\ moved' \in SUBSET BackupLoops
                   /\ disk' \in DiskType
                   /\ installed' \in SUBSET Files
  <2> USE DEF Steps
  <2>a. Rest /\ Tx => TypeOK'
    BY DEF TypeOK, Fixed, DiskType
  <2>b. disk \in DiskType /\ installed \in SUBSET Files
    BY DEF TypeOK, DiskType
  <2>1. CASE Prepare \/ CheckActive \/ Stop
    <3>1. Rest
      BY <2>1, UnitTypes, FaultTypes
      DEF Prepare, CheckActive, Stop, Return, TypeOK, IsActive, Verbs, NoFault
    <3>2. Tx
      BY <2>1, <2>b, EnterTypes DEF Prepare, CheckActive, Stop, Return, TypeOK
    <3> QED
      BY <3>1, <3>2, <2>a
  <2>2. CASE Stage
    <3>1. Rest
      BY <2>2, UnitTypes, FaultTypes DEF Stage, TypeOK, Verbs
    <3>2. disk' \in DiskType
      <4>1. PICK extracted \in SUBSET Files :
              disk' = [disk EXCEPT !["staged"] =
                         [f \in Files |->
                            IF f \in extracted THEN archived[f] ELSE "absent"]]
        BY <2>2 DEF Stage
      <4>2. [f \in Files |-> IF f \in extracted THEN archived[f] ELSE "absent"]
              \in [Files -> Contents]
        BY DEF TypeOK, Contents
      <4> QED
        BY <2>b, <4>1, <4>2 DEF DiskType
    <3>3. Tx
      BY <2>2, <2>b, <3>2, EnterTypes DEF Stage, SwitchSteps, RollbackSteps, BackupLoops
    <3> QED
      BY <3>1, <3>3, <2>a
  <2>3. CASE MoveEntry
    <3>1. Rest
      BY <2>3, UnitTypes, FaultTypes DEF MoveEntry, TypeOK, Verbs
    <3>2. PICK f \in todo : Rename(From(pc), To(pc), f)
      BY <2>3 DEF MoveEntry
    <3>3. From(pc) \in Places /\ To(pc) \in Places /\ From(pc) # To(pc)
      BY <2>3 DEF MoveEntry, MoveLoops, From, To, Places, BackupLoops, InstallLoops, RestoreLoops
    <3>4. disk' \in DiskType
      BY <2>b, <3>2, <3>3, RenameMoves DEF TypeOK
    <3>5. Tx
      BY <2>3, <3>4 DEF MoveEntry, TypeOK
    <3> QED
      BY <3>1, <3>5, <2>a
  <2>4. CASE MoveEnds \/ MoveFails
    <3>1. Rest
      BY <2>4, UnitTypes, FaultTypes DEF MoveEnds, MoveFails, TypeOK, Verbs
    <3>2. PICK s \in Steps : Enter(s)
      BY <2>4 DEF MoveEnds, MoveFails, Following, MoveLoops, BackupLoops,
                  InstallLoops, RestoreLoops, SwitchSteps, RollbackSteps
    <3>3. Tx
      BY <2>4, <2>b, <3>2, EnterTypes DEF MoveEnds, MoveFails
    <3> QED
      BY <3>1, <3>3, <2>a
  <2>5. CASE MoveConfig \/ InstallConfig \/ SyncConfigs \/ RestoreConfig
    <3>1. Rest
      BY <2>5, UnitTypes, FaultTypes
      DEF MoveConfig, InstallConfig, SyncConfigs, RestoreConfig, TypeOK, Verbs
    <3>2. disk' \in DiskType /\ installed' \in SUBSET Files
      BY <2>5, <2>b, RenameMoves
      DEF MoveConfig, InstallConfig, SyncConfigs, RestoreConfig, Places, Files
    <3>3. PICK s \in Steps : Enter(s)
      BY <2>5 DEF MoveConfig, InstallConfig, SyncConfigs, RestoreConfig,
                  SwitchSteps, RollbackSteps, RestoreLoops
    <3>4. Tx
      BY <3>2, <3>3, EnterTypes
    <3> QED
      BY <3>1, <3>4, <2>a
  <2>6. CASE Start
    <3>1. Rest
      BY <2>6, UnitTypes, FaultTypes DEF Start, TypeOK, Verbs
    <3>2. Tx
      BY <2>6, <2>b, EnterTypes DEF Start, RollbackSteps
    <3> QED
      BY <3>1, <3>2, <2>a
  <2>7. CASE Commit
    <3>1. Rest
      BY <2>7, UnitTypes, FaultTypes DEF Commit, Return, TypeOK, Verbs
    <3>2. disk' \in DiskType
      <4>1. PICK left \in SUBSET Files :
              disk' = [disk EXCEPT
                         !["staged"] = [f \in Files |-> IF f \in left THEN @[f] ELSE "absent"],
                         !["old"]    = [f \in Files |-> IF f \in left THEN @[f] ELSE "absent"]]
        BY <2>7 DEF Commit
      <4>2. \A p \in {"staged", "old"} :
              [f \in Files |-> IF f \in left THEN disk[p][f] ELSE "absent"]
                \in [Files -> Contents]
        BY <2>b DEF DiskType, Contents, Places
      <4> QED
        BY <2>b, <4>1, <4>2 DEF DiskType, Places
    <3>3. Tx
      BY <2>7, <2>b, <3>2 DEF Commit, Return, TypeOK
    <3> QED
      BY <3>1, <3>3, <2>a
  <2>8. CASE RemoveInstalled
    <3>1. Rest
      BY <2>8, UnitTypes, FaultTypes DEF RemoveInstalled, TypeOK, Verbs
    <3>2. disk' \in DiskType
      BY <2>8, <2>b, RemoveTypes DEF RemoveInstalled, TypeOK
    <3>3. Tx
      BY <2>8, <2>b, <3>2 DEF RemoveInstalled, TypeOK
    <3> QED
      BY <3>1, <3>3, <2>a
  <2>9. CASE RemoveEnds \/ DropStaging
    <3>1. Rest
      BY <2>9, UnitTypes, FaultTypes DEF RemoveEnds, DropStaging, TypeOK, Verbs
    <3>2. disk' \in DiskType /\ installed' \in SUBSET Files
      BY <2>9, <2>b DEF RemoveEnds, DropStaging, DiskType, Contents
    <3>3. PICK s \in Steps : Enter(s)
      BY <2>9 DEF RemoveEnds, DropStaging, RollbackSteps, RestoreLoops
    <3>4. Tx
      BY <3>2, <3>3, EnterTypes
    <3> QED
      BY <3>1, <3>4, <2>a
  <2>10. CASE Restart
    <3>1. Rest
      BY <2>10, UnitTypes, FaultTypes DEF Restart, Return, TypeOK, Verbs
    <3>2. Tx
      BY <2>10, <2>b DEF Restart, Return, TypeOK
    <3> QED
      BY <3>1, <3>2, <2>a
  <2>11. CASE Crash \/ Unit
    BY <2>11, UnitTypes DEF Crash, Unit, TypeOK, txVars, Fixed, Verbs
  <2>12. CASE UNCHANGED vars
    BY <2>12 DEF vars, unitVars, txVars, TypeOK, UnitTypeOK
  <2> QED
    BY <2>1, <2>2, <2>3, <2>4, <2>5, <2>6, <2>7, <2>8, <2>9, <2>10, <2>11, <2>12
    DEF Next, Command, Terminated
<1> QED
  BY <1>1, <1>2, PTL DEF Spec
-----------------------------------------------------------------------------
(* The switch.                                                             *)

(* Once the switch is left for the rollback or a crash, SwitchInv asks     *)
(* nothing more of the files.                                              *)
LEMMA LeavingSwitch ==
  ASSUME SwitchInv, pc # "done", result' = result,
         pc' \in RollbackSteps \cup {"restart", "crashed"}
  PROVE  SwitchInv'
BY DEF SwitchInv, RollbackSteps, RestoreLoops, SwitchSteps, BackupLoops,
       InstallLoops

(* A command that has given up asks nothing of the files either.           *)
LEMMA Returning ==
  ASSUME pc' = "done", result' = "error" \/ (result' = "ok" /\ Replaced')
  PROVE  SwitchInv'
BY DEF SwitchInv, SwitchSteps, BackupLoops, InstallLoops

(* What one rename of a loop does to the files.                            *)
LEMMA OneRename ==
  ASSUME TypeOK, MoveEntry
  PROVE  \E f \in todo :
           /\ todo' = todo \ {f}
           /\ disk'[From(pc)][f] = "absent"
           /\ disk'[To(pc)][f] = disk[From(pc)][f]
           /\ \A p \in Places, g \in Files :
                g # f \/ p \notin {From(pc), To(pc)} => disk'[p][g] = disk[p][g]
           /\ installed' = IF pc \in InstallLoops THEN installed \cup {f} ELSE installed
           /\ f \in Files
           /\ UNCHANGED <<pc, result, moved, configsMoved, archived, before, faults>>
<1>1. PICK f \in todo :
        /\ Rename(From(pc), To(pc), f)
        /\ todo' = todo \ {f}
        /\ installed' = IF pc \in InstallLoops THEN installed \cup {f} ELSE installed
  BY DEF MoveEntry
<1>2. From(pc) \in Places /\ To(pc) \in Places /\ From(pc) # To(pc)
  BY DEF MoveEntry, MoveLoops, From, To, Places, BackupLoops, InstallLoops, RestoreLoops
<1>3. disk \in DiskType /\ f \in Files
  BY DEF TypeOK, DiskType
<1>4. /\ disk'[From(pc)][f] = "absent"
      /\ disk'[To(pc)][f] = disk[From(pc)][f]
      /\ \A p \in Places, g \in Files :
           g # f \/ p \notin {From(pc), To(pc)} => disk'[p][g] = disk[p][g]
  BY <1>1, <1>2, <1>3, RenameMoves
<1> QED
  BY <1>1, <1>3, <1>4 DEF MoveEntry, Fixed, NoFault

LEMMA SwitchMoveEntry ==
  ASSUME TypeOK, SwitchInv, MoveEntry
  PROVE  SwitchInv'
<1> USE FilesAssumption
    DEF Live, Staged, Old, Fresh, Aside, Switched, Files, Places, SwitchSteps,
        BackupLoops, InstallLoops, From, To
<1>1. PICK f \in todo :
        /\ todo' = todo \ {f}
        /\ disk'[From(pc)][f] = "absent"
        /\ disk'[To(pc)][f] = disk[From(pc)][f]
        /\ \A p \in Places, g \in Files :
             g # f \/ p \notin {From(pc), To(pc)} => disk'[p][g] = disk[p][g]
        /\ installed' = IF pc \in InstallLoops THEN installed \cup {f} ELSE installed
        /\ f \in Files
        /\ UNCHANGED <<pc, result, moved, configsMoved, archived, before, faults>>
  BY OneRename
<1>2. CASE pc = "movePlayers"
  BY <1>1, <1>2 DEF SwitchInv, BackingUp, ConfigInv
<1>3. CASE pc = "moveWorld"
  BY <1>1, <1>3 DEF SwitchInv, BackingUp, ConfigInv
<1>4. CASE pc = "installPlayers"
  BY <1>1, <1>4 DEF SwitchInv, Installing, ConfigInv
<1>5. CASE pc = "installWorld"
  BY <1>1, <1>5 DEF SwitchInv, Installing, ConfigInv
<1>6. CASE pc \in RestoreLoops
  BY <1>1, <1>6, LeavingSwitch DEF RestoreLoops, RollbackSteps
<1> QED
  BY <1>2, <1>3, <1>4, <1>5, <1>6 DEF MoveEntry, MoveLoops

LEMMA SwitchMoveEnds ==
  ASSUME TypeOK, SwitchInv, MoveEnds
  PROVE  SwitchInv'
<1> USE FilesAssumption
    DEF Live, Staged, Old, Fresh, Aside, Switched, Files, Places, SwitchSteps,
        MoveLoops, BackupLoops, InstallLoops, RestoreLoops
<1>1. /\ todo = {} /\ Enter(Following(pc))
      /\ UNCHANGED <<disk, installed, result, configsMoved, archived, before>>
  BY DEF MoveEnds, Fixed
<1>2. CASE pc = "movePlayers"
  <2>1. pc' = "moveWorld" /\ todo' = {g \in World : disk["live"][g] # "absent"}
        /\ moved' = BackupLoops
    BY <1>1, <1>2 DEF Enter, Following, Listed, Area, From, SwitchInv
  <2> QED
    BY <1>1, <1>2, <2>1 DEF SwitchInv, BackingUp, ConfigInv
<1>3. CASE pc = "moveWorld"
  <2>1. pc' = "installPlayers" /\ moved' = moved
        /\ todo' = {g \in Players : disk["staged"][g] # "absent"}
    BY <1>1, <1>3 DEF Enter, Following, Listed, Area, From
  <2> QED
    BY <1>1, <1>3, <2>1 DEF SwitchInv, BackingUp, Installing, ConfigInv
<1>4. CASE pc = "installPlayers"
  <2>1. pc' = "installWorld" /\ moved' = moved
        /\ todo' = {g \in World : disk["staged"][g] # "absent"}
    BY <1>1, <1>4 DEF Enter, Following, Listed, Area, From
  <2> QED
    BY <1>1, <1>4, <2>1 DEF SwitchInv, Installing, ConfigInv
<1>5. CASE pc = "installWorld"
  <2>1. pc' = "moveConfig" /\ moved' = moved
    BY <1>1, <1>5 DEF Enter, Following
  <2> QED
    BY <1>1, <1>5, <2>1 DEF SwitchInv, Installing, ConfigInv
<1>6. CASE pc \in RestoreLoops
  <2>1. pc' \in RollbackSteps
    BY <1>1, <1>6 DEF Enter, Following, RollbackSteps
  <2> QED
    BY <1>1, <1>6, <2>1, LeavingSwitch
<1> QED
  BY <1>2, <1>3, <1>4, <1>5, <1>6 DEF MoveEnds

LEMMA SwitchConfigs ==
  ASSUME TypeOK, SwitchInv, MoveConfig \/ InstallConfig \/ SyncConfigs \/ Start
  PROVE  SwitchInv'
<1> USE FilesAssumption
    DEF Live, Staged, Old, Fresh, Aside, Switched, Files, Places, SwitchSteps,
        MoveLoops, BackupLoops, InstallLoops, RestoreLoops, Fixed
<1>0. disk \in DiskType /\ Config \in Files
  BY DEF TypeOK, DiskType
<1>1. CASE pc' = "removeInstalled"
  BY <1>1, LeavingSwitch
  DEF MoveConfig, InstallConfig, SyncConfigs, Start, RollbackSteps
<1>2. CASE MoveConfig /\ pc' # "removeInstalled"
  <2>1. /\ pc = "moveConfig" /\ pc' = "installConfig" /\ moved' = moved
        /\ UNCHANGED <<installed, result, archived, before>>
    BY <1>2 DEF MoveConfig, Enter
  <2>2. CASE disk["live"][Config] # "absent"
    <3>1. Rename("live", "old", Config) /\ configsMoved' = TRUE
      BY <1>2, <2>2 DEF MoveConfig, Enter
    <3>2. /\ disk'["live"][Config] = "absent"
          /\ disk'["old"][Config] = disk["live"][Config]
          /\ \A p \in Places, g \in Files :
               g # Config \/ p \notin {"live", "old"} => disk'[p][g] = disk[p][g]
      BY <1>0, <3>1, RenameMoves
    <3> QED
      BY <2>1, <2>2, <3>1, <3>2 DEF SwitchInv, ConfigInv
  <2>3. CASE disk["live"][Config] = "absent"
    <3>1. UNCHANGED <<disk, configsMoved>>
      BY <1>2, <2>3 DEF MoveConfig, Enter
    <3> QED
      BY <2>1, <2>3, <3>1 DEF SwitchInv, ConfigInv
  <2> QED
    BY <2>2, <2>3
<1>3. CASE InstallConfig /\ pc' # "removeInstalled"
  <2>1. /\ pc = "installConfig" /\ pc' = "syncConfigs" /\ moved' = moved
        /\ Rename("staged", "live", Config)
        /\ installed' = installed \cup {Config}
        /\ UNCHANGED <<configsMoved, result, archived, before>>
    BY <1>3 DEF InstallConfig, Enter
  <2>2. /\ disk'["staged"][Config] = "absent"
        /\ disk'["live"][Config] = disk["staged"][Config]
        /\ \A p \in Places, g \in Files :
             g # Config \/ p \notin {"staged", "live"} => disk'[p][g] = disk[p][g]
    BY <1>0, <2>1, RenameMoves
  <2> QED
    BY <2>1, <2>2 DEF SwitchInv, ConfigInv
<1>4. CASE (SyncConfigs \/ Start) /\ pc' # "removeInstalled"
  <2>1. /\ pc \in {"syncConfigs", "start"} /\ pc' \in {"start", "commit"}
        /\ moved' = moved
        /\ UNCHANGED <<disk, installed, configsMoved, result, archived, before>>
    BY <1>4 DEF SyncConfigs, Start, Enter
  <2> QED
    BY <2>1 DEF SwitchInv, ConfigInv
<1> QED
  BY <1>1, <1>2, <1>3, <1>4
LEMMA SwitchBegins ==
  ASSUME TypeOK, SwitchInv, Prepare \/ CheckActive \/ Stop \/ Stage
  PROVE  SwitchInv'
<1> USE FilesAssumption
    DEF Live, Staged, Old, Files, Places, SwitchSteps, MoveLoops, BackupLoops,
        InstallLoops, RestoreLoops, Fixed
<1>0. disk \in DiskType
  BY DEF TypeOK, DiskType
<1>1. CASE (Prepare \/ CheckActive \/ Stop) /\ pc' # "done"
  <2>1. /\ pc \in {"prepare", "isActive", "stop"}
        /\ pc' \in {"isActive", "stop", "stage"}
        /\ UNCHANGED <<disk, installed, configsMoved, moved, result, before>>
    BY <1>1 DEF Prepare, CheckActive, Stop, Return, Enter
  <2> QED
    BY <2>1 DEF SwitchInv, UntouchedInv
<1>2. CASE (Prepare \/ CheckActive \/ Stop) /\ pc' = "done"
  BY <1>2, Returning DEF Prepare, CheckActive, Stop, Return, Enter
<1>3. CASE Stage /\ pc' = "removeInstalled"
  BY <1>3, LeavingSwitch DEF Stage, RollbackSteps
<1>4. CASE Stage /\ pc' # "removeInstalled"
  <2>1. PICK extracted \in SUBSET Files :
          /\ disk' = [disk EXCEPT !["staged"] =
                        [f \in Files |->
                           IF f \in extracted THEN archived[f] ELSE "absent"]]
          /\ extracted = Files
          /\ Enter("movePlayers")
    BY <1>4 DEF Stage, Enter
  <2>2. /\ disk'["live"] = disk["live"] /\ disk'["old"] = disk["old"]
        /\ \A f \in Files : disk'["staged"][f] = archived[f]
    BY <1>0, <2>1 DEF DiskType
  <2>3. /\ pc = "stage" /\ pc' = "movePlayers"
        /\ UNCHANGED <<installed, configsMoved, result, archived, before>>
    BY <1>4, <2>1 DEF Stage, Enter
  <2>4. /\ todo' = {f \in Players : disk'["live"][f] # "absent"}
        /\ moved' = moved \cup {"movePlayers"}
    BY <2>1, <2>3 DEF Enter, Listed, Area, From
  <2>5. UntouchedInv
    BY <2>3 DEF SwitchInv
  <2> QED
    BY <2>2, <2>3, <2>4, <2>5
    DEF SwitchInv, UntouchedInv, BackingUp, ConfigInv, Fresh, Aside
<1> QED
  BY <1>1, <1>2, <1>3, <1>4

(* When everything has been switched, the live files are the archive's.    *)
LEMMA AllSwitched ==
  ASSUME TypeOK, SwitchInv, pc \in {"start", "commit"}
  PROVE  Replaced
<1>1. \A f \in Files : Live(f) = archived[f]
  BY DEF SwitchInv, Switched, Files
<1>2. disk["live"] \in [Files -> Contents] /\ archived \in [Files -> {"absent", "new"}]
  BY DEF TypeOK, Places
<1> QED
  BY <1>1, <1>2 DEF Replaced, Live

LEMMA SwitchStep ==
  ASSUME TypeOK, SwitchInv, [Next]_vars
  PROVE  SwitchInv'
<1>1. CASE Prepare \/ CheckActive \/ Stop \/ Stage
  BY <1>1, SwitchBegins
<1>2. CASE MoveEntry
  BY <1>2, SwitchMoveEntry
<1>3. CASE MoveEnds
  BY <1>3, SwitchMoveEnds
<1>4. CASE MoveFails
  BY <1>4, LeavingSwitch
  DEF MoveFails, Enter, Following, RollbackSteps, MoveLoops, BackupLoops,
      InstallLoops, RestoreLoops
<1>5. CASE MoveConfig \/ InstallConfig \/ SyncConfigs \/ Start
  BY <1>5, SwitchConfigs
<1>6. CASE Commit
  <2>1. Replaced
    BY <1>6, AllSwitched DEF Commit
  <2>2. disk'["live"] = disk["live"]
    BY <1>6 DEF Commit, TypeOK, Places
  <2>3. Replaced'
    BY <1>6, <2>1, <2>2 DEF Replaced, Commit, Fixed
  <2> QED
    BY <1>6, <2>3, Returning DEF Commit, Return
<1>7. CASE RemoveInstalled \/ RemoveEnds \/ RestoreConfig \/ DropStaging
  BY <1>7, LeavingSwitch
  DEF RemoveInstalled, RemoveEnds, RestoreConfig, DropStaging, Enter,
      RollbackSteps, RestoreLoops
<1>8. CASE Restart
  BY <1>8, Returning DEF Restart, Return
<1>9. CASE Crash
  BY <1>9, LeavingSwitch DEF Crash, Running
<1>10. CASE Unit \/ UNCHANGED vars
  BY <1>10
  DEF Unit, Fixed, txVars, vars, SwitchInv, UntouchedInv, ConfigInv, BackingUp,
      Installing, Fresh, Aside, Switched, Live, Staged, Old, Replaced
<1> QED
  BY <1>1, <1>2, <1>3, <1>4, <1>5, <1>6, <1>7, <1>8, <1>9, <1>10
  DEF Next, Command, Terminated

(* Where every file is at every step of the switch.                        *)
THEOREM SwitchShape == Spec => [](TypeOK /\ SwitchInv)
<1>1. Init => SwitchInv
  <2> SUFFICES ASSUME Init PROVE SwitchInv
    OBVIOUS
  <2>1. \A f \in Files : Live(f) = before[f] /\ Old(f) = "absent"
    BY DEF Init, Live, Old, Places
  <2> QED
    BY <2>1 DEF Init, SwitchInv, UntouchedInv, SwitchSteps, BackupLoops, InstallLoops
<1>2. TypeOK /\ SwitchInv /\ [Next]_vars => SwitchInv'
  BY SwitchStep
<1> QED
  BY <1>1, <1>2, StateDeployTypes, PTL DEF Spec

(* A command that reports success has made the archive the live state,     *)
(* whatever failed on the way (the only later step, commit, touches old    *)
(* and staged files alone).                                                *)
THEOREM Success == Spec => []SuccessReplaces
<1>1. SwitchInv => SuccessReplaces
  BY DEF SwitchInv, SuccessReplaces
<1> QED
  BY <1>1, SwitchShape, PTL
-----------------------------------------------------------------------------
(* From the switch to the rollback.                                        *)

Undoable(f) ==
  /\ ToMoveBack(f) => Old(f) = before[f] /\ (Live(f) = "absent" \/ f \in installed)
  /\ ~ToMoveBack(f) =>
       IF f \in installed THEN before[f] = "absent" ELSE Live(f) = before[f]

Switching == pc \in SwitchSteps \cup {"stage", "start"}

LEMMA SwitchUndoable ==
  ASSUME TypeOK, SwitchInv, Switching
  PROVE  ConfigAside /\ \A f \in Files : Undoable(f)
<1> USE FilesAssumption
    DEF Files, SwitchSteps, BackupLoops, InstallLoops, Undoable, ToMoveBack,
        PutBack, Fresh, Aside, Switched, ConfigAside
<1> SUFFICES ConfigAside /\ \A f \in Files : Undoable(f)
  OBVIOUS
<1>1. CASE pc = "stage"
  BY <1>1 DEF SwitchInv, UntouchedInv
<1>2. CASE pc \in {"movePlayers", "moveWorld"}
  BY <1>2 DEF SwitchInv, BackingUp, ConfigInv
<1>3. CASE pc \in {"installPlayers", "installWorld"}
  BY <1>3 DEF SwitchInv, Installing, ConfigInv
<1>4. CASE pc \in {"moveConfig", "installConfig", "syncConfigs", "start"}
  BY <1>4 DEF SwitchInv, ConfigInv
<1> QED
  BY <1>1, <1>2, <1>3, <1>4 DEF Switching

(* Whatever the number of faults before it, a clean rollback from any      *)
(* point of the switch gives the old files back.                           *)
THEOREM Reversibility == Spec => []Reversible
<1>1. TypeOK /\ SwitchInv => Reversible
  <2> SUFFICES ASSUME TypeOK, SwitchInv, Switching
               PROVE  Undo(disk["live"], disk["old"]) = before
    BY DEF Reversible, Switching
  <2>1. \A f \in Files : Undoable(f)
    BY SwitchUndoable
  <2>2. \A f \in Files :
          (IF PutBack(f) /\ disk["old"][f] # "absent" THEN disk["old"][f]
           ELSE IF f \in installed THEN "absent" ELSE disk["live"][f]) = before[f]
    BY <2>1 DEF Undoable, ToMoveBack, Live, Old
  <2>3. before \in [Files -> {"absent", "old"}]
    BY DEF TypeOK
  <2> QED
    BY <2>2, <2>3 DEF Undo
<1> QED
  BY <1>1, SwitchShape, PTL

LEMMA EnterRollback ==
  ASSUME TypeOK, SwitchInv, Switching, Enter("removeInstalled"), faults' = 1,
         disk'["live"] = disk["live"], disk'["old"] = disk["old"],
         UNCHANGED <<installed, configsMoved, before, result>>
  PROVE  RollbackInv'
<1>1. pc' = "removeInstalled" /\ todo' = installed /\ moved' = moved
  BY DEF Enter, MoveLoops, BackupLoops, InstallLoops, RestoreLoops
<1>2. ConfigAside /\ \A f \in Files : Undoable(f)
  BY SwitchUndoable
<1>3. ConfigAside' /\ \A f \in Files : Undoing(f)'
  BY <1>1, <1>2
  DEF ConfigAside, Undoable, Undoing, ToMoveBack, PutBack, Live, Old, Files
<1>4. result' = "none"
  BY DEF SwitchInv, Switching, SwitchSteps, BackupLoops, InstallLoops
<1> QED
  BY <1>1, <1>3, <1>4 DEF RollbackInv

(* A rename of the switch never finds its target taken.                    *)
LEMMA TargetsFree ==
  ASSUME SwitchInv, pc \in BackupLoops \cup InstallLoops, NEW f \in todo
  PROVE  disk[To(pc)][f] = "absent"
BY DEF SwitchInv, BackingUp, Installing, BackupLoops, InstallLoops, SwitchSteps,
       To, Fresh, Aside, Live, Old

(* As long as nothing has failed or the switch is still on, no old file is *)
(* lost.                                                                   *)
LEMMA SwitchKeeps ==
  ASSUME TypeOK, SwitchInv,
         Switching \/ pc \in {"prepare", "isActive", "stop", "commit"}
  PROVE  NothingLost
<1>1. CASE pc \in {"prepare", "isActive", "stop"}
  BY <1>1 DEF SwitchInv, UntouchedInv, NothingLost, OldKept, Live
<1>2. CASE pc = "commit"
  BY <1>2, AllSwitched DEF NothingLost
<1>3. CASE Switching
  <2>1. \A f \in Files : Undoable(f)
    BY <1>3, SwitchUndoable
  <2> QED
    BY <2>1 DEF Undoable, NothingLost, OldKept, Live, Old
<1> QED
  BY <1>1, <1>2, <1>3

LEMMA RollbackKeeps ==
  ASSUME TypeOK, RollbackInv, pc \in RollbackSteps \cup {"restart"}
  PROVE  NothingLost
<1>1. CASE pc \in {"removeInstalled", "restoreConfig"}
  BY <1>1 DEF RollbackInv, Undoing, NothingLost, OldKept, Live, Old
<1>2. CASE pc \in RestoreLoops
  BY <1>2 DEF RollbackInv, Restoring, MovedBack, RestoreLoops, NothingLost,
              OldKept, Live, Old, Files
<1>3. CASE pc \in {"dropStaging", "restart"}
  BY <1>3 DEF RollbackInv, Untouched, NothingLost, OldKept
<1> QED
  BY <1>1, <1>2, <1>3 DEF RollbackSteps

-----------------------------------------------------------------------------
(* The rollback, step by step, when the one fault has already happened.    *)

LEMMA RollbackRemoves ==
  ASSUME OneFault, TypeOK, RollbackInv, RemoveInstalled
  PROVE  RollbackInv'
<1>0. disk \in DiskType /\ todo \in SUBSET Files
  BY DEF TypeOK, DiskType
<1>1. ~Fault
  BY FilesAssumption DEF RollbackInv, RemoveInstalled, RollbackSteps, Fault, OneFault
<1>2. PICK f \in todo : todo' = todo \ {f} /\ Remove("live", f)
  BY <1>1 DEF RemoveInstalled
<1>3. /\ disk'["live"][f] = "absent"
      /\ \A p \in Places, g \in Files :
           g # f \/ p # "live" => disk'[p][g] = disk[p][g]
  BY <1>0, <1>2, RemoveTypes
<1>4. /\ pc = "removeInstalled" /\ pc' = pc /\ faults' = faults
      /\ UNCHANGED <<moved, configsMoved, before, result>>
  BY <1>1 DEF RemoveInstalled, Fixed, NoFault
<1>5. /\ ConfigAside /\ \A g \in Files : Undoing(g)
  BY <1>4 DEF RollbackInv
<1>6. ConfigAside'
  BY <1>3, <1>4, <1>5 DEF ConfigAside, Old, Files, Places
<1>7. ASSUME NEW g \in Files PROVE Undoing(g)'
  <2>1. Undoing(g)
    BY <1>5
  <2>2. Old(g)' = Old(g) /\ (ToMoveBack(g)' <=> ToMoveBack(g))
    BY <1>3, <1>4 DEF Old, Places, ToMoveBack, PutBack
  <2>3. CASE g = f
    BY <1>2, <1>3, <1>4, <2>1, <2>2, <2>3 DEF Undoing, Live
  <2>4. CASE g # f
    BY <1>2, <1>3, <1>4, <2>1, <2>2, <2>4 DEF Undoing, Live, Places
  <2> QED
    BY <2>3, <2>4
<1> QED
  BY <1>4, <1>6, <1>7 DEF RollbackInv, RollbackSteps

LEMMA RollbackEndsRemoving ==
  ASSUME TypeOK, RollbackInv, RemoveEnds
  PROVE  RollbackInv'
<1> USE FilesAssumption DEF Live, Old, Places, Files
<1>1. /\ pc = "removeInstalled" /\ todo = {} /\ faults' = faults
      /\ UNCHANGED <<disk, installed, configsMoved, before, result>>
      /\ Enter(IF configsMoved THEN "restoreConfig" ELSE "restorePlayers")
  BY DEF RemoveEnds, Fixed, NoFault
<1>2. ConfigAside /\ \A f \in Files : Undoing(f)
  BY <1>1 DEF RollbackInv
<1>3. moved' = moved /\ faults = 1
  BY <1>1 DEF Enter, BackupLoops, RollbackInv, RollbackSteps
<1>4. CASE configsMoved
  <2>1. pc' = "restoreConfig" /\ todo' = {}
    BY <1>1, <1>4 DEF Enter, MoveLoops, BackupLoops, InstallLoops, RestoreLoops
  <2>2. ConfigAside' /\ \A f \in Files : Undoing(f)'
    BY <1>1, <1>2, <1>3, <2>1 DEF ConfigAside, Undoing, ToMoveBack, PutBack
  <2> QED
    BY <1>1, <1>3, <1>4, <2>1, <2>2 DEF RollbackInv
<1>5. CASE ~configsMoved
  <2>1. pc' = "restorePlayers"
    BY <1>1, <1>5 DEF Enter
  <2>2. todo' = IF "movePlayers" \in moved
                THEN {f \in Players : disk["old"][f] # "absent"} ELSE {}
    BY <1>1, <1>5 DEF Enter, RestoreLoops, Undone, Listed, Area
  <2>3. Restoring(Players)'
    BY <1>1, <1>2, <2>2 DEF Restoring, Undoing, ToMoveBack, PutBack
  <2>4. \A f \in World : MovedBack(f)'
    BY <1>1, <1>2, <1>3 DEF MovedBack, Undoing, ToMoveBack, PutBack
  <2>5. Live(Config)' = before'[Config]
    BY <1>1, <1>2, <1>5 DEF Undoing, ToMoveBack, PutBack
  <2> QED
    BY <1>1, <1>3, <2>1, <2>2, <2>3, <2>4, <2>5 DEF RollbackInv
<1> QED
  BY <1>4, <1>5

LEMMA RollbackRestoresConfig ==
  ASSUME OneFault, TypeOK, RollbackInv, RestoreConfig
  PROVE  RollbackInv'
<1> USE FilesAssumption DEF Live, Old, Places, Files
<1>0. disk \in DiskType
  BY DEF TypeOK, DiskType
<1>1. ~Fault
  BY DEF RollbackInv, RestoreConfig, RollbackSteps, Fault, OneFault
<1>2. /\ pc = "restoreConfig" /\ faults' = faults
      /\ Rename("old", "live", Config)
      /\ UNCHANGED <<installed, configsMoved, before, result>>
      /\ Enter("restorePlayers")
  BY <1>1 DEF RestoreConfig, Fixed, NoFault
<1>3. /\ disk'["old"][Config] = "absent"
      /\ disk'["live"][Config] = disk["old"][Config]
      /\ \A p \in Places, g \in Files :
           g # Config \/ p \notin {"old", "live"} => disk'[p][g] = disk[p][g]
  BY <1>0, <1>2, RenameMoves
<1>4. ConfigAside /\ configsMoved /\ todo = {} /\ faults = 1 /\ \A f \in Files : Undoing(f)
  BY <1>2 DEF RollbackInv, RollbackSteps
<1>5. /\ pc' = "restorePlayers" /\ moved' = moved
      /\ todo' = IF "movePlayers" \in moved
                 THEN {f \in Players : disk'["old"][f] # "absent"} ELSE {}
  BY <1>2 DEF Enter, RestoreLoops, BackupLoops, Undone, Listed, Area
<1>6. Restoring(Players)'
  BY <1>2, <1>3, <1>4, <1>5 DEF Restoring, Undoing, ToMoveBack, PutBack
<1>7. \A f \in World : MovedBack(f)'
  BY <1>2, <1>3, <1>4, <1>5 DEF MovedBack, Undoing, ToMoveBack, PutBack
<1>8. Live(Config)' = before'[Config]
  BY <1>2, <1>3, <1>4 DEF ConfigAside
<1> QED
  BY <1>2, <1>4, <1>5, <1>6, <1>7, <1>8 DEF RollbackInv

LEMMA RollbackMoves ==
  ASSUME OneFault, TypeOK, RollbackInv, MoveEntry, pc \in RestoreLoops
  PROVE  RollbackInv'
<1> USE FilesAssumption DEF Live, Old, Places, Files
<1>1. PICK f \in todo :
        /\ todo' = todo \ {f}
        /\ disk'[From(pc)][f] = "absent"
        /\ disk'[To(pc)][f] = disk[From(pc)][f]
        /\ \A p \in Places, g \in Files :
             g # f \/ p \notin {From(pc), To(pc)} => disk'[p][g] = disk[p][g]
        /\ f \in Files
        /\ UNCHANGED <<pc, moved, configsMoved, before, faults, result>>
  BY OneRename
<1>2. From(pc) = "old" /\ To(pc) = "live"
  BY DEF From, To, RestoreLoops, BackupLoops, InstallLoops
<1>3. CASE pc = "restorePlayers"
  <2>1. todo \subseteq Players /\ Restoring(Players) /\ Live(Config) = before[Config]
        /\ (\A g \in World : MovedBack(g)) /\ faults = 1
    BY <1>3 DEF RollbackInv, RollbackSteps, RestoreLoops
  <2>2. Restoring(Players)'
    BY <1>1, <1>2, <2>1 DEF Restoring
  <2>3. \A g \in World : MovedBack(g)'
    BY <1>1, <1>2, <2>1 DEF MovedBack, ToMoveBack, PutBack
  <2>4. Live(Config)' = before'[Config]
    BY <1>1, <1>2, <2>1
  <2> QED
    BY <1>1, <1>3, <2>1, <2>2, <2>3, <2>4 DEF RollbackInv
<1>4. CASE pc = "restoreWorld"
  <2>1. todo \subseteq World /\ Restoring(World) /\ Live(Config) = before[Config]
        /\ (\A g \in Players : Live(g) = before[g]) /\ faults = 1
    BY <1>4 DEF RollbackInv, RollbackSteps, RestoreLoops
  <2>2. Restoring(World)'
    BY <1>1, <1>2, <2>1 DEF Restoring
  <2>3. \A g \in Players : Live(g)' = before'[g]
    BY <1>1, <1>2, <2>1
  <2>4. Live(Config)' = before'[Config]
    BY <1>1, <1>2, <2>1
  <2> QED
    BY <1>1, <1>4, <2>1, <2>2, <2>3, <2>4 DEF RollbackInv
<1> QED
  BY <1>3, <1>4 DEF RestoreLoops

LEMMA RollbackEndsMoving ==
  ASSUME TypeOK, RollbackInv, MoveEnds, pc \in RestoreLoops
  PROVE  RollbackInv'
<1> USE FilesAssumption DEF Live, Old, Places, Files
<1>1. /\ todo = {} /\ Enter(Following(pc)) /\ faults' = faults
      /\ UNCHANGED <<disk, installed, configsMoved, before, result>>
  BY DEF MoveEnds, Fixed, NoFault
<1>2. CASE pc = "restorePlayers"
  <2>1. /\ pc' = "restoreWorld" /\ moved' = moved
        /\ todo' = IF "moveWorld" \in moved
                   THEN {f \in World : disk["old"][f] # "absent"} ELSE {}
    BY <1>1, <1>2
    DEF Enter, Following, RestoreLoops, BackupLoops, Undone, Listed, Area
  <2>2. Restoring(Players) /\ Live(Config) = before[Config]
        /\ (\A g \in World : MovedBack(g)) /\ faults = 1
    BY <1>2 DEF RollbackInv, RollbackSteps, RestoreLoops
  <2>3. \A g \in Players : Live(g)' = before'[g]
    BY <1>1, <2>2 DEF Restoring
  <2>4. Restoring(World)'
    BY <1>1, <2>1, <2>2 DEF Restoring, MovedBack, ToMoveBack, PutBack
  <2> QED
    BY <1>1, <1>2, <2>1, <2>2, <2>3, <2>4 DEF RollbackInv
<1>3. CASE pc = "restoreWorld"
  <2>1. pc' = "dropStaging"
    BY <1>1, <1>3 DEF Enter, Following
  <2>2. /\ \A g \in Files : disk["live"][g] = before[g]
        /\ faults = 1
    BY <1>1, <1>3 DEF RollbackInv, RollbackSteps, RestoreLoops, Restoring
  <2>3. disk["live"] = before
    BY <2>2 DEF TypeOK
  <2> QED
    BY <1>1, <1>3, <2>1, <2>2, <2>3 DEF RollbackInv, Untouched
<1> QED
  BY <1>2, <1>3 DEF RestoreLoops
(* RollbackInv asks nothing while the switch is on.                        *)
LEMMA StillSwitching ==
  ASSUME pc' \in SwitchSteps \cup {"isActive", "stop", "stage", "start", "commit"},
         result' = "none"
  PROVE  RollbackInv'
BY DEF RollbackInv, RollbackSteps, RestoreLoops, SwitchSteps, BackupLoops,
       InstallLoops

LEMMA ErrorReturn ==
  ASSUME pc' = "done", result' = "error", Untouched'
  PROVE  RollbackInv'
BY DEF RollbackInv, RollbackSteps, RestoreLoops

LEMMA OneFaultOnly ==
  ASSUME OneFault, TypeOK, Fault
  PROVE  faults' = 1
BY FilesAssumption DEF OneFault, TypeOK, Fault

(* The switch either goes on, or enters the rollback with its one fault.   *)
LEMMA SwitchOrRollback ==
  ASSUME OneFault, TypeOK, SwitchInv,
         \/ Stage \/ (MoveFails /\ pc \notin RestoreLoops)
         \/ MoveConfig \/ InstallConfig \/ SyncConfigs \/ Start
  PROVE  RollbackInv'
<1> USE DEF SwitchSteps, MoveLoops, BackupLoops, InstallLoops, RestoreLoops
<1>1. Switching /\ result' = "none"
  BY DEF Stage, MoveFails, MoveConfig, InstallConfig, SyncConfigs, Start,
         SwitchInv, Switching
<1>2. CASE pc' # "removeInstalled"
  BY <1>1, <1>2, StillSwitching
  DEF Stage, MoveFails, MoveConfig, InstallConfig, SyncConfigs, Start, Enter
<1>3. CASE pc' = "removeInstalled"
  <2>1. /\ Enter("removeInstalled")
        /\ UNCHANGED <<installed, configsMoved, before, result>>
    BY <1>3 DEF Stage, MoveFails, MoveConfig, InstallConfig, SyncConfigs, Start,
                Enter, Fixed
  <2>2. disk'["live"] = disk["live"] /\ disk'["old"] = disk["old"]
    BY <1>3 DEF Stage, MoveFails, MoveConfig, InstallConfig, SyncConfigs, Start,
                Enter, TypeOK, Places
  <2>3. Fault
    BY <1>3, TargetsFree
    DEF Stage, MoveFails, MoveConfig, InstallConfig, SyncConfigs, Start, Enter
  <2> QED
    BY <1>1, <2>1, <2>2, <2>3, OneFaultOnly, EnterRollback
<1> QED
  BY <1>2, <1>3

LEMMA RollbackStep ==
  ASSUME OneFault, TypeOK, SwitchInv, RollbackInv, [Next]_vars
  PROVE  RollbackInv'
<1> USE DEF SwitchSteps, MoveLoops, BackupLoops, InstallLoops, RestoreLoops
<1>1. CASE Prepare \/ CheckActive \/ Stop
  <2>1. CASE pc' = "done"
    <3>1. UntouchedInv
      BY <1>1 DEF SwitchInv, Prepare, CheckActive, Stop
    <3>2. disk["live"] = before
      BY <3>1 DEF UntouchedInv, Live, TypeOK, Places
    <3>3. result' = "error" /\ UNCHANGED <<disk, before>>
      BY <1>1, <2>1 DEF Prepare, CheckActive, Stop, Return, Enter, Fixed
    <3> QED
      BY <2>1, <3>2, <3>3, ErrorReturn DEF Untouched
  <2>2. CASE pc' # "done"
    BY <1>1, <2>2, StillSwitching
    DEF Prepare, CheckActive, Stop, Return, Enter, SwitchInv
  <2> QED
    BY <2>1, <2>2
<1>2. CASE MoveEntry /\ pc \notin RestoreLoops
  BY <1>2, StillSwitching DEF MoveEntry, SwitchInv
<1>3. CASE MoveEntry /\ pc \in RestoreLoops
  BY <1>3, RollbackMoves
<1>4. CASE MoveEnds /\ pc \notin RestoreLoops
  BY <1>4, StillSwitching DEF MoveEnds, Enter, Following, SwitchInv
<1>5. CASE MoveEnds /\ pc \in RestoreLoops
  BY <1>5, RollbackEndsMoving
<1>6. CASE MoveFails /\ pc \in RestoreLoops
  <2>1. ~Fault
    BY <1>6, FilesAssumption DEF RollbackInv, RollbackSteps, Fault, OneFault
  <2>2. PICK f \in todo : disk["live"][f] # "absent"
    BY <1>6, <2>1 DEF MoveFails, To
  <2>3. disk["live"][f] = "absent"
    BY <1>6 DEF RollbackInv, Restoring, Live
  <2> QED
    BY <2>2, <2>3
<1>7. CASE \/ Stage \/ (MoveFails /\ pc \notin RestoreLoops)
           \/ MoveConfig \/ InstallConfig \/ SyncConfigs \/ Start
  BY <1>7, SwitchOrRollback
<1>8. CASE Commit
  BY <1>8 DEF Commit, Return, RollbackInv, RollbackSteps
<1>9. CASE RemoveInstalled
  BY <1>9, RollbackRemoves
<1>10. CASE RemoveEnds
  BY <1>10, RollbackEndsRemoving
<1>11. CASE RestoreConfig
  BY <1>11, RollbackRestoresConfig
<1>12. CASE DropStaging
  <2>1. /\ pc = "dropStaging" /\ pc' = "restart" /\ faults = 1 /\ faults' = 1
        /\ disk'["live"] = disk["live"] /\ UNCHANGED <<before, result>>
    BY <1>12, FilesAssumption
    DEF DropStaging, Enter, RollbackInv, RollbackSteps, OneFault, Fault,
                 NoFault, Fixed, TypeOK, Places
  <2> QED
    BY <2>1 DEF RollbackInv, Untouched
<1>13. CASE Restart
  <2>1. Untouched' /\ pc' = "done" /\ result' = "error"
    BY <1>13 DEF Restart, Return, RollbackInv, Untouched, Fixed
  <2> QED
    BY <2>1, ErrorReturn
<1>14. CASE Crash
  <2>1. NothingLost
    BY <1>14, SwitchKeeps, RollbackKeeps
    DEF Crash, Running, Switching, TypeOK, Steps, RollbackSteps
  <2>2. pc' = "crashed" /\ UNCHANGED <<disk, before, archived, result>>
    BY <1>14 DEF Crash, txVars, Fixed
  <2> QED
    BY <1>14, <2>1, <2>2
    DEF RollbackInv, RollbackSteps, NothingLost, OldKept, Replaced, Crash, Running
<1>15. CASE Unit \/ UNCHANGED vars
  BY <1>15
  DEF Unit, Fixed, txVars, vars, RollbackInv, ConfigAside, Undoing, Restoring,
      MovedBack, ToMoveBack, PutBack, Live, Old, Untouched, NothingLost, OldKept,
      Replaced
<1> QED
  BY <1>1, <1>2, <1>3, <1>4, <1>5, <1>6, <1>7, <1>8, <1>9, <1>10, <1>11, <1>12,
     <1>13, <1>14, <1>15
  DEF Next, Command, Terminated

(* With at most one failed operation the rollback completes.               *)
THEOREM RollbackShape ==
  ASSUME OneFault
  PROVE  Spec => [](TypeOK /\ SwitchInv /\ RollbackInv)
<1>1. Init => RollbackInv
  BY DEF Init, RollbackInv, RollbackSteps, RestoreLoops
<1>2. TypeOK /\ SwitchInv /\ RollbackInv /\ [Next]_vars => RollbackInv'
  BY RollbackStep
<1> QED
  BY <1>1, <1>2, SwitchShape, PTL DEF Spec

(* If at most one operation of the run fails, a command that reports an    *)
(* error has the old players/, world/ and config.lua live again.           *)
THEOREM Failure ==
  ASSUME OneFault
  PROVE  Spec => []FailureRestores
<1>1. RollbackInv => FailureRestores
  BY DEF RollbackInv, FailureRestores
<1> QED
  BY <1>1, RollbackShape, PTL

(* If at most one operation of the run fails, no old file is lost before   *)
(* the new state is complete, wherever the process dies.                   *)
THEOREM Preservation ==
  ASSUME OneFault
  PROVE  Spec => []NothingLost
<1>1. TypeOK /\ SwitchInv /\ RollbackInv => NothingLost
  <2> SUFFICES ASSUME TypeOK, SwitchInv, RollbackInv PROVE NothingLost
    OBVIOUS
  <2>1. CASE pc = "done"
    BY <2>1 DEF RollbackInv, SwitchInv, TypeOK, NothingLost, OldKept, Untouched
  <2>2. CASE pc = "crashed"
    BY <2>2 DEF RollbackInv
  <2>3. CASE pc \notin {"done", "crashed"}
    BY <2>3, SwitchKeeps, RollbackKeeps DEF TypeOK, Steps, Switching, RollbackSteps
  <2> QED
    BY <2>1, <2>2, <2>3
<1> QED
  BY <1>1, RollbackShape, PTL
-----------------------------------------------------------------------------
(* The promise of AtomicDeploy.                                            *)

LEMMA FixedThroughout ==
  ASSUME [Next]_vars
  PROVE  UNCHANGED <<archived, before>>
BY DEF Next, Command, Prepare, CheckActive, Stop, Stage, MoveEntry, MoveEnds,
       MoveFails, MoveConfig, InstallConfig, SyncConfigs, Start, Commit,
       RemoveInstalled, RemoveEnds, RestoreConfig, DropStaging, Restart, Crash,
       Unit, Terminated, Fixed, vars

LEMMA ArchiveHasConfig == Spec => [](archived[Config] = "new")
<1>1. Init => archived[Config] = "new"
  BY DEF Init
<1>2. archived[Config] = "new" /\ [Next]_vars => (archived[Config] = "new")'
  BY FixedThroughout
<1> QED
  BY <1>1, <1>2, PTL DEF Spec

(* A finished command does not touch the files any more.                   *)
LEMMA FinishedStays ==
  ASSUME ~Running, [Next]_vars
  PROVE  UNCHANGED <<pc, result, disk>>
BY DEF Running, Next, Command, Prepare, CheckActive, Stop, Stage, MoveEntry,
       MoveEnds, MoveFails, MoveConfig, InstallConfig, SyncConfigs, Start,
       Commit, RemoveInstalled, RemoveEnds, RestoreConfig, DropStaging, Restart,
       Crash, Unit, Terminated, txVars, vars, MoveLoops, BackupLoops,
       InstallLoops, RestoreLoops

(* With at most one failed operation, state deploy is an atomic deploy:    *)
(* every step of it is a step of AtomicDeploy or invisible to the caller.  *)
THEOREM Atomicity ==
  ASSUME OneFault
  PROVE  Spec => KeepsPromise
<1> DEFINE Inv == /\ TypeOK /\ SwitchInv /\ RollbackInv /\ NothingLost
                  /\ archived[Config] = "new"
<1>1. Init => Promise!Init
  BY DEF Init, Promise!Init, Running
<1>2. Inv /\ Inv' /\ [Next]_vars => [Promise!Next]_(Promise!vars)
  <2> SUFFICES ASSUME Inv, Inv', [Next]_vars
               PROVE  [Promise!Next]_(Promise!vars)
    OBVIOUS
  <2>0. ~(Untouched /\ Replaced)'
    BY FilesAssumption DEF Untouched, Replaced, TypeOK, Files
  <2>1. CASE Running /\ Running'
    BY <2>1 DEF Promise!vars
  <2>2. CASE ~Running
    BY <2>2, FinishedStays, FixedThroughout
    DEF Promise!vars, Running, Untouched, Replaced, OldKept
  <2>3. CASE Running /\ pc' = "crashed"
    <3>1. Untouched' => OldKept'
      BY DEF Untouched, OldKept, TypeOK
    <3>2. (Replaced \/ OldKept)'
      BY DEF NothingLost
    <3>3. Promise!Crash
      BY <2>3, <3>1, <3>2 DEF Promise!Crash, Running, OldKept
    <3> QED
      BY <3>3 DEF Promise!Next
  <2>4. CASE Running /\ pc' = "done" /\ result' = "ok"
    <3>1. Replaced' /\ ~Untouched'
      BY <2>0, <2>4 DEF SwitchInv
    <3>2. Promise!Succeed
      BY <2>4, <3>1 DEF Promise!Succeed, Running, OldKept
    <3> QED
      BY <3>2 DEF Promise!Next
  <2>5. CASE Running /\ pc' = "done" /\ result' = "error"
    <3>1. Untouched'
      BY <2>5 DEF RollbackInv
    <3>2. OldKept'
      BY <3>1 DEF Untouched, OldKept, TypeOK
    <3>3. Promise!Fail
      BY <2>5, <3>1, <3>2 DEF Promise!Fail, Running
    <3> QED
      BY <3>3 DEF Promise!Next
  <2>6. pc' = "done" => result' \in {"ok", "error"}
    BY DEF RollbackInv, TypeOK
  <2> QED
    BY <2>1, <2>2, <2>3, <2>4, <2>5, <2>6 DEF Running
<1> QED
  BY <1>1, <1>2, RollbackShape, Preservation, ArchiveHasConfig, PTL
  DEF Spec, KeepsPromise, Promise!Spec

-----------------------------------------------------------------------------
(* The unit is down from the successful stop, or from the check that found *)
(* it down, to the end of the switch.  No job is queued by then: a stop    *)
(* left behind ends the command, and a start is left behind only when the  *)
(* archive is live.                                                        *)
NothingThere(p) == \A f \in Files : disk[p][f] = "absent"

UnitInv ==
  /\ job \in abandoned \cup {"none"}
  /\ pc \in {"prepare", "isActive", "stop", "stage", "start"} \cup SwitchSteps =>
       abandoned = {}
  /\ gameCrashes = 0 =>
       /\ unit # "activating"
       /\ pc \in {"stage", "start"} \cup SwitchSteps => unit = "inactive"
       /\ pc \in RollbackSteps \cup {"restart"} /\ unit = "active" =>
            "start" \in abandoned
  /\ pc = "stop" => unit # "inactive"

ReturnInv ==
  /\ pc \in {"prepare", "isActive"} => ~wasActive
  /\ pc \in {"prepare", "isActive", "stop"} =>
       Untouched /\ NothingThere("staged") /\ NothingThere("old")
  /\ pc \in RollbackSteps \cup {"restart"} => faults >= 1
  /\ pc # "done" => result = "none"
  /\ ServerAsBefore /\ LateStopMeetsNothing

(* What the unit does by itself, and when a queued job is behind it.       *)
LEMMA UnitAlone ==
  ASSUME job \in abandoned \cup {"none"}, unit \in UnitStates, gameCrashes \in Nat,
         abandoned \in SUBSET Verbs, UnitStep
  PROVE  /\ abandoned' = abandoned /\ job' \in abandoned' \cup {"none"}
         /\ unit' \in UnitStates
         /\ unit' = "inactive" => "stop" \in abandoned
         /\ gameCrashes' = 0 =>
              /\ gameCrashes = 0
              /\ unit # "activating" =>
                   unit' # "activating" /\ (unit' = "active" => "start" \in abandoned)
BY DEF UnitStep, JobRuns, GameCrashes, AutoRestart, Reached, UnitStates, Verbs

(* A loop of the switch finds no entry in its way: only a failing          *)
(* operation ends it early.                                                *)
LEMMA SwitchMeetsNothing ==
  ASSUME TypeOK, SwitchInv, MoveFails, pc \notin RestoreLoops
  PROVE  Fault
<1>1. CASE pc \in BackupLoops
  <2>1. \A f \in todo : disk["old"][f] = "absent"
    BY <1>1 DEF SwitchInv, BackupLoops, BackingUp, Fresh, Old
  <2>2. To(pc) = "old"
    BY <1>1 DEF To
  <2> QED
    BY <2>1, <2>2 DEF MoveFails
<1>2. CASE pc \in InstallLoops
  <2>1. \A f \in todo : disk["live"][f] = "absent"
    BY <1>2 DEF SwitchInv, InstallLoops, Installing, Aside, Live
  <2>2. To(pc) = "live"
    BY <1>2 DEF To, InstallLoops, BackupLoops
  <2> QED
    BY <2>1, <2>2 DEF MoveFails
<1> QED
  BY <1>1, <1>2 DEF MoveFails, MoveLoops

LEMMA UnitInvStep ==
  ASSUME TypeOK, UnitInv, [Next]_vars
  PROVE  UnitInv'
<1> USE DEF SwitchSteps, BackupLoops, InstallLoops, RollbackSteps, RestoreLoops
<1>0. gameCrashes \in Nat /\ unit \in UnitStates /\ abandoned \in SUBSET Verbs
  BY DEF TypeOK, UnitTypeOK
<1> USE DEF UnitInv, Enter, Return
<1>1. CASE Prepare \/ CheckActive
  BY <1>0, <1>1 DEF Prepare, CheckActive, unitVars, IsActive, UnitStates
<1>2. CASE Stop
  BY <1>2 DEF Stop, ControlSucceeds, ControlFails, Reached
<1>3. CASE Stage \/ MoveEntry \/ MoveConfig \/ InstallConfig \/ SyncConfigs
  BY <1>3 DEF Stage, MoveEntry, MoveConfig, InstallConfig, SyncConfigs, unitVars, MoveLoops
<1>4. CASE MoveEnds \/ MoveFails
  BY <1>4 DEF MoveEnds, MoveFails, MoveLoops, Following, unitVars
<1>5. CASE Start \/ Commit \/ Restart \/ Crash
  BY <1>5 DEF Start, Commit, Restart, Crash, ControlSucceeds, ControlFails, Reached, unitVars
<1>6. CASE RemoveInstalled \/ RemoveEnds \/ RestoreConfig \/ DropStaging
  BY <1>6 DEF RemoveInstalled, RemoveEnds, RestoreConfig, DropStaging, unitVars
<1>7. CASE Unit
  <2>1. pc' = pc
    BY <1>7 DEF Unit
  <2>2. /\ abandoned' = abandoned /\ job' \in abandoned' \cup {"none"}
        /\ unit' \in UnitStates
        /\ unit' = "inactive" => "stop" \in abandoned
        /\ gameCrashes' = 0 =>
             /\ gameCrashes = 0
             /\ unit # "activating" =>
                  unit' # "activating" /\ (unit' = "active" => "start" \in abandoned)
    BY <1>0, <1>7, UnitAlone DEF Unit
  <2>3. ASSUME gameCrashes' = 0, pc' \in {"stage", "start"} \cup SwitchSteps
        PROVE  unit' = "inactive"
    <3>1. abandoned = {}
      BY <2>1, <2>3
    <3>2. unit' # "activating" /\ unit' # "active"
      BY <2>2, <2>3, <3>1
    <3> QED
      BY <2>2, <3>2 DEF UnitStates
  <2> QED
    BY <2>1, <2>2, <2>3
<1>8. CASE UNCHANGED vars
  BY <1>8 DEF vars, unitVars
<1> QED
  BY <1>1, <1>2, <1>3, <1>4, <1>5, <1>6, <1>7, <1>8
  DEF Next, Command, Terminated

LEMMA ReturnInvStep ==
  ASSUME TypeOK, SwitchInv, UnitInv, ReturnInv, [Next]_vars
  PROVE  ReturnInv'
<1>0. /\ faults \in Nat /\ unit \in UnitStates /\ abandoned \in SUBSET Verbs
      /\ gameCrashes \in Nat
  BY DEF TypeOK, UnitTypeOK
<1> USE DEF ReturnInv, Enter, Return, Fixed, NoFault, RollbackSteps, RestoreLoops,
            ServerAsBefore, LateStopMeetsNothing, Untouched, NothingThere
<1>1. CASE Prepare \/ CheckActive
  BY <1>0, <1>1 DEF Prepare, CheckActive, unitVars, UnitInv
<1>2. CASE Stop
  BY <1>0, <1>2 DEF Stop, ControlSucceeds, ControlFails, Fault, UnitInv, Reached
<1>3. CASE Stage \/ MoveEntry \/ MoveConfig \/ InstallConfig \/ SyncConfigs
  <2>0. pc # "done"
    BY <1>3 DEF Stage, MoveEntry, MoveConfig, InstallConfig, SyncConfigs, MoveLoops,
       BackupLoops, InstallLoops
  <2>1. "stop" \notin abandoned
    BY <2>0
  <2>2. abandoned' = abandoned /\ result' = result /\ pc # "done" /\ pc' # "done"
    BY <1>3 DEF Stage, MoveEntry, MoveConfig, InstallConfig, SyncConfigs, MoveLoops, unitVars,
       InstallLoops, BackupLoops
  <2>3. pc' \in RollbackSteps \cup {"restart"} => faults' >= 1
    BY <1>0, <1>3 DEF Stage, MoveEntry, MoveConfig, InstallConfig, SyncConfigs, Fault
  <2> QED
    BY <1>3, <2>1, <2>2, <2>3
    DEF Stage, MoveEntry, MoveConfig, InstallConfig, SyncConfigs, MoveLoops, BackupLoops,
        InstallLoops
<1>4. CASE MoveEnds \/ MoveFails
  <2>1. "stop" \notin abandoned /\ pc \in MoveLoops
    BY <1>4 DEF MoveEnds, MoveFails, MoveLoops, BackupLoops, InstallLoops
  <2>2. /\ abandoned' = abandoned /\ result' = result
        /\ pc' \in {"moveWorld", "installPlayers", "installWorld", "moveConfig"}
                     \cup RollbackSteps
    BY <1>4, <2>1
    DEF MoveEnds, MoveFails, Following, MoveLoops, BackupLoops, InstallLoops, unitVars
  <2>3. pc' \in RollbackSteps => faults' >= 1
    <3>1. CASE pc \in RestoreLoops
      BY <1>0, <1>4, <3>1 DEF MoveEnds, MoveFails, Fault
    <3>2. CASE MoveFails /\ pc \notin RestoreLoops
      BY <1>0, <3>2, SwitchMeetsNothing DEF Fault
    <3>3. CASE MoveEnds /\ pc \notin RestoreLoops
      BY <2>1, <3>3 DEF MoveEnds, Following, MoveLoops, BackupLoops, InstallLoops
    <3> QED
      BY <1>4, <3>1, <3>2, <3>3
  <2> QED
    BY <2>1, <2>2, <2>3 DEF MoveLoops, BackupLoops, InstallLoops
<1>5. CASE Start \/ Commit
  <2>1. "stop" \notin abandoned
    BY <1>5 DEF Start, Commit
  <2> QED
    BY <1>0, <1>5, <2>1 DEF Start, Commit, ControlSucceeds, ControlFails, Fault, unitVars
<1>6. CASE Restart
  BY <1>0, <1>6 DEF Restart, Restarting, ControlSucceeds, ControlFails, Reached, Fault, unitVars
<1>7. CASE RemoveInstalled \/ RemoveEnds \/ RestoreConfig \/ DropStaging
  <2>1. "stop" \notin abandoned /\ pc \in RollbackSteps
    BY <1>7 DEF RemoveInstalled, RemoveEnds, RestoreConfig, DropStaging
  <2> QED
    BY <1>0, <1>7, <2>1
    DEF RemoveInstalled, RemoveEnds, RestoreConfig, DropStaging, Fault, unitVars
<1>8. CASE Crash
  BY <1>8 DEF Crash, Running, unitVars, txVars
<1>9. CASE Unit
  <2>1. UNCHANGED <<pc, result, noRestart, wasActive, before, disk, faults>>
    BY <1>9 DEF Unit, txVars
  <2>2. abandoned' = abandoned /\ (unit' = "inactive" => "stop" \in abandoned)
    BY <1>0, <1>9, UnitAlone DEF Unit, UnitInv
  <2> QED
    BY <2>1, <2>2
<1>10. CASE UNCHANGED vars
  BY <1>10 DEF vars, unitVars, txVars
<1> QED
  BY <1>1, <1>2, <1>3, <1>4, <1>5, <1>6, <1>7, <1>8, <1>9, <1>10
  DEF Next, Command, Terminated

(* For any number of failures, late systemd jobs and deaths of the         *)
(* process: a server that does not crash on its own is down while files    *)
(* are switched, and the server is back after an error                     *)
(* (deployStateLocked, its fail closure, deployControl).                   *)
THEOREM StopsAndReturns == Spec => []ServerStopsAndReturns
<1>1. Init => UnitInv /\ ReturnInv
  BY DEF Init, UnitInit, UnitInv, ReturnInv, ServerAsBefore, LateStopMeetsNothing,
         Untouched, NothingThere, SwitchSteps, BackupLoops, InstallLoops,
         RollbackSteps, RestoreLoops, Places
<1>2. TypeOK /\ SwitchInv /\ UnitInv /\ ReturnInv /\ [Next]_vars =>
        (UnitInv /\ ReturnInv)'
  BY UnitInvStep, ReturnInvStep
<1>3. UnitInv /\ ReturnInv => ServerStopsAndReturns
  BY DEF UnitInv, ReturnInv, ServerStopsAndReturns, StoppedForSwitch,
         ServerDownDuringSwitch
<1> QED
  BY <1>1, <1>2, <1>3, SwitchShape, PTL DEF Spec
=============================================================================
