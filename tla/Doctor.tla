------------------------------- MODULE Doctor -------------------------------
(***************************************************************************)
(* "doctor" beside one run of "mods deploy" (internal/doctor).  It takes   *)
(* no lock: it reads the tree check by check, in the order of Run, while   *)
(* the deploy goes on, has failed, or has died and left its files behind.  *)
(*                                                                         *)
(* Modelled are the checks that look at what a deploy changes: current,    *)
(* datafiles, configs (customScripts.lua) and cleanup.                     *)
(***************************************************************************)
EXTENDS ModsDeploy, Sequences

VARIABLES
  stagingDir,   \* .staging/mods-<id> itself, which holds the staged dirs
  parts,        \* texts whose .part file a dead process left
  check,        \* where doctor stands in Checks; 0: it has not started
  failed,       \* the checks that reported an error
  quiet         \* nothing has changed since it started

treeVars == <<stagingDir, parts>>
doctorVars == <<check, failed, quiet>>
allVars == <<vars, treeVars, doctorVars>>

Checks == <<"current", "datafiles", "configs", "cleanup">>
Finished == check > Len(Checks)

-----------------------------------------------------------------------------
(* ReadCurrentFile, and the archive it names is there with its sum.  The   *)
(* retention keeps it (BackupStore).                                       *)
checkCurrent == live["current"] # "absent"

(* requiredDataFiles.json and the plugins lie in one directory: what       *)
(* belongs to one package agrees.  No other file is looked at.             *)
checkDataFiles == live["plugins"] \in {"old", "new"}

(* Mutant of checkCustomScripts: the requires are not compared.            *)
checkCustomScriptsLoose ==
  /\ live["scripts"] # "absent"
  /\ live["customScripts"] # "absent"

(* One require for each script in mods/scripts.  Two packages are taken to *)
(* hold scripts of different names, so the file of the other one does not  *)
(* match.                                                                  *)
checkCustomScripts ==
  /\ live["scripts"] \in {"old", "new"}
  /\ live["customScripts"] = live["scripts"]

(* .part and .old- below backups/, in the root, in mods/ and mods/plugins; *)
(* configs/, where customScripts.lua.part would be, is not looked into.    *)
orphanName ==
  (IF "current" \in parts THEN {"current.txt.part"} ELSE {})
    \cup {d \in Dirs : retired[d] # "absent"}

checkCleanup ==
  ~stagingDir /\ orphanName = {} /\ live["plugins"] # "absent"

Passes(name) ==
  CASE name = "current"   -> checkCurrent
    [] name = "datafiles" -> checkDataFiles
    [] name = "configs"   -> checkCustomScripts
    [] name = "cleanup"   -> checkCleanup

(* summarize: one failed check makes the report an error, for which the    *)
(* panel refuses every change for a minute.                                *)
summarize == IF failed = {} THEN "ok" ELSE "error"

-----------------------------------------------------------------------------
DoctorInit ==
  /\ Init
  /\ stagingDir = FALSE /\ parts = {}
  /\ check = 0 /\ failed = {} /\ quiet = TRUE

(* runDoctor, doctor.Run.                                                  *)
Run ==
  /\ check = 0
  /\ check' = 1 /\ failed' = {} /\ quiet' = ~Running
  /\ UNCHANGED <<vars, treeVars>>

RunCheck ==
  /\ check > 0 /\ ~Finished
  /\ check' = check + 1
  /\ failed' = IF Passes(Checks[check]) THEN failed ELSE failed \cup {Checks[check]}
  /\ UNCHANGED <<vars, treeVars, quiet>>

(* Stage makes the directory first; commit and dropStaging remove it, what *)
(* cannot be removed stays.                                                *)
StagingAfter ==
  CASE pc = "stage" -> IF faults' > faults THEN BOOLEAN ELSE {TRUE}
    [] pc \in {"commit", "dropStaging"} ->
         IF faults' > faults THEN {stagingDir, FALSE} ELSE {FALSE}
    [] OTHER -> {stagingDir}

StagingHolds == staged # NoDirs

Deploy ==
  /\ Command
  /\ stagingDir' \in StagingAfter /\ (StagingHolds' => stagingDir')
  /\ UNCHANGED <<parts, doctorVars>>

(* A text is written to its .part file, which is then renamed.             *)
Die ==
  /\ Crash
  /\ parts' \in IF pc \in WriteSteps \cup RewriteSteps THEN {{}, {Text(pc)}} ELSE {{}}
  /\ UNCHANGED <<stagingDir, doctorVars>>

DoctorNext ==
  \/ Run \/ RunCheck \/ Deploy \/ Die
  \/ (Unit \/ Terminated) /\ UNCHANGED <<treeVars, doctorVars>>

DoctorSpec == DoctorInit /\ [][DoctorNext]_allVars

-----------------------------------------------------------------------------
(* Doctor is trusted to find what a deploy left.  An all-clear of a doctor *)
(* that nothing disturbed means that plugins, scripts and customScripts    *)
(* come from one package, complete, and that no remains of the deploy lie  *)
(* about, whether it died or its rollback failed (what current.txt names   *)
(* is not compared with mods/, nor plugins with scripts: the tree must     *)
(* have held one package, or none, before).  And a deploy that went well   *)
(* leaves nothing to report, if no removal failed (checkCleanup,           *)
(* checkDataFiles, checkConfigs; commit).                                  *)
AllClear == Finished /\ quiet /\ summarize = "ok"

DoctorIsRight ==
  /\ AllClear /\ before["plugins"] = before["scripts"] =>
       /\ live["plugins"] = live["scripts"]
       /\ live["plugins"] \in {"old", "new"}
       /\ live["customScripts"] = live["scripts"]
       /\ retired = NoDirs /\ staged = NoDirs
  /\ Finished /\ quiet /\ result = "ok" /\ faults = 0 => summarize = "ok"

(* docs/v2/04-ops.md:149, "no orphaned .part, .old-* or .staging/": an     *)
(* all-clear means that no .part file is left.  The code does not look     *)
(* into configs/.                                                          *)
NoPartLeft == AllClear => parts = {}
=============================================================================
