------------------------------ MODULE MCStore -------------------------------
(* What the server keeps in files: the backup store and its commands       *)
(* (BackupStore), the retention planner run again and again on every small *)
(* inventory (RetentionRuns), the config texts (GameConfig), the archives  *)
(* themselves (Archives) and their list (BackupsList).  They are bound to  *)
(* one another by the operators they share (Retention) and not by          *)
(* variables, so a behaviour exercises one of them; the variables of the   *)
(* others are Off, those of BackupStore keep their initial values.         *)
EXTENDS BackupStore, TLC

CONSTANTS MaxValue, MaxLine,
          MaxEntries, MaxBlocks, NoList,
          MaxNow, MaxArchives, MaxChanges, Limit,
          RunsDay, RunsWeek, RunsMonth, RunsHot, RunsDaily, RunsMonthly,
          RunsPressure, RunsHorizon, RunsFiles

ASSUME MCStoreAssumption ==
  /\ {RunsDay, RunsWeek, RunsMonth} \subseteq Nat \ {0}
  /\ {RunsHot, RunsDaily, RunsMonthly, RunsPressure, RunsHorizon} \subseteq Nat
  /\ RunsHot < RunsDaily /\ RunsDaily < RunsMonthly
  /\ {MaxEntries, MaxBlocks} \subseteq Nat
  /\ Limit \in Nat \ {0} /\ MaxValue \in Nat

VARIABLES
  part,
  files, today,
  key, line, told,
  kind, phase, rd, val, ext, live, todo, stats,
  clock, archives, pc, before, shown, always, astray, changes

runsVars == <<files, today>>
configVars == <<key, line, told>>
archiveVars == <<kind, phase, rd, val, ext, live, todo, stats>>
listVars == <<clock, archives, pc, before, shown, always, astray, changes>>
storeVars == <<part, vars, runsVars, configVars, archiveVars, listVars>>

(* The planner has windows and periods of its own here, scaled down less   *)
(* than those of the store.                                                *)
R == INSTANCE RetentionRuns WITH
  DayLength <- RunsDay, WeekLength <- RunsWeek, MonthLength <- RunsMonth,
  HotWindow <- RunsHot, DailyWindow <- RunsDaily, MonthlyWindow <- RunsMonthly,
  PressureWindow <- RunsPressure, Horizon <- RunsHorizon, MaxFiles <- RunsFiles,
  now <- today

C == INSTANCE GameConfig
A == INSTANCE Archives WITH WorldDirs <- <<"cell", "custom">>
B == INSTANCE BackupsList WITH now <- clock

ASSUME NoListAssumption == NoList \notin A!Lists

Off == "off"

RunsOff == files = Off /\ today = Off

ConfigOff == key = Off /\ line = Off /\ told = Off

ArchivesOff ==
  /\ kind = Off /\ phase = Off /\ rd = Off /\ val = Off /\ ext = Off
  /\ live = Off /\ todo = Off /\ stats = Off

ListOff ==
  /\ clock = Off /\ archives = Off /\ pc = Off /\ before = Off /\ shown = Off
  /\ always = Off /\ astray = Off /\ changes = Off

StoreInit ==
  /\ Init
  /\ \/ part = "store" /\ RunsOff /\ ConfigOff /\ ArchivesOff /\ ListOff
     \/ part = "retention" /\ R!Init /\ ConfigOff /\ ArchivesOff /\ ListOff
     \/ part = "config" /\ C!Init /\ RunsOff /\ ArchivesOff /\ ListOff
     \/ part = "archives" /\ A!Init /\ RunsOff /\ ConfigOff /\ ListOff
     \/ part = "list" /\ B!Init /\ RunsOff /\ ConfigOff /\ ArchivesOff

(* Where the clock of the planner ends it has nothing left to do.          *)
RunsEnd == UNCHANGED runsVars

StoreNext ==
  /\ UNCHANGED part
  /\ \/ part = "store" /\ Next
          /\ UNCHANGED <<runsVars, configVars, archiveVars, listVars>>
     \/ part = "retention" /\ (R!Next \/ RunsEnd)
          /\ UNCHANGED <<vars, configVars, archiveVars, listVars>>
     \/ part = "config" /\ C!Next
          /\ UNCHANGED <<vars, runsVars, archiveVars, listVars>>
     \/ part = "archives" /\ A!Next
          /\ UNCHANGED <<vars, runsVars, configVars, listVars>>
     \/ part = "list" /\ B!Next
          /\ UNCHANGED <<vars, runsVars, configVars, archiveVars>>

StoreSpec == StoreInit /\ [][StoreNext]_storeVars

-----------------------------------------------------------------------------
(* RetentionRuns: the one-pass walk prunes exactly what the written policy *)
(* does not keep (classifyAutomatic).                                      *)
FollowsPolicy == part = "retention" => R!FollowsPolicy

(* RetentionRuns: once a month has an archive it always has one (Plan).    *)
MonthsForever == [][part = "retention" => R!KeepsMonths]_storeVars

(* GameConfig: what set reports is what the file says, and the comment of  *)
(* the line stays (setLua, setServer).                                     *)
ReadsBack == [][part = "config" => C!SettingSticks]_storeVars

(* Archives: validating and unpacking agree on every archive, and no file  *)
(* unpacked on the client takes the place of another (ValidateMods,        *)
(* ExtractMods, ExtractOverlay, ExtractZip).                               *)
ArchiveReads == part = "archives" => A!PassesAgree /\ A!UnpackedApart

(* Archives: a backup made while the game saves can be deployed            *)
(* (WriteState).                                                           *)
BackupRestores == part = "archives" => A!BackupRestores

(* BackupsList: who follows the links has seen everything once             *)
(* (applyBackupsCursor).                                                   *)
PagesComplete == part = "list" => B!PagesComplete
=============================================================================
