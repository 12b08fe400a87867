---------------------------- MODULE ClientWindow ----------------------------
(***************************************************************************)
(* What the client's window shows of work that runs behind it: the setup   *)
(* wizard with one background task at a time, the TES3MP install that may  *)
(* also run from the Installation screen or go on after its wizard was     *)
(* closed, and the font download with its generations.                     *)
(***************************************************************************)
EXTENDS Naturals, FiniteSets

CONSTANTS MaxRuns,    \* bound: font downloads of a session
          MaxOrphans  \* bound: installs that run outside the open wizard

Steps == {"morrowind", "tes3mp", "fonts"}

VARIABLES
  open,        \* a wizard is on the screen
  step,
  task,        \* what runs behind the wizard: [what, on], on being its step
  ready,       \* tes3mpReady
  locked,      \* no way back after an install
  searched,    \* morrowindAttempted
  retry,       \* the action behind the Retry button, "none" when hidden
  setup,       \* SetupComplete in the configuration
  tes3mp,      \* the pinned release is installed
  orphans,     \* installs whose wizard is gone, or of the Installation screen
  generation,  \* fonts.generation
  downloading, \* fonts.downloading
  outcome,     \* what the row says of the last run: none, failed, canceled
  runs         \* the goroutines of font downloads, by generation

wizard == <<open, step, task, ready, locked, searched, retry>>
fonts  == <<generation, downloading, outcome, runs>>
disk   == <<setup, tes3mp, orphans>>
vars   == <<wizard, disk, fonts>>

NoTask == [what |-> "none", on |-> "none"]
Busy   == task # NoTask

Init ==
  /\ open = FALSE /\ step = "morrowind" /\ task = NoTask
  /\ ready = FALSE /\ locked = FALSE /\ searched = FALSE /\ retry = "none"
  /\ setup = FALSE /\ tes3mp \in BOOLEAN /\ orphans = 0
  /\ generation = 0 /\ downloading = FALSE /\ outcome = "none" /\ runs = {}

-----------------------------------------------------------------------------
(* beginBusy: a second task is dropped.                                    *)
BeginBusy(what) == task' = IF Busy THEN task ELSE [what |-> what, on |-> step']

(* enterStep: the first look at the game folder, every look at TES3MP.     *)
EnterStep ==
  CASE step' = "morrowind" ->
         /\ searched' = TRUE
         /\ IF searched THEN UNCHANGED task ELSE BeginBusy("search")
    [] step' = "tes3mp" -> BeginBusy("check") /\ UNCHANGED searched
    [] step' = "fonts"  -> UNCHANGED <<task, searched>>

(* openWizard: a new wizard, with nothing known but a configured folder.   *)
OpenWizard ==
  /\ ~open /\ open' = TRUE
  /\ step' \in {"morrowind", "tes3mp"}
  /\ ready' = FALSE /\ locked' = FALSE /\ retry' = "none"
  /\ searched' = (step' = "morrowind")
  /\ task' = [what |-> IF step' = "morrowind" THEN "search" ELSE "check", on |-> step']
  /\ UNCHANGED <<disk, fonts>>

(* The dialog's own Cancel works at any time; an install goes on.          *)
CloseWizard ==
  /\ open
  /\ task.what = "install" => orphans < MaxOrphans
  /\ open' = FALSE /\ task' = NoTask /\ retry' = "none"
  /\ orphans' = IF task.what = "install" THEN orphans + 1 ELSE orphans
  /\ UNCHANGED <<step, ready, locked, searched, setup, tes3mp, fonts>>

CanAdvance == step = "tes3mp" => ready

CanGoBack == ~locked /\ step # "morrowind"

MayAct == open /\ ~Busy

GotoStep(to) ==
  /\ step' = to /\ retry' = "none"
  /\ EnterStep
  /\ UNCHANGED <<open, ready, locked, disk, fonts>>

Advance ==
  /\ MayAct /\ CanAdvance
  /\ \/ step = "morrowind" /\ GotoStep("tes3mp")
     \/ step = "tes3mp" /\ GotoStep("fonts")

Previous ==
  /\ MayAct /\ CanGoBack
  /\ GotoStep(IF step = "fonts" THEN "tes3mp" ELSE "morrowind")

(* The buttons of a step, and Retry, which is shown while a task runs too  *)
(* and then only hides itself.                                             *)
StartTask(what) ==
  /\ open /\ step = (IF what = "search" THEN "morrowind" ELSE "tes3mp")
  /\ what = "install" => ~ready
  /\ IF what = "check" THEN retry = what ELSE TRUE
  /\ retry' = IF retry = what THEN "none" ELSE retry
  /\ UNCHANGED step /\ BeginBusy(what)
  /\ UNCHANGED <<open, ready, locked, searched, disk, fonts>>

(* The end of a task, in the window's thread.                              *)
EndTask ==
  /\ Busy /\ task' = NoTask
  /\ CASE task.what = "search" ->
            retry' \in {"none", "search"} /\ UNCHANGED <<ready, locked, tes3mp>>
       [] task.what = "check" ->
            /\ UNCHANGED <<locked, tes3mp>>
            /\ \/ ready' = tes3mp /\ UNCHANGED retry
               \/ ready' = FALSE /\ retry' = "check"
       [] task.what = "install" ->
            \/ tes3mp' = TRUE /\ ready' = TRUE /\ locked' = TRUE /\ retry' = "none"
            \/ ready' = FALSE /\ retry' = "install" /\ UNCHANGED <<locked, tes3mp>>
  /\ UNCHANGED <<open, step, searched, setup, orphans, fonts>>

(* installTES3MPFromList, and the installs of closed wizards.              *)
InstallFromList ==
  /\ ~open /\ orphans < MaxOrphans /\ orphans' = orphans + 1
  /\ UNCHANGED <<wizard, setup, tes3mp, fonts>>

OrphanEnds ==
  /\ orphans > 0 /\ orphans' = orphans - 1
  /\ tes3mp' \in {tes3mp, TRUE}
  /\ UNCHANGED <<wizard, setup, fonts>>

(* Uninstall of the game files, behind a dialog that cannot be closed.     *)
Uninstall ==
  /\ ~open /\ tes3mp' = FALSE
  /\ UNCHANGED <<wizard, setup, orphans, fonts>>

-----------------------------------------------------------------------------
(* startFontDownload: a no-op while a run is active.                       *)
StartFonts ==
  IF downloading THEN UNCHANGED fonts
  ELSE /\ generation' = generation + 1
       /\ downloading' = TRUE /\ outcome' = "none"
       /\ runs' = runs \cup {generation + 1}

FontsRow ==
  /\ ~open /\ generation < MaxRuns /\ StartFonts /\ UNCHANGED <<wizard, disk>>

(* Mutant of CancelFonts: the cancelled run may still speak.               *)
CancelFontsOnly ==
  /\ ~open /\ downloading
  /\ downloading' = FALSE /\ outcome' = "canceled"
  /\ UNCHANGED <<generation, runs, wizard, disk>>

(* cancelFontDownload: the goroutine ends when it notices.                 *)
CancelFonts ==
  /\ ~open /\ downloading /\ generation < MaxRuns
  /\ generation' = generation + 1
  /\ downloading' = FALSE /\ outcome' = "canceled"
  /\ UNCHANGED <<runs, wizard, disk>>

(* A run ends; one of an older generation is ignored.                      *)
FontsEnd(run) ==
  /\ run \in runs /\ runs' = runs \ {run}
  /\ IF run = generation
     THEN downloading' = FALSE /\ outcome' \in {"none", "failed"}
     ELSE UNCHANGED <<downloading, outcome>>
  /\ UNCHANGED <<generation, wizard, disk>>

(* Finish: saved in the configuration, then the fonts that are missing.    *)
Finish ==
  /\ MayAct /\ step = "fonts"
  /\ setup' = TRUE /\ open' = FALSE /\ retry' = "none"
  /\ \/ UNCHANGED fonts
     \/ generation < MaxRuns /\ StartFonts
  /\ UNCHANGED <<step, task, ready, locked, searched, tes3mp, orphans>>

FinishFails ==
  /\ MayAct /\ step = "fonts" /\ retry' = "finish"
  /\ UNCHANGED <<open, step, task, ready, locked, searched, disk, fonts>>

Next ==
  \/ OpenWizard \/ CloseWizard \/ Advance \/ Previous \/ EndTask
  \/ \E what \in {"search", "check", "install"} : StartTask(what)
  \/ InstallFromList \/ OrphanEnds \/ Uninstall
  \/ FontsRow \/ CancelFonts \/ Finish \/ FinishFails
  \/ \E run \in runs : FontsEnd(run)

Spec == Init /\ [][Next]_vars

-----------------------------------------------------------------------------
TypeOK ==
  /\ {open, ready, locked, searched, setup, tes3mp, downloading} \subseteq BOOLEAN
  /\ step \in Steps /\ orphans \in 0..MaxOrphans
  /\ task \in [what : {"none", "search", "check", "install"},
               on : Steps \cup {"none"}]
  /\ retry \in {"none", "search", "check", "install", "finish"}
  /\ generation \in 0..MaxRuns /\ runs \subseteq 1..MaxRuns
  /\ outcome \in {"none", "failed", "canceled"}

(* What a task finds is shown on the step it was started from: a wizard    *)
(* that moves on, goes back or is reopened never gets an answer to a       *)
(* question of another step.                                               *)
AnswersItsStep == Busy => open /\ task.on = step

(* The fonts row: it says "downloading" exactly while a run of the present *)
(* generation goes on, so no cancelled run ends the one that followed it,  *)
(* and the row cannot stay busy for ever.                                  *)
RowFollowsItsRun == downloading <=> generation \in runs
=============================================================================
