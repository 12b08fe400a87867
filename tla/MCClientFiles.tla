--------------------------- MODULE MCClientFiles ----------------------------
(* The client: the mods of a profile (ClientMods), TES3MP and the language *)
(* pack (ClientInstall), the settings and the running game (ClientSession),*)
(* the wizard and the fonts row (ClientWindow).  They share neither        *)
(* directories nor widgets, so a behaviour exercises one of them; the      *)
(* variables of the others are Off, those of ClientMods keep an initial    *)
(* value.                                                                  *)
EXTENDS MCClientMods, TLC

CONSTANTS fromWizard, fromRow, MaxInstallMishaps,
          Profiles, None, MaxVersion, MaxSessionMishaps,
          MaxRuns, MaxOrphans

ASSUME FilesAssumption ==
  /\ MaxVersion \in Nat \ {0} /\ MaxSessionMishaps \in Nat
  /\ MaxInstallMishaps \in Nat /\ MaxRuns \in Nat /\ MaxOrphans \in Nat

VARIABLES
  part,
  kind, pinned, served, dir, old, staging, cache, iPc, iWant, tries, hasOld,
  iResult, removing, had, overlapped, cut, iMishaps,
  cfg, file, unsynced, form, guard, sPlay, editor, alive, panel, mods, sUpdate,
  sMishaps,
  open, step, task, ready, locked, searched, retry, setup, tes3mp, orphans,
  generation, downloading, outcome, runs

installVars == <<kind, pinned, served, dir, old, staging, cache, iPc, iWant,
                 tries, hasOld, iResult, removing, had, overlapped, cut,
                 iMishaps>>
sessionVars == <<cfg, file, unsynced, form, guard, sPlay, editor, alive, panel,
                 mods, sUpdate, sMishaps>>
windowVars == <<open, step, task, ready, locked, searched, retry, setup, tes3mp,
                orphans, generation, downloading, outcome, runs>>
filesVars == <<part, vars, installVars, sessionVars, windowVars>>

I == INSTANCE ClientInstall WITH
       Installers <- {fromWizard, fromRow}, Attempts <- 2,
       MaxMishaps <- MaxInstallMishaps,
       pc <- iPc, want <- iWant, result <- iResult, mishaps <- iMishaps

S == INSTANCE ClientSession WITH
       MaxMishaps <- MaxSessionMishaps,
       play <- sPlay, update <- sUpdate, mishaps <- sMishaps

W == INSTANCE ClientWindow

(* Profiles differ in their addresses only.                                *)
Alike == Permutations(Profiles)

Off == "off"

InstallOff ==
  /\ kind = Off /\ pinned = Off /\ served = Off /\ dir = Off /\ old = Off
  /\ staging = Off /\ cache = Off /\ iPc = Off /\ iWant = Off /\ tries = Off
  /\ hasOld = Off /\ iResult = Off /\ removing = Off /\ had = Off
  /\ overlapped = Off /\ cut = Off /\ iMishaps = Off

SessionOff ==
  /\ cfg = Off /\ file = Off /\ unsynced = Off /\ form = Off /\ guard = Off
  /\ sPlay = Off /\ editor = Off /\ alive = Off /\ panel = Off /\ mods = Off
  /\ sUpdate = Off /\ sMishaps = Off

WindowOff ==
  /\ open = Off /\ step = Off /\ task = Off /\ ready = Off /\ locked = Off
  /\ searched = Off /\ retry = Off /\ setup = Off /\ tes3mp = Off
  /\ orphans = Off /\ generation = Off /\ downloading = Off /\ outcome = Off
  /\ runs = Off

FilesInit ==
  /\ Init
  /\ \/ part = "mods" /\ InstallOff /\ SessionOff /\ WindowOff
     \/ /\ published = a
        /\ \/ part = "install" /\ I!Init /\ SessionOff /\ WindowOff
           \/ part = "session" /\ S!Init /\ InstallOff /\ WindowOff
           \/ part = "window" /\ W!Init /\ InstallOff /\ SessionOff

FilesNext ==
  /\ UNCHANGED part
  /\ \/ part = "mods" /\ Next
          /\ UNCHANGED <<installVars, sessionVars, windowVars>>
     \/ part = "install" /\ I!Next
          /\ UNCHANGED <<vars, sessionVars, windowVars>>
     \/ part = "session" /\ S!Next
          /\ UNCHANGED <<vars, installVars, windowVars>>
     \/ part = "window" /\ W!Next
          /\ UNCHANGED <<vars, installVars, sessionVars>>

FilesSpec == FilesInit /\ [][FilesNext]_filesVars

-----------------------------------------------------------------------------
(* ClientInstall: no failure or crash leaves the client without a complete *)
(* TES3MP or language pack it once had, and what Inspect calls installed   *)
(* is complete (tes3mp/swap.go, locale.go).                                *)
KeptComplete ==
  part = "install" => I!TypeOK /\ I!NeverWithout /\ I!MarkedIsWhole

(* ClientSession: one game at most runs, its slot is never lost, and       *)
(* config.json is what the client runs with (session.go, launch.go).       *)
SessionIsTrue ==
  part = "session" =>
    S!TypeOK /\ S!OneInstance /\ S!SlotComesBack /\ S!FileIsConfig

(* ClientSession: no game starts silently with an older pack than the      *)
(* panel had when Play was clicked (ui/launch.go).                         *)
PlaysTheNewestPack == part = "session" => S!PlaysTheNewestPack

(* ClientWindow: what runs behind the window and what it shows belong      *)
(* together: a task answers the step it was started from, and the fonts    *)
(* row follows the run of its generation (wizard.go, font_download.go).   *)
WindowIsTrue ==
  part = "window" => W!TypeOK /\ W!AnswersItsStep /\ W!RowFollowsItsRun
=============================================================================
