--------------------------- MODULE ClientInstall ----------------------------
(***************************************************************************)
(* How the client installs a directory it owns: TES3MP itself             *)
(* (tes3mp.Install) and the game language (locale.Install).  Both download *)
(* a pinned archive into the cache, assemble the new directory beside the  *)
(* old one, write the marker inside it, and swap the two by renames:       *)
(* dir -> dir.old, staging -> dir, remove dir.old.  The marker travels     *)
(* with the directory, so no separate file says what is installed.         *)
(*                                                                         *)
(* They differ in the staging directory (fresh for TES3MP, one fixed name  *)
(* for a language), in who verifies the archive, and in the voice archive, *)
(* whose failure is a warning.  Two TES3MP installs may run at once: the   *)
(* wizard's and the one of the Installation row, whose dialog can be       *)
(* closed and opened again.  The language dialog stays open while it       *)
(* works, and removal runs on the UI thread, so a language has one writer. *)
(*                                                                         *)
(* A directory is abstracted to what it was built of, whether all of it is *)
(* there, and what its marker says; an archive to the pinned one, another  *)
(* one that unpacks as well, and junk that does not.                       *)
(***************************************************************************)
EXTENDS Naturals, FiniteSets

CONSTANTS
  Installers,   \* the places of the UI that start a TES3MP install
  Attempts,     \* Options.Attempts
  MaxMishaps    \* bound: crashes, and operations that fail on the disk

Goals(k) == IF k = "tes3mp" THEN {"v1", "v2"} ELSE {"text", "voiced"}
AllGoals == Goals("tes3mp") \cup Goals("locale")

Trees  == [of : AllGoals, whole : BOOLEAN, mark : AllGoals \cup {"none"}]
NoTree == [of |-> "none", whole |-> FALSE, mark |-> "none"]

VARIABLES
  kind,         \* what is installed: "tes3mp" or "locale"
  pinned,       \* the TES3MP release this client binary asks for
  served,       \* what the host has under the pinned URL
  dir, old,     \* the installed directory and dir.old
  staging,      \* staging[i]: the directory installer i assembles
  cache,        \* the archive in the cache directory
  pc,           \* pc[i]: where installer i stands
  want,         \* want[i]: what it installs
  tries,        \* tries[i]: download attempts left
  hasOld,       \* hasOld[i]: swapInstallation moved a directory aside
  result,       \* result[i]: how its last install ended
  removing,     \* where locale.Remove stands
  had,          \* history: something was installed and not removed since
  overlapped,   \* history: two installs ran at once
  cut,          \* history: a removal did not run to its end
  mishaps       \* crashes and failed operations so far

disks == <<dir, old, staging, cache>>
local == <<pc, want, tries, hasOld, result>>
past  == <<had, overlapped, cut>>
vars  == <<kind, pinned, served, disks, local, removing, past, mishaps>>

Steps == {"idle", "clear", "check", "download", "verify", "stage", "build",
          "mark", "look", "dropStale", "aside", "activate", "restore",
          "cleanup", "inspect"}

Fixed == UNCHANGED <<kind, pinned, served>>
Running == {i \in Installers : pc[i] # "idle"}
Quiet   == Running = {} /\ removing = "no"

(* One language is installed at a time, from one dialog.                   *)
Slot(i) == IF kind = "locale" THEN CHOOSE s \in Installers : TRUE ELSE i

Mishap   == mishaps < MaxMishaps /\ mishaps' = mishaps + 1
NoMishap == UNCHANGED mishaps

Goto(i, step) == pc' = [pc EXCEPT ![i] = step]
Answer(i, r) == Goto(i, "idle") /\ result' = [result EXCEPT ![i] = r]

(* An error: the deferred RemoveAll drops the staging directory.           *)
Fail(i) ==
  /\ Answer(i, "error")
  /\ staging' = [staging EXCEPT ![Slot(i)] = NoTree]

(* Inspect: installed and current.  A directory that is damaged but marked *)
(* is taken for what its marker says.                                      *)
Current(i) == dir.mark = want'[i]

(* RemoveAll: entry by entry; the marker goes at some point.               *)
Torn(tree) ==
  {[tree EXCEPT !.whole = FALSE, !.mark = m] : m \in {tree.mark, "none"}}

-----------------------------------------------------------------------------
Init ==
  /\ kind \in {"tes3mp", "locale"}
  /\ pinned = "v1"
  /\ dir = NoTree /\ old = NoTree
  /\ staging = [i \in Installers |-> NoTree]
  /\ served \in {"good", "other"}
  /\ cache \in {"absent", "other", "junk"}
  /\ pc = [i \in Installers |-> "idle"]
  /\ want = [i \in Installers |-> "none"]
  /\ tries = [i \in Installers |-> 0]
  /\ hasOld = [i \in Installers |-> FALSE]
  /\ result = [i \in Installers |-> "none"]
  /\ removing = "no"
  /\ had = FALSE /\ overlapped = FALSE /\ cut = FALSE
  /\ mishaps = 0

(* Install asks Inspect first and skips what is current.                   *)
Begin(i) ==
  /\ pc[i] = "idle" /\ removing = "no"
  /\ kind = "locale" => Quiet
  /\ \E g \in (IF kind = "tes3mp" THEN {pinned} ELSE Goals(kind)) :
       want' = [want EXCEPT ![i] = g]
  /\ IF Current(i)
     THEN Answer(i, "skipped")
     ELSE /\ Goto(i, IF kind = "locale" THEN "clear" ELSE "check")
          /\ result' = [result EXCEPT ![i] = "none"]
  /\ overlapped' = (overlapped \/ Running # {})
  /\ NoMishap /\ Fixed
  /\ UNCHANGED <<disks, tries, hasOld, removing, had, cut>>

Quietly(i) == /\ Fixed /\ UNCHANGED <<want, removing, past>>

(* locale.Install removes its fixed staging directory before it downloads. *)
ClearStaging(i) ==
  /\ pc[i] = "clear"
  /\ staging' = [staging EXCEPT ![Slot(i)] = NoTree]
  /\ \/ Goto(i, "check") /\ UNCHANGED result /\ NoMishap
     \/ Answer(i, "error") /\ Mishap
  /\ Quietly(i) /\ UNCHANGED <<dir, old, cache, tries, hasOld>>

(* A cached archive with the right digest is used, another one is removed. *)
CheckCache(i) ==
  /\ pc[i] = "check"
  /\ tries' = [tries EXCEPT ![i] = Attempts]
  /\ \/ /\ Goto(i, IF cache # "good" THEN "download"
                   ELSE IF kind = "locale" THEN "build" ELSE "verify")
        /\ cache' = IF cache = "good" THEN "good" ELSE "absent"
        /\ UNCHANGED <<result, staging>> /\ NoMishap
     \/ cache \notin {"absent", "good"} /\ Fail(i) /\ Mishap /\ UNCHANGED cache
  /\ Quietly(i) /\ UNCHANGED <<dir, old, hasOld>>

(* What an attempt that succeeds leaves in the cache.  download.Fetch      *)
(* hashes what it receives and keeps nothing else; tes3mp verifies only    *)
(* afterwards, and two of its downloads share one .part file.              *)
ArrivesVerified   == {served} \ {"other"}
ArrivesUnverified == {served, "junk"}

Receive(i) ==
  /\ cache' \in IF kind = "locale" THEN ArrivesVerified ELSE ArrivesUnverified
  /\ Goto(i, IF kind = "locale" THEN "build" ELSE "verify")
  /\ UNCHANGED <<tries, result, staging>>

(* A network error or a 5xx, for TES3MP a 408 or 429 too, is tried again.  *)
Retry(i) ==
  /\ tries[i] > 1
  /\ tries' = [tries EXCEPT ![i] = @ - 1]
  /\ UNCHANGED <<pc, result, staging, cache>>

(* One attempt.  Anything else, the last attempt and a cancelled request   *)
(* end the install, and the cache stays as it is.                          *)
Download(i) ==
  /\ pc[i] = "download"
  /\ \/ Receive(i)
     \/ Retry(i)
     \/ Fail(i) /\ UNCHANGED <<tries, cache>>
  /\ NoMishap
  /\ Quietly(i) /\ UNCHANGED <<dir, old, hasOld>>

(* A wrong archive stays in the cache until the next install removes it.   *)
Verify(i) ==
  /\ pc[i] = "verify"
  /\ IF cache = "good"
     THEN Goto(i, "stage") /\ UNCHANGED <<result, staging>>
     ELSE Fail(i)
  /\ NoMishap
  /\ Quietly(i) /\ UNCHANGED <<dir, old, cache, tries, hasOld>>

(* os.MkdirTemp: what an earlier crash left behind is never looked at.     *)
MakeStaging(i) ==
  /\ pc[i] = "stage"
  /\ \/ Goto(i, "build") /\ UNCHANGED result /\ NoMishap
     \/ Answer(i, "error") /\ Mishap
  /\ UNCHANGED staging
  /\ Quietly(i) /\ UNCHANGED <<dir, old, cache, tries, hasOld>>

(* Extract, and check that the executable or some Data Files are there.  A *)
(* voice archive that cannot be had leaves the text alone.                 *)
Build(i) ==
  /\ pc[i] = "build"
  /\ \/ /\ cache \in {"good", "other"}
        /\ \E g \in {want[i]} \cup (IF kind = "locale" THEN {"text"} ELSE {}) :
             staging' = [staging EXCEPT ![Slot(i)] =
                           [of |-> g, whole |-> cache = "good", mark |-> "none"]]
        /\ Goto(i, "mark") /\ UNCHANGED result
     \/ Fail(i)
  /\ NoMishap
  /\ Quietly(i) /\ UNCHANGED <<dir, old, cache, tries, hasOld>>

(* Mutant of Mark: the marker names what was asked for, with or without    *)
(* the voice archive.                                                      *)
MarkAsAsked(i) ==
  /\ pc[i] = "mark"
  /\ \/ /\ staging' = [staging EXCEPT ![Slot(i)].mark = want[i]]
        /\ Goto(i, "look") /\ UNCHANGED result /\ NoMishap
     \/ Fail(i) /\ Mishap
  /\ Quietly(i) /\ UNCHANGED <<dir, old, cache, tries, hasOld>>

(* The marker says what was unpacked.                                      *)
Mark(i) ==
  /\ pc[i] = "mark"
  /\ \/ /\ staging' = [staging EXCEPT ![Slot(i)].mark = staging[Slot(i)].of]
        /\ Goto(i, "look") /\ UNCHANGED result /\ NoMishap
     \/ Fail(i) /\ Mishap
  /\ Quietly(i) /\ UNCHANGED <<dir, old, cache, tries, hasOld>>

-----------------------------------------------------------------------------
(* swapInstallation                                                        *)

(* A directory a crash left aside is put back before anything else.        *)
Look(i) ==
  /\ pc[i] = "look"
  /\ LET back == dir = NoTree /\ old # NoTree IN
     \/ /\ dir' = IF back THEN old ELSE dir
        /\ old' = IF back THEN NoTree ELSE old
        /\ hasOld' = [hasOld EXCEPT ![i] = dir' # NoTree]
        /\ Goto(i, IF dir' # NoTree THEN "dropStale" ELSE "activate")
        /\ UNCHANGED <<result, staging>> /\ NoMishap
     \/ back /\ Fail(i) /\ Mishap /\ UNCHANGED <<dir, old, hasOld>>
  /\ Quietly(i) /\ UNCHANGED <<cache, tries>>

(* RemoveAll(dir.old), a step at a time.                                   *)
RemovesOld(i, next) ==
  \/ old # NoTree /\ old.whole /\ old' \in Torn(old) /\ UNCHANGED pc
  \/ ~old.whole /\ old' = NoTree /\ Goto(i, next)

DropStale(i) ==
  /\ pc[i] = "dropStale"
  /\ \/ RemovesOld(i, "aside") /\ UNCHANGED <<result, staging>> /\ NoMishap
     \/ Fail(i) /\ Mishap /\ UNCHANGED old
  /\ Quietly(i) /\ UNCHANGED <<dir, cache, tries, hasOld>>

(* A rename fails when its source is gone or its target has entries.       *)
Aside(i) ==
  /\ pc[i] = "aside"
  /\ \/ /\ dir # NoTree /\ old = NoTree
        /\ dir' = NoTree /\ old' = dir
        /\ Goto(i, "activate") /\ UNCHANGED <<result, staging>> /\ NoMishap
     \/ /\ ((dir = NoTree \/ old # NoTree) /\ NoMishap) \/ Mishap
        /\ Fail(i) /\ UNCHANGED <<dir, old>>
  /\ Quietly(i) /\ UNCHANGED <<cache, tries, hasOld>>

Activate(i) ==
  /\ pc[i] = "activate"
  /\ \/ /\ dir = NoTree /\ staging[Slot(i)] # NoTree
        /\ dir' = staging[Slot(i)]
        /\ staging' = [staging EXCEPT ![Slot(i)] = NoTree]
        /\ Goto(i, IF hasOld[i] THEN "cleanup" ELSE "inspect")
        /\ had' = TRUE /\ UNCHANGED result /\ NoMishap
     \/ /\ (dir # NoTree /\ NoMishap) \/ Mishap
        /\ IF hasOld[i] THEN Goto(i, "restore") /\ UNCHANGED <<result, staging>>
           ELSE Fail(i)
        /\ UNCHANGED <<dir, had>>
  /\ Fixed
  /\ UNCHANGED <<old, cache, want, tries, hasOld, removing, overlapped, cut>>

(* The rename back may fail as well; both errors are returned.             *)
Restore(i) ==
  /\ pc[i] = "restore"
  /\ \/ /\ dir = NoTree /\ old # NoTree
        /\ dir' = old /\ old' = NoTree /\ NoMishap
     \/ /\ ((dir # NoTree \/ old = NoTree) /\ NoMishap) \/ Mishap
        /\ UNCHANGED <<dir, old>>
  /\ Fail(i)
  /\ Quietly(i) /\ UNCHANGED <<cache, tries, hasOld>>

(* An old copy that cannot be removed is a warning.                        *)
Cleanup(i) ==
  /\ pc[i] = "cleanup"
  /\ \/ RemovesOld(i, "inspect") /\ NoMishap
     \/ Goto(i, "inspect") /\ Mishap /\ UNCHANGED old
  /\ Quietly(i) /\ UNCHANGED <<dir, staging, cache, tries, hasOld, result>>

(* Install looks at what it has put there before it reports success.       *)
InspectInstalled(i) ==
  /\ pc[i] = "inspect"
  /\ Answer(i, IF dir.mark # "none" /\ (kind = "tes3mp" => dir.mark = want[i])
               THEN "ok" ELSE "error")
  /\ NoMishap
  /\ Quietly(i) /\ UNCHANGED <<disks, tries, hasOld>>

-----------------------------------------------------------------------------
(* locale.Remove: dir, dir.old, dir.staging; the first error ends it.      *)
BeginRemove ==
  /\ kind = "locale" /\ Quiet /\ dir.mark # "none"
  /\ removing' = "dir"
  /\ NoMishap /\ Fixed /\ UNCHANGED <<disks, local, past>>

RemoveDir ==
  /\ removing = "dir"
  /\ \/ dir.whole /\ dir' \in Torn(dir) /\ UNCHANGED <<removing, had>>
     \/ ~dir.whole /\ dir' = NoTree /\ removing' = "rest" /\ had' = FALSE
  /\ NoMishap /\ Fixed
  /\ UNCHANGED <<old, staging, cache, local, overlapped, cut>>

RemoveRest ==
  /\ removing = "rest"
  /\ old' = NoTree
  /\ staging' = [i \in Installers |-> NoTree]
  /\ removing' = "no"
  /\ NoMishap /\ Fixed /\ UNCHANGED <<dir, cache, local, past>>

RemoveFails ==
  /\ removing # "no"
  /\ Mishap
  /\ removing' = "no" /\ cut' = TRUE
  /\ Fixed /\ UNCHANGED <<disks, local, had, overlapped>>

-----------------------------------------------------------------------------
(* The client dies.  The next one knows the disk alone; it may be newer.   *)
Crash ==
  /\ ~Quiet
  /\ Mishap
  /\ pc' = [i \in Installers |-> "idle"]
  /\ result' = [i \in Installers |-> "none"]
  /\ removing' = "no" /\ cut' = (cut \/ removing # "no")
  /\ staging' = IF kind = "locale" THEN staging ELSE [i \in Installers |-> NoTree]
  /\ Fixed /\ UNCHANGED <<dir, old, cache, want, tries, hasOld, had, overlapped>>

Upgrade ==
  /\ kind = "tes3mp" /\ Quiet
  /\ pinned = "v1" /\ pinned' = "v2"
  /\ NoMishap /\ UNCHANGED <<kind, served, disks, local, removing, past>>

Step(i) ==
  \/ ClearStaging(i) \/ CheckCache(i) \/ Download(i) \/ Verify(i)
  \/ MakeStaging(i) \/ Build(i) \/ Mark(i) \/ Look(i) \/ DropStale(i)
  \/ Aside(i) \/ Activate(i) \/ Restore(i) \/ Cleanup(i) \/ InspectInstalled(i)

Remove == BeginRemove \/ RemoveDir \/ RemoveRest \/ RemoveFails

Next ==
  \/ \E i \in Installers : Begin(i) \/ Step(i)
  \/ Remove \/ Crash \/ Upgrade

Spec == Init /\ [][Next]_vars

-----------------------------------------------------------------------------
TypeOK ==
  /\ kind \in {"tes3mp", "locale"}
  /\ pinned \in Goals("tes3mp")
  /\ {dir, old} \subseteq Trees \cup {NoTree}
  /\ staging \in [Installers -> Trees \cup {NoTree}]
  /\ served \in {"good", "other"}
  /\ cache \in {"absent", "good", "other", "junk"}
  /\ pc \in [Installers -> Steps]
  /\ want \in [Installers -> AllGoals \cup {"none"}]
  /\ tries \in [Installers -> 0..Attempts]
  /\ hasOld \in [Installers -> BOOLEAN]
  /\ result \in [Installers -> {"none", "ok", "skipped", "error"}]
  /\ removing \in {"no", "dir", "rest"}
  /\ {had, overlapped, cut} \subseteq BOOLEAN
  /\ mishaps \in 0..MaxMishaps

Whole(tree) == tree.whole /\ tree.mark = tree.of

(* What the client has, or will have once the next install has put back    *)
(* what a crash left aside.                                                *)
Effective == IF dir # NoTree THEN dir ELSE old

(* Once something is installed there is always a complete copy of it, in   *)
(* place or where recovery looks, through failures and crashes; and when   *)
(* two installs race without any, they end with one in place.              *)
NeverWithout ==
  had /\ removing = "no" /\ ~cut /\ (~overlapped \/ (Running = {} /\ mishaps = 0))
    => Whole(Effective)

(* What Inspect calls installed is complete and is what its marker says,   *)
(* so an install that is skipped was not needed.  A removal cut short is   *)
(* the exception: it may leave the marker in a half-removed directory.     *)
MarkedIsWhole ==
  dir.mark # "none" /\ removing = "no" /\ ~cut /\ (~overlapped \/ mishaps = 0)
    => Whole(dir)
=============================================================================
