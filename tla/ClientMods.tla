----------------------------- MODULE ClientMods -----------------------------
(***************************************************************************)
(* The client's copy of the server's mod package: mods.Install, one step   *)
(* per file operation, for one server profile.                             *)
(*                                                                         *)
(* Data Files (a directory) and openmw.cfg (a file) are assembled under    *)
(* .staging, the versions in use are renamed to *.old, the new ones take   *)
(* their place, and .mods-sha256 is written last.  An install begins with  *)
(* what an earlier one that died left behind.  The SHA of a package stands *)
(* for the package.                                                        *)
(*                                                                         *)
(* Nothing serialises two installs: "Play" and "Update mods" each start    *)
(* theirs in a goroutine of its own.                                       *)
(***************************************************************************)
EXTENDS Naturals

CONSTANTS
  Packs,          \* the packages the server may offer
  Installers,     \* the goroutines that may call Install
  MaxPublishes,   \* bound: how often the server changes its package
  MaxMishaps      \* bound: crashes and failed file operations of the swap

ASSUME ClientAssumption ==
  /\ MaxPublishes \in Nat
  /\ MaxMishaps \in Nat
  /\ {"absent", "damaged", "none"} \cap Packs = {}

VARIABLES
  published,      \* what GET /api/v1/mods/current names
  publishes,      \* changes of published so far
  disk,           \* disk[place]
  digest,         \* .mods-sha256
  mishaps,        \* crashes and failures so far
  installed,      \* has an install ever succeeded?
  pc, want,       \* per install: where it stands, the SHA it was told
  moved, active,  \* per install: movedDF, movedProfile; activeDF, activeProf
  found,          \* per install: the targets after recovery
  result          \* per install: what the last one reported

local == <<pc, want, moved, active, found, result>>
vars  == <<published, publishes, disk, digest, mishaps, installed, local>>

-----------------------------------------------------------------------------
Targets == {"dataFiles", "profile"}

(* Where a target is in use, set aside and assembled.                      *)
Old(t) == IF t = "dataFiles" THEN "dataFiles.old" ELSE "profile.old"
New(t) == IF t = "dataFiles" THEN "new dataFiles" ELSE "new profile"

Places == Targets \cup {Old(t) : t \in Targets} \cup {New(t) : t \in Targets}

(* A directory whose RemoveAll has begun is damaged.                       *)
Contents == Packs \cup {"absent", "damaged"}

Present(place) == disk[place] # "absent"

RecoverSteps  == {"recoverDF", "recoverProfile"}
MoveSteps     == {"moveDF", "moveProfile"}
ActivateSteps == {"activateDF", "activateProfile"}
DropSteps     == {"dropOldDF", "dropOldProfile"}
RemoveSteps   == {"removeDF", "removeProfile"}
RestoreSteps  == {"restoreDF", "restoreProfile"}

Steps == RecoverSteps \cup MoveSteps \cup ActivateSteps \cup DropSteps
           \cup RemoveSteps \cup RestoreSteps
           \cup {"idle", "clearStaging", "fetch", "download", "build",
                 "writeDigest", "clearOk", "clearError"}

Target(step) ==
  IF step \in {"recoverDF", "moveDF", "activateDF", "dropOldDF", "removeDF",
               "restoreDF"}
  THEN "dataFiles" ELSE "profile"

(* Install, swapInstallation and its rollback, in their order.             *)
Following(step) ==
  CASE step = "recoverDF"       -> "recoverProfile"
    [] step = "recoverProfile"  -> "clearStaging"
    [] step = "clearStaging"    -> "fetch"
    [] step = "moveDF"          -> "moveProfile"
    [] step = "moveProfile"     -> "activateDF"
    [] step = "activateDF"      -> "activateProfile"
    [] step = "activateProfile" -> "writeDigest"
    [] step = "writeDigest"     -> "dropOldDF"
    [] step = "dropOldDF"       -> "dropOldProfile"
    [] step = "dropOldProfile"  -> "clearOk"
    [] step = "removeProfile"   -> "restoreProfile"
    [] step = "restoreProfile"  -> "removeDF"
    [] step = "removeDF"        -> "restoreDF"
    [] step = "restoreDF"       -> "clearError"

Goto(i, step) == pc' = [pc EXCEPT ![i] = step]
Continue(i)   == Goto(i, Following(pc[i]))

Mishap   == mishaps < MaxMishaps /\ mishaps' = mishaps + 1
NoMishap == UNCHANGED mishaps
Server   == UNCHANGED <<published, publishes, installed>>

(* os.Rename replaces a file, but not a directory that has entries.        *)
CanRename(from, to) ==
  /\ Present(from)
  /\ to \in {"dataFiles", "dataFiles.old"} => ~Present(to)

Rename(from, to) == disk' = [disk EXCEPT ![to] = disk[from], ![from] = "absent"]

(* removeOwnedTree: a directory goes entry by entry, a file at once.       *)
Directories == {"dataFiles", "dataFiles.old", "new dataFiles"}

Tear(place) ==
  /\ place \in Directories
  /\ disk[place] \in Packs
  /\ disk' = [disk EXCEPT ![place] = "damaged"]

Erase(place) ==
  /\ place \in Directories => disk[place] \notin Packs
  /\ disk' = [disk EXCEPT ![place] = "absent"]

-----------------------------------------------------------------------------
Init ==
  /\ published \in Packs
  /\ publishes = 0
  /\ disk = [place \in Places |-> "absent"]
  /\ digest = "none"
  /\ mishaps = 0
  /\ installed = FALSE
  /\ pc = [i \in Installers |-> "idle"]
  /\ want = [i \in Installers |-> "none"]
  /\ moved = [i \in Installers |-> {}]
  /\ active = [i \in Installers |-> {}]
  /\ found = [i \in Installers |-> [t \in Targets |-> "absent"]]
  /\ result = [i \in Installers |-> "none"]

(* The server deploys another package, or has none for a while.            *)
Publish ==
  /\ publishes < MaxPublishes
  /\ published' \in (Packs \cup {"none"}) \ {published}
  /\ publishes' = publishes + 1
  /\ UNCHANGED <<disk, digest, mishaps, installed, local>>

Begin(i) ==
  /\ pc[i] = "idle"
  /\ Goto(i, "recoverDF")
  /\ result' = [result EXCEPT ![i] = "none"]
  /\ moved' = [moved EXCEPT ![i] = {}]
  /\ active' = [active EXCEPT ![i] = {}]
  /\ found' = [found EXCEPT ![i] = [t \in Targets |-> disk[t]]]
  /\ UNCHANGED <<disk, digest, want>> /\ NoMishap /\ Server

(* An error before the staging directory exists is returned as it is.      *)
ReturnError(i) ==
  /\ Goto(i, "idle")
  /\ result' = [result EXCEPT ![i] = "error"]

(* Mutant of Recover: the copy set aside is dropped whatever it is for.    *)
RecoverDrops(i) ==
  /\ pc[i] \in RecoverSteps
  /\ LET t == Target(pc[i]) IN
     \/ Tear(Old(t)) /\ UNCHANGED <<pc, found, result>> /\ NoMishap
     \/ /\ Erase(Old(t))
        /\ found' = [found EXCEPT ![i][t] = disk[t]]
        /\ Continue(i) /\ UNCHANGED result /\ NoMishap
  /\ UNCHANGED <<digest, want, moved, active>> /\ Server

(* recoverTarget: a copy set aside goes back where nothing took its place, *)
(* and is removed where something did.                                     *)
Recover(i) ==
  /\ pc[i] \in RecoverSteps
  /\ LET t == Target(pc[i]) IN
     \/ /\ ~Present(t) /\ Present(Old(t))
        /\ Rename(Old(t), t)
        /\ found' = [found EXCEPT ![i][t] = disk[Old(t)]]
        /\ Continue(i) /\ UNCHANGED result /\ NoMishap
     \/ /\ Present(t) /\ Tear(Old(t))
        /\ UNCHANGED <<pc, found, result>> /\ NoMishap
     \/ /\ Present(t) \/ ~Present(Old(t))
        /\ Erase(Old(t))
        /\ found' = [found EXCEPT ![i][t] = disk[t]]
        /\ Continue(i) /\ UNCHANGED result /\ NoMishap
     \/ ReturnError(i) /\ Mishap /\ UNCHANGED <<disk, found>>
  /\ UNCHANGED <<digest, want, moved, active>> /\ Server

ClearStaging(i) ==
  /\ pc[i] = "clearStaging"
  /\ \/ Tear("new dataFiles") /\ UNCHANGED <<pc, result>> /\ NoMishap
     \/ /\ disk["new dataFiles"] \notin Packs
        /\ disk' = [disk EXCEPT !["new dataFiles"] = "absent",
                                !["new profile"] = "absent"]
        /\ Continue(i) /\ UNCHANGED result /\ NoMishap
     \/ ReturnError(i) /\ Mishap /\ UNCHANGED disk
  /\ UNCHANGED <<digest, want, moved, active, found>> /\ Server

(* GET /api/v1/mods/current, which may fail; an install whose digest and   *)
(* targets are there already is skipped.                                   *)
Fetch(i) ==
  /\ pc[i] = "fetch"
  /\ \/ /\ published \in Packs
        /\ want' = [want EXCEPT ![i] = published]
        /\ IF digest = published /\ \A t \in Targets : Present(t)
           THEN Goto(i, "idle") /\ result' = [result EXCEPT ![i] = "skipped"]
           ELSE Goto(i, "download") /\ UNCHANGED result
     \/ Goto(i, "clearError") /\ UNCHANGED <<want, result>>
  /\ UNCHANGED <<disk, digest, moved, active, found>> /\ NoMishap /\ Server

(* The archive comes from the cache, or the panel sends the package that   *)
(* is current now: another one than was announced fails the SHA check.     *)
Download(i) ==
  /\ pc[i] = "download"
  /\ Goto(i, "build") \/ Goto(i, "clearError")
  /\ UNCHANGED <<disk, digest, want, moved, active, found, result>>
  /\ NoMishap /\ Server

(* Extract, check the base files, copy the plugins, build the profile: all *)
(* of it in .staging, where "new Data Files" must not exist yet.           *)
Build(i) ==
  /\ pc[i] = "build"
  /\ \/ /\ ~Present("new dataFiles")
        /\ disk' = [disk EXCEPT !["new dataFiles"] = want[i],
                                !["new profile"] = want[i]]
        /\ Goto(i, "moveDF")
     \/ Goto(i, "clearError") /\ UNCHANGED disk
  /\ UNCHANGED <<digest, want, moved, active, found, result>>
  /\ NoMishap /\ Server

-----------------------------------------------------------------------------
(* swapInstallation                                                        *)

Move(i) ==
  /\ pc[i] \in MoveSteps
  /\ LET t == Target(pc[i]) IN
     \/ /\ ~Present(t)
        /\ Continue(i) /\ UNCHANGED <<disk, moved>> /\ NoMishap
     \/ /\ CanRename(t, Old(t))
        /\ Rename(t, Old(t))
        /\ moved' = [moved EXCEPT ![i] = @ \cup {t}]
        /\ Continue(i) /\ NoMishap
     \/ /\ Present(t)
        /\ (~CanRename(t, Old(t)) /\ NoMishap) \/ Mishap
        /\ Goto(i, "removeProfile") /\ UNCHANGED <<disk, moved>>
  /\ UNCHANGED <<digest, want, active, found, result>> /\ Server

(* Mutant of Activate: activeDF and activeProf are never set.              *)
ActivateUnrecorded(i) ==
  /\ pc[i] \in ActivateSteps
  /\ LET t == Target(pc[i]) IN
     \/ CanRename(New(t), t) /\ Rename(New(t), t) /\ Continue(i) /\ NoMishap
     \/ /\ (~CanRename(New(t), t) /\ NoMishap) \/ Mishap
        /\ Goto(i, "removeProfile") /\ UNCHANGED disk
  /\ UNCHANGED <<digest, want, moved, active, found, result>> /\ Server

Activate(i) ==
  /\ pc[i] \in ActivateSteps
  /\ LET t == Target(pc[i]) IN
     \/ /\ CanRename(New(t), t)
        /\ Rename(New(t), t)
        /\ active' = [active EXCEPT ![i] = @ \cup {t}]
        /\ Continue(i) /\ NoMishap
     \/ /\ (~CanRename(New(t), t) /\ NoMishap) \/ Mishap
        /\ Goto(i, "removeProfile") /\ UNCHANGED <<disk, active>>
  /\ UNCHANGED <<digest, want, moved, found, result>> /\ Server

(* atomicfile.WriteFile reports a failed directory sync after the rename,  *)
(* so a digest whose write "failed" may be there.                          *)
WriteDigest(i) ==
  /\ pc[i] = "writeDigest"
  /\ \/ digest' = want[i] /\ Continue(i) /\ NoMishap
     \/ digest' \in {digest, want[i]} /\ Goto(i, "removeProfile") /\ Mishap
  /\ UNCHANGED <<disk, want, moved, active, found, result>> /\ Server

(* An old copy that cannot be removed is a warning.                        *)
DropOld(i) ==
  /\ pc[i] \in DropSteps
  /\ LET t == Target(pc[i]) IN
     \/ t \notin moved[i] /\ Continue(i) /\ UNCHANGED disk /\ NoMishap
     \/ t \in moved[i] /\ Tear(Old(t)) /\ UNCHANGED pc /\ NoMishap
     \/ t \in moved[i] /\ Erase(Old(t)) /\ Continue(i) /\ NoMishap
     \/ t \in moved[i] /\ Continue(i) /\ UNCHANGED disk /\ Mishap
  /\ UNCHANGED <<digest, want, moved, active, found, result>> /\ Server

-----------------------------------------------------------------------------
(* rollback: every step is tried, whatever became of the one before.       *)

RemoveNew(i) ==
  /\ pc[i] \in RemoveSteps
  /\ LET t == Target(pc[i]) IN
     \/ t \notin active[i] /\ Continue(i) /\ UNCHANGED disk /\ NoMishap
     \/ t \in active[i] /\ Tear(t) /\ UNCHANGED pc /\ NoMishap
     \/ t \in active[i] /\ Erase(t) /\ Continue(i) /\ NoMishap
     \/ t \in active[i] /\ Continue(i) /\ UNCHANGED disk /\ Mishap
  /\ UNCHANGED <<digest, want, moved, active, found, result>> /\ Server

Restore(i) ==
  /\ pc[i] \in RestoreSteps
  /\ LET t == Target(pc[i]) IN
     \/ t \notin moved[i] /\ UNCHANGED disk /\ NoMishap
     \/ t \in moved[i] /\ CanRename(Old(t), t) /\ Rename(Old(t), t) /\ NoMishap
     \/ t \in moved[i] /\ ~CanRename(Old(t), t) /\ UNCHANGED disk /\ NoMishap
     \/ t \in moved[i] /\ UNCHANGED disk /\ Mishap
  /\ Continue(i)
  /\ UNCHANGED <<digest, want, moved, active, found, result>> /\ Server

(* The deferred removal of .staging ends every install that created it;    *)
(* its own failure is at most a warning.                                   *)
Finish(i) ==
  /\ pc[i] \in {"clearOk", "clearError"}
  /\ \/ /\ Tear("new dataFiles")
        /\ UNCHANGED <<pc, result, installed>> /\ NoMishap
     \/ /\ \/ /\ disk["new dataFiles"] \notin Packs
              /\ disk' = [disk EXCEPT !["new dataFiles"] = "absent",
                                      !["new profile"] = "absent"]
              /\ NoMishap
           \/ UNCHANGED disk /\ Mishap
        /\ Goto(i, "idle")
        /\ result' = [result EXCEPT ![i] =
                        IF pc[i] = "clearOk" THEN "ok" ELSE "error"]
        /\ installed' = (installed \/ pc[i] = "clearOk")
  /\ UNCHANGED <<published, publishes, digest, want, moved, active, found>>

-----------------------------------------------------------------------------
(* The client process dies; the next install starts from the disk alone.   *)
Crash ==
  /\ \E i \in Installers : pc[i] # "idle"
  /\ Mishap
  /\ pc' = [i \in Installers |-> "idle"]
  /\ result' = [i \in Installers |-> "none"]
  /\ UNCHANGED <<disk, digest, want, moved, active, found>> /\ Server

Step(i) ==
  \/ Begin(i) \/ Recover(i) \/ ClearStaging(i) \/ Fetch(i) \/ Download(i)
  \/ Build(i) \/ Move(i) \/ Activate(i) \/ WriteDigest(i) \/ DropOld(i)
  \/ RemoveNew(i) \/ Restore(i) \/ Finish(i)

Next == Publish \/ Crash \/ \E i \in Installers : Step(i)

Spec == Init /\ [][Next]_vars

-----------------------------------------------------------------------------
TypeOK ==
  /\ published \in Packs \cup {"none"}
  /\ publishes \in 0..MaxPublishes
  /\ disk \in [Places -> Contents]
  /\ digest \in Packs \cup {"none"}
  /\ mishaps \in 0..MaxMishaps
  /\ installed \in BOOLEAN
  /\ pc \in [Installers -> Steps]
  /\ want \in [Installers -> Packs \cup {"none"}]
  /\ moved \in [Installers -> SUBSET Targets]
  /\ active \in [Installers -> SUBSET Targets]
  /\ found \in [Installers -> [Targets -> Contents]]
  /\ result \in [Installers -> {"none", "ok", "skipped", "error"}]

Quiet == \A i \in Installers : pc[i] = "idle"

(* Recovery would leave a complete target in place.                        *)
Recoverable(t) == disk[t] \in Packs \/ (~Present(t) /\ disk[Old(t)] \in Packs)

(* Once a package is installed, no install that ends, fails or dies leaves *)
(* the profile without complete Data Files and an openmw.cfg: what is not  *)
(* in place is set aside where the next install looks for it.              *)
PlayableAgain == Quiet /\ installed => \A t \in Targets : Recoverable(t)

(* An install that reports success has put the package the panel announced *)
(* to it in place, tree, profile and digest.                               *)
InstalledAsReported ==
  \A i \in Installers :
    result[i] = "ok" =>
      digest = want[i] /\ \A t \in Targets : disk[t] = want[i]

(* "An error returns the previous files": Data Files and openmw.cfg are    *)
(* those the install found (docs/v2/03-contracts.md).                      *)
ErrorRestores ==
  \A i \in Installers :
    result[i] = "error" => \A t \in Targets : disk[t] = found[i][t]

(* "The digest is written last, so a crash never leaves a new tree marked  *)
(* as installed with an old digest" (swap.go): what Inspect would call     *)
(* installed under some SHA is the tree and the profile of that SHA.       *)
MarkedTree ==
  Quiet /\ digest # "none" /\ (\A t \in Targets : Present(t)) =>
    \A t \in Targets : disk[t] = digest

(* The same while no operation fails and the client does not die, whatever *)
(* the server publishes meanwhile.                                         *)
MarkedUnlessDisturbed == mishaps = 0 => MarkedTree

(* What an install says of itself is so: success means the announced       *)
(* package is in place, an error that the files are as they were, and the  *)
(* digest names the tree as long as nothing fails.                         *)
ReportIsTrue == InstalledAsReported /\ ErrorRestores /\ MarkedUnlessDisturbed
=============================================================================
