---------------------------- MODULE ClientProofs ----------------------------
(***************************************************************************)
(* Proofs about the client: what is installed of the mods (InstallInv), of *)
(* TES3MP and the language (KeptInv), the launch slot and the pack that is *)
(* played (SessionInv), and the window (WindowInv), each as a property of  *)
(* FilesSpec, whose behaviours are those of one of the four.               *)
(***************************************************************************)
EXTENDS MCClientFiles, FiniteSetTheorems, TLAPS

(***************************************************************************)
(* mods.Install: one install at a time, at most one crash or failed        *)
(* operation.  With two installs, or with a crash that cuts a rollback     *)
(* short, PlayableAgain does not hold.                                     *)
(***************************************************************************)
OneInstall == \E i : Installers = {i}
OneMishap  == MaxMishaps \in 0..1

Preparing   == {"clearStaging", "fetch", "download", "build", "moveDF"}
Swapping    == {"moveProfile", "activateDF", "activateProfile", "writeDigest"}
Dropping    == DropSteps \cup {"clearOk"}
RollingBack == RemoveSteps \cup RestoreSteps

Maybe == Packs \cup {"absent"}

(* A target is set aside, with its record, while the new one is assembled. *)
Aside(i, t) ==
  /\ disk[Old(t)] = found[i][t]
  /\ t \in moved[i] <=> found[i][t] # "absent"

Gone(i, t) == disk[t] = "absent" /\ Aside(i, t)
InUse(i, t) == disk[t] = want[i] /\ Aside(i, t)
Untouched(i, t) == disk[t] = found[i][t] /\ disk[Old(t)] = "absent"

(* What the rollback finds of a target, and what is left of it when the    *)
(* new one is removed.                                                     *)
Half(i, t) ==
  IF t \in moved[i]
  THEN /\ disk[Old(t)] = found[i][t] /\ found[i][t] # "absent"
       /\ t \in active[i] \/ disk[t] = "absent"
  ELSE /\ disk[Old(t)] = "absent"
       /\ IF t \in active[i] THEN found[i][t] = "absent" ELSE disk[t] = found[i][t]

Removed(i, t) ==
  IF t \in moved[i]
  THEN disk[Old(t)] = found[i][t] /\ found[i][t] # "absent" /\ disk[t] = "absent"
  ELSE disk[t] = found[i][t] /\ disk[Old(t)] = "absent"

Restored(i, t) == disk[t] = found[i][t]

DF == "dataFiles"
PF == "profile"

Intact == \A t \in Targets : Recoverable(t)

(* Before anything fails the digest names what is there.                   *)
Named(content) == content = IF digest = "none" THEN "absent" ELSE digest
Calm == mishaps = 0 => \A t \in Targets : Named(disk[t]) /\ disk[Old(t)] = "absent"

(* What holds where an install stands.                                     *)
Files(i) ==
  /\ \A t \in Targets : found[i][t] \in Maybe
  /\ disk[PF] \in Maybe /\ disk[Old(PF)] \in Maybe /\ disk[New(PF)] \in Maybe
  /\ disk[Old(DF)] \in Maybe \/ disk[DF] # "absent"

Rest(i) ==
  /\ installed => Intact
  /\ Calm
  /\ result[i] = "ok" => digest = want[i] /\ \A t \in Targets : disk[t] = want[i]
  /\ result[i] = "error" => \A t \in Targets : Restored(i, t)

Anew(i) == result[i] = "none" /\ moved[i] = {} /\ active[i] = {}

Recovering(i) ==
  /\ Anew(i) /\ (installed => Intact) /\ Calm
  /\ \A t \in Targets : Restored(i, t)

Keeps(i) ==
  /\ result[i] = "none"
  /\ installed => \A t \in Targets : found[i][t] \in Packs

CalmBefore(i) == mishaps = 0 => \A t \in Targets : Named(found[i][t])

Prepared(i) ==
  /\ Anew(i) /\ Keeps(i) /\ CalmBefore(i)
  /\ Untouched(i, DF) /\ Untouched(i, PF)

Swap(i) == Keeps(i) /\ CalmBefore(i) /\ want[i] \in Packs
Assembled(i, t) == disk[New(t)] = want[i]

InPlace(i) ==
  /\ result[i] = "none" /\ want[i] \in Packs /\ digest = want[i]
  /\ \A t \in Targets : disk[t] = want[i]

Dropped(i, t) == mishaps = 0 => disk[Old(t)] = "absent"
ToDrop(i, t)  == t \in moved[i] \/ disk[Old(t)] = "absent"

Back(i) == Keeps(i) /\ mishaps = 1

Sound(i) ==
  /\ Files(i)
  /\ pc[i] # "removeDF" => disk[DF] \in Maybe
  /\ pc[i] = "idle" => Rest(i)
  /\ pc[i] \in RecoverSteps => Recovering(i)
  /\ pc[i] = "recoverProfile" => Untouched(i, DF)
  /\ pc[i] \in Preparing => Prepared(i)
  /\ pc[i] \in {"download", "build", "moveDF"} => want[i] \in Packs
  /\ pc[i] \in Swapping => Swap(i)
  /\ pc[i] = "moveProfile" => Gone(i, DF) /\ Untouched(i, PF) /\ PF \notin moved[i]
  /\ pc[i] = "activateDF" => Gone(i, DF) /\ Gone(i, PF)
  /\ pc[i] \in {"moveProfile", "activateDF"} => active[i] = {}
  /\ pc[i] \in {"moveDF", "moveProfile", "activateDF"} => Assembled(i, DF)
  /\ pc[i] \in {"moveDF", "moveProfile", "activateDF", "activateProfile"} =>
       Assembled(i, PF)
  /\ pc[i] = "activateProfile" => InUse(i, DF) /\ Gone(i, PF) /\ active[i] = {DF}
  /\ pc[i] = "writeDigest" => InUse(i, DF) /\ InUse(i, PF) /\ active[i] = {DF, PF}
  /\ pc[i] \in Dropping => InPlace(i)
  /\ pc[i] = "dropOldDF" => ToDrop(i, DF)
  /\ pc[i] \in {"dropOldDF", "dropOldProfile"} => ToDrop(i, PF)
  /\ pc[i] \in {"dropOldProfile", "clearOk"} => Dropped(i, DF)
  /\ pc[i] = "clearOk" => Dropped(i, PF)
  /\ pc[i] \in RollingBack => Back(i)
  /\ pc[i] = "removeProfile" => Half(i, PF) /\ Half(i, DF)
  /\ pc[i] = "restoreProfile" => Removed(i, PF) /\ Half(i, DF)
  /\ pc[i] = "removeDF" => Restored(i, PF) /\ Half(i, DF)
  /\ pc[i] = "restoreDF" => Restored(i, PF) /\ Removed(i, DF)
  /\ pc[i] = "clearError" =>
       Keeps(i) /\ Calm /\ Restored(i, PF) /\ Restored(i, DF)

InstallInv == TypeOK /\ \A i \in Installers : Sound(i)

-----------------------------------------------------------------------------
(* Places and steps                                                        *)
LEMMA Disk ==
  /\ Targets = {DF, PF} /\ DF # PF /\ Old(DF) = "dataFiles.old" /\ Old(PF) = "profile.old"
  /\ New(DF) = "new dataFiles" /\ New(PF) = "new profile"
  /\ Places = {DF, PF, "dataFiles.old", "profile.old", "new dataFiles", "new profile"}
  /\ Packs \subseteq Contents /\ {"absent", "damaged"} \subseteq Contents
  /\ "absent" \notin Packs /\ "damaged" \notin Packs /\ "none" \notin Packs
BY ClientAssumption DEF Targets, Old, New, Places, Contents, DF, PF

LEMMA Distinct ==
  /\ DF \in Places /\ PF \in Places /\ Old(DF) \in Places /\ Old(PF) \in Places
  /\ New(DF) \in Places /\ New(PF) \in Places
  /\ PF \notin {DF, Old(DF), New(DF), Old(PF), New(PF)}
  /\ DF \notin {Old(DF), New(DF), Old(PF), New(PF)}
  /\ Old(DF) \notin {New(DF), Old(PF), New(PF)}
  /\ New(DF) \notin {Old(PF), New(PF)} /\ Old(PF) # New(PF)
  /\ PF \notin Directories /\ Old(PF) \notin Directories /\ New(PF) \notin Directories
  /\ DF \in Directories /\ Old(DF) \in Directories /\ New(DF) \in Directories
BY Disk DEF DF, PF, Directories

LEMMA Apart ==
  \A s, t \in Targets :
    s # Old(t) /\ (s # t => Old(s) # Old(t)) /\ s \in Places /\ Old(s) \in Places
BY Disk, Distinct

LEMMA Renamed ==
  ASSUME disk \in [Places -> Contents], NEW from \in Places, NEW to \in Places,
         from # to, Rename(from, to)
  PROVE  /\ disk'[to] = disk[from] /\ disk'[from] = "absent"
         /\ \A place \in Places : place \notin {from, to} => disk'[place] = disk[place]
BY DEF Rename

LEMMA Torn ==
  ASSUME disk \in [Places -> Contents], NEW place \in Places, Tear(place)
  PROVE  /\ disk'[place] = "damaged" /\ place \in Directories /\ disk[place] \in Packs
         /\ \A other \in Places : other # place => disk'[other] = disk[other]
BY DEF Tear

LEMMA Erased ==
  ASSUME disk \in [Places -> Contents], NEW place \in Places, Erase(place)
  PROVE  /\ disk'[place] = "absent" /\ (place \in Directories => disk[place] \notin Packs)
         /\ \A other \in Places : other # place => disk'[other] = disk[other]
BY DEF Erase

LEMMA DiskTypes ==
  ASSUME disk \in [Places -> Contents]
  PROVE  /\ \A from, to : Rename(from, to) /\ from \in Places => disk' \in [Places -> Contents]
         /\ \A place : Tear(place) \/ Erase(place) => disk' \in [Places -> Contents]
<1>1. ASSUME NEW from \in Places, NEW to, Rename(from, to)
      PROVE  disk' \in [Places -> Contents]
  BY <1>1, Disk DEF Rename
<1>2. ASSUME NEW place, Tear(place) \/ Erase(place)
      PROVE  disk' \in [Places -> Contents]
  BY <1>2, Disk DEF Tear, Erase
<1> QED
  BY <1>1, <1>2

LEMMA FollowingSteps ==
  /\ \A here \in Steps \ {"idle", "fetch", "download", "build", "clearOk", "clearError"} :
       Following(here) \in Steps
  /\ Following("recoverDF") = "recoverProfile"
  /\ Following("recoverProfile") = "clearStaging"
  /\ Following("clearStaging") = "fetch"
  /\ Following("moveDF") = "moveProfile"
  /\ Following("moveProfile") = "activateDF"
  /\ Following("activateDF") = "activateProfile"
  /\ Following("activateProfile") = "writeDigest"
  /\ Following("writeDigest") = "dropOldDF"
  /\ Following("dropOldDF") = "dropOldProfile"
  /\ Following("dropOldProfile") = "clearOk"
  /\ Following("removeProfile") = "restoreProfile"
  /\ Following("restoreProfile") = "removeDF"
  /\ Following("removeDF") = "restoreDF"
  /\ Following("restoreDF") = "clearError"
BY DEF Following, Steps, RecoverSteps, MoveSteps, ActivateSteps, DropSteps, RemoveSteps,
       RestoreSteps

LEMMA Targeted ==
  \A here : Target(here) \in Targets /\ Target(here) \in Places /\ Old(Target(here)) \in Places
              /\ New(Target(here)) \in Places
BY DEF Target, Targets, Places

LEMMA TypesStep ==
  ASSUME TypeOK, \A i \in Installers : Sound(i), [Next]_vars
  PROVE  TypeOK'
<1> USE DEF TypeOK
<1>1. CASE Publish
  BY <1>1, ClientAssumption DEF Publish, local
<1>2. CASE Crash
  BY <1>2, ClientAssumption DEF Crash, Mishap, Server, Steps
<1>3. ASSUME NEW i \in Installers, Step(i)
      PROVE  TypeOK'
  <2> USE DEF Server, NoMishap, Goto
  <2>0. Mishap => mishaps' \in 0..MaxMishaps
    BY ClientAssumption DEF Mishap
  <2>1. CASE Begin(i)
    <3>1. [t \in Targets |-> disk[t]] \in [Targets -> Contents]
      BY Disk
    <3> QED
      BY <2>1, <3>1 DEF Begin, Steps, RecoverSteps
  <2>2. CASE Recover(i)
    <3>1. disk' \in [Places -> Contents]
      BY <2>2, DiskTypes, Targeted DEF Recover
    <3>2. found' \in [Installers -> [Targets -> Contents]]
      <4>1. found' = found \/ \E t \in Targets, content \in Contents :
                                found' = [found EXCEPT ![i] = [@ EXCEPT ![t] = content]]
        BY <2>2, Targeted DEF Recover
      <4>2. CASE found' = found
        BY <4>2
      <4>3. ASSUME NEW t \in Targets, NEW content \in Contents,
                   found' = [found EXCEPT ![i] = [@ EXCEPT ![t] = content]]
            PROVE  found' \in [Installers -> [Targets -> Contents]]
        <5>1. [found[i] EXCEPT ![t] = content] \in [Targets -> Contents]
          OBVIOUS
        <5> QED
          BY <4>3, <5>1
      <4> QED
        BY <4>1, <4>2, <4>3
    <3>3. pc' \in [Installers -> Steps]
      BY <2>2, FollowingSteps DEF Recover, RecoverSteps, Continue, ReturnError, Steps
    <3> QED
      BY <2>0, <2>2, <3>1, <3>2, <3>3 DEF Recover, ReturnError
  <2>3. CASE ClearStaging(i)
    <3>1. disk' \in [Places -> Contents]
      BY <2>3, DiskTypes, Disk DEF ClearStaging
    <3>2. pc' \in [Installers -> Steps]
      <4>1. Following(pc[i]) \in Steps /\ "idle" \in Steps
        BY <2>3, FollowingSteps DEF ClearStaging, Steps
      <4> QED
        BY <2>3, <4>1 DEF ClearStaging, ReturnError, Continue
    <3>3. result' \in [Installers -> {"none", "ok", "skipped", "error"}]
      BY <2>3 DEF ClearStaging, ReturnError
    <3> QED
      BY <2>0, <2>3, <3>1, <3>2, <3>3 DEF ClearStaging
  <2>4. CASE Fetch(i) \/ Download(i)
    BY <2>4 DEF Fetch, Download, Steps
  <2>5. CASE Build(i)
    <3>1. disk' \in [Places -> Contents]
      <4>1. want[i] \in Packs
        BY <2>5 DEF Build, Sound
      <4> QED
        BY <2>5, <4>1, Disk DEF Build
    <3>2. pc' \in [Installers -> Steps]
      BY <2>5 DEF Build, Steps, MoveSteps
    <3> QED
      BY <2>5, <3>1, <3>2 DEF Build
  <2>6. CASE Move(i)
    <3>1. disk' \in [Places -> Contents]
      BY <2>6, DiskTypes, Targeted DEF Move
    <3>2. moved' \in [Installers -> SUBSET Targets]
      BY <2>6, Targeted DEF Move
    <3>3. pc' \in [Installers -> Steps]
      BY <2>6, FollowingSteps DEF Move, MoveSteps, Continue, Steps, RemoveSteps
    <3> QED
      BY <2>0, <2>6, <3>1, <3>2, <3>3 DEF Move
  <2>7. CASE Activate(i)
    <3>1. disk' \in [Places -> Contents]
      BY <2>7, DiskTypes, Targeted DEF Activate
    <3>2. active' \in [Installers -> SUBSET Targets]
      BY <2>7, Targeted DEF Activate
    <3>3. pc' \in [Installers -> Steps]
      BY <2>7, FollowingSteps DEF Activate, ActivateSteps, Continue, Steps, RemoveSteps
    <3> QED
      BY <2>0, <2>7, <3>1, <3>2, <3>3 DEF Activate
  <2>8. CASE WriteDigest(i)
    <3>1. pc' \in [Installers -> Steps]
      BY <2>8, FollowingSteps DEF WriteDigest, Continue, Steps, DropSteps, RemoveSteps
    <3>2. digest' \in {digest, want[i]}
      BY <2>8 DEF WriteDigest
    <3> QED
      BY <2>0, <2>8, <3>1, <3>2 DEF WriteDigest
  <2>9. CASE DropOld(i) \/ RemoveNew(i) \/ Restore(i)
    <3>1. disk' \in [Places -> Contents]
      BY <2>9, DiskTypes, Targeted DEF DropOld, RemoveNew, Restore
    <3>2. pc' \in [Installers -> Steps]
      BY <2>9, FollowingSteps
      DEF DropOld, RemoveNew, Restore, DropSteps, RemoveSteps, RestoreSteps, Continue, Steps
    <3> QED
      BY <2>0, <2>9, <3>1, <3>2 DEF DropOld, RemoveNew, Restore
  <2>10. CASE Finish(i)
    <3>1. disk' \in [Places -> Contents]
      <4>1. CASE Tear("new dataFiles")
        BY <4>1, DiskTypes
      <4>2. CASE disk' = [disk EXCEPT !["new dataFiles"] = "absent",
                                      !["new profile"] = "absent"]
        BY <4>2, Disk
      <4> QED
        BY <2>10, <4>1, <4>2 DEF Finish
    <3> QED
      BY <2>0, <2>10, <3>1 DEF Finish, Steps
  <2> QED
    BY <1>3, <2>1, <2>2, <2>3, <2>4, <2>5, <2>6, <2>7, <2>8, <2>9, <2>10 DEF Step
<1>4. CASE UNCHANGED vars
  BY <1>4 DEF vars, local
<1> QED
  BY <1>1, <1>2, <1>3, <1>4 DEF Next

-----------------------------------------------------------------------------
(* The steps of an install.  Where a step arrives decides what has to hold *)
(* of it there.                                                            *)
Common(i) == Files(i) /\ disk[DF] \in Maybe

LEMMA Arrival ==
  ASSUME NEW i \in Installers, Files(i)'
  PROVE  /\ Common(i)' /\ pc'[i] = "idle" /\ Rest(i)' => Sound(i)'
         /\ Common(i)' /\ pc'[i] = "recoverDF" /\ Recovering(i)' => Sound(i)'
         /\ Common(i)' /\ pc'[i] = "recoverProfile" /\ Recovering(i)' /\ Untouched(i, DF)'
              => Sound(i)'
         /\ Common(i)' /\ pc'[i] \in {"clearStaging", "fetch"} /\ Prepared(i)' => Sound(i)'
         /\ Common(i)' /\ pc'[i] \in {"download", "build"} /\ Prepared(i)'
              /\ want'[i] \in Packs => Sound(i)'
         /\ Common(i)' /\ pc'[i] = "moveDF" /\ Prepared(i)' /\ want'[i] \in Packs
              /\ Assembled(i, DF)' /\ Assembled(i, PF)' => Sound(i)'
         /\ Common(i)' /\ pc'[i] = "moveProfile" /\ Swap(i)' /\ active'[i] = {}
              /\ Gone(i, DF)' /\ Untouched(i, PF)' /\ PF \notin moved'[i]
              /\ Assembled(i, DF)' /\ Assembled(i, PF)' => Sound(i)'
         /\ Common(i)' /\ pc'[i] = "activateDF" /\ Swap(i)' /\ active'[i] = {}
              /\ Gone(i, DF)' /\ Gone(i, PF)'
              /\ Assembled(i, DF)' /\ Assembled(i, PF)' => Sound(i)'
         /\ Common(i)' /\ pc'[i] = "activateProfile" /\ Swap(i)' /\ active'[i] = {DF}
              /\ InUse(i, DF)' /\ Gone(i, PF)' /\ Assembled(i, PF)' => Sound(i)'
         /\ Common(i)' /\ pc'[i] = "writeDigest" /\ Swap(i)' /\ active'[i] = {DF, PF}
              /\ InUse(i, DF)' /\ InUse(i, PF)' => Sound(i)'
         /\ Common(i)' /\ pc'[i] = "dropOldDF" /\ InPlace(i)' /\ ToDrop(i, DF)'
              /\ ToDrop(i, PF)' => Sound(i)'
         /\ Common(i)' /\ pc'[i] = "dropOldProfile" /\ InPlace(i)' /\ Dropped(i, DF)'
              /\ ToDrop(i, PF)' => Sound(i)'
         /\ Common(i)' /\ pc'[i] = "clearOk" /\ InPlace(i)' /\ Dropped(i, DF)'
              /\ Dropped(i, PF)' => Sound(i)'
         /\ Common(i)' /\ pc'[i] = "removeProfile" /\ Back(i)' /\ Half(i, PF)'
              /\ Half(i, DF)' => Sound(i)'
         /\ Common(i)' /\ pc'[i] = "restoreProfile" /\ Back(i)' /\ Removed(i, PF)'
              /\ Half(i, DF)' => Sound(i)'
         /\ Files(i)' /\ pc'[i] = "removeDF" /\ Back(i)' /\ Restored(i, PF)'
              /\ Half(i, DF)' => Sound(i)'
         /\ Common(i)' /\ pc'[i] = "restoreDF" /\ Back(i)' /\ Restored(i, PF)'
              /\ Removed(i, DF)' => Sound(i)'
         /\ Common(i)' /\ pc'[i] = "clearError" /\ Keeps(i)' /\ Calm'
              /\ Restored(i, PF)' /\ Restored(i, DF)' => Sound(i)'
BY SMTT(60)
DEF Sound, Common, RecoverSteps, Preparing, Swapping, Dropping, DropSteps, RollingBack,
    RemoveSteps, RestoreSteps

LEMMA RecoverStep ==
  ASSUME TypeOK, NEW i \in Installers, Sound(i), Recover(i)
  PROVE  Sound(i)'
<1> USE DEF TypeOK
<1>0. UNCHANGED <<digest, want, moved, active, installed>>
  BY DEF Recover, Server
<1>1. Files(i) /\ disk[DF] \in Maybe /\ Recovering(i)
  BY DEF Recover, Sound, RecoverSteps
<1>2. PICK t \in Targets : t = Target(pc[i])
  BY Targeted
<1>3. \/ pc[i] = "recoverDF" /\ t = DF
      \/ pc[i] = "recoverProfile" /\ t = PF /\ Untouched(i, DF)
  BY <1>2 DEF Recover, Sound, RecoverSteps, Target, DF, PF
<1>4. Following("recoverDF") = "recoverProfile" /\ Following("recoverProfile") = "clearStaging"
  BY FollowingSteps
<1>5. ASSUME Common(i)', Recovering(i)', Untouched(i, t)', t = PF => Untouched(i, DF)',
             Continue(i)
      PROVE  Sound(i)'
  <2>0. Files(i)'
    BY <1>5 DEF Common
  <2>1. CASE t = DF
    <3>1. pc'[i] = "recoverProfile"
      BY <1>3, <1>4, <1>5, <2>1, Distinct DEF Continue, Goto
    <3> QED
      BY <1>5, <2>0, <2>1, <3>1, Arrival
  <2>2. CASE t = PF
    <3>1. pc'[i] = "clearStaging"
      BY <1>3, <1>4, <1>5, <2>2, Distinct DEF Continue, Goto
    <3>2. Untouched(i, DF)' /\ Untouched(i, PF)' /\ Anew(i)'
      BY <1>5, <2>2 DEF Recovering
    <3>3. Keeps(i)'
      <4>1. \A s \in Targets : disk'[s] = found'[i][s] /\ disk'[Old(s)] = "absent"
        BY <3>2, Disk DEF Untouched
      <4>2. installed' => \A s \in Targets : disk'[s] \in Packs
        BY <1>5, <4>1, Disk DEF Recovering, Intact, Recoverable, Present
      <4> QED
        BY <3>2, <4>1, <4>2 DEF Keeps, Anew
    <3>4. CalmBefore(i)'
      BY <1>5 DEF Recovering, CalmBefore, Calm, Named, Restored
    <3> QED
      BY <1>5, <2>0, <3>1, <3>2, <3>3, <3>4, Arrival DEF Prepared
  <2> QED
    BY <1>3, <2>1, <2>2
<1>6. CASE /\ ~Present(t) /\ Present(Old(t)) /\ Rename(Old(t), t)
           /\ found' = [found EXCEPT ![i][t] = disk[Old(t)]]
           /\ Continue(i) /\ UNCHANGED <<result, mishaps>>
  <2>1. /\ disk'[t] = disk[Old(t)] /\ disk'[Old(t)] = "absent"
        /\ \A place \in Places \ {t, Old(t)} : disk'[place] = disk[place]
        /\ disk[t] = "absent" /\ disk[Old(t)] # "absent"
    BY <1>6, Renamed, Apart DEF Present
  <2>2. found'[i][t] = disk[Old(t)] /\ \A s \in Targets \ {t} : found'[i][s] = found[i][s]
    BY <1>6, Disk
  <2>3. disk[Old(t)] \in Maybe
    BY <1>1, <2>1, Disk DEF Files, DF, PF
  <2>4. Common(i)'
    BY <1>1, <2>1, <2>2, <2>3, Disk, Distinct DEF Common, Files
  <2>5. \A s \in Targets : Restored(i, s)'
    BY <1>1, <2>1, <2>2, Disk, Distinct DEF Recovering, Restored
  <2>6. Anew(i)'
    BY <1>0, <1>1, <1>6 DEF Recovering, Anew
  <2>7. (installed => Intact)'
    <3>1. ASSUME NEW s \in Targets, Recoverable(s)
          PROVE  Recoverable(s)'
      BY <2>1, <3>1, Apart, Disk DEF Recoverable, Present
    <3> QED
      BY <1>0, <1>1, <3>1 DEF Recovering, Intact
  <2>8. Calm'
    BY <1>0, <1>1, <1>6, <2>1, Disk, Distinct DEF Recovering, Calm, Named
  <2>9. Untouched(i, t)' /\ (t = PF => Untouched(i, DF)')
    BY <1>3, <2>1, <2>2, Disk, Distinct DEF Untouched
  <2> QED
    BY <1>5, <1>6, <2>4, <2>5, <2>6, <2>7, <2>8, <2>9 DEF Recovering
<1>7. CASE Present(t) /\ Tear(Old(t)) /\ UNCHANGED <<pc, found, result, mishaps>>
  <2>1. /\ disk'[Old(t)] = "damaged" /\ Old(t) \in Directories /\ disk[Old(t)] \in Packs
        /\ \A place \in Places \ {Old(t)} : disk'[place] = disk[place]
        /\ disk[t] # "absent"
    BY <1>7, Torn, Disk, Distinct DEF Present
  <2>2. t = DF
    BY <2>1, Disk, Distinct
  <2>3. Common(i)'
    BY <1>1, <1>7, <2>1, <2>2, Disk, Distinct DEF Common, Files
  <2>4. \A s \in Targets : Restored(i, s)'
    BY <1>1, <1>7, <2>1, <2>2, Disk, Distinct DEF Recovering, Restored
  <2>5. Anew(i)'
    BY <1>0, <1>1, <1>7 DEF Recovering, Anew
  <2>6. (installed => Intact)'
    <3>1. ASSUME NEW s \in Targets, Recoverable(s)
          PROVE  Recoverable(s)'
      BY <2>1, <3>1, Apart, Disk DEF Recoverable, Present
    <3> QED
      BY <1>0, <1>1, <3>1 DEF Recovering, Intact
  <2>7. Calm'
    BY <1>0, <1>1, <1>7, <2>1, <2>2, Disk, Distinct DEF Recovering, Calm, Named
  <2>8. Recovering(i)' /\ Files(i)'
    BY <2>3, <2>4, <2>5, <2>6, <2>7 DEF Recovering, Common
  <2>9. pc'[i] = "recoverDF"
    BY <1>3, <1>7, <2>2, Distinct
  <2> QED
    BY <2>3, <2>8, <2>9, Arrival
<1>8. CASE /\ Present(t) \/ ~Present(Old(t))
           /\ Erase(Old(t))
           /\ found' = [found EXCEPT ![i][t] = disk[t]]
           /\ Continue(i) /\ UNCHANGED <<result, mishaps>>
  <2>1. /\ disk'[Old(t)] = "absent"
        /\ \A place \in Places \ {Old(t)} : disk'[place] = disk[place]
        /\ disk[t] # "absent" \/ disk[Old(t)] = "absent"
    BY <1>8, Erased, Disk, Distinct DEF Present
  <2>2. found'[i] = found[i]
    <3>1. found[i][t] = disk[t]
      BY <1>1 DEF Recovering, Restored
    <3>2. found'[i] = [found[i] EXCEPT ![t] = disk[t]]
      BY <1>8
    <3> QED
      BY <3>1, <3>2
  <2>4. Common(i)'
    BY <1>1, <2>1, <2>2, Disk, Distinct DEF Common, Files, Maybe
  <2>5. \A s \in Targets : Restored(i, s)'
    BY <1>1, <2>1, <2>2, Disk, Distinct DEF Recovering, Restored
  <2>6. Anew(i)'
    BY <1>0, <1>1, <1>8 DEF Recovering, Anew
  <2>7. (installed => Intact)'
    <3>1. ASSUME NEW s \in Targets, Recoverable(s)
          PROVE  Recoverable(s)'
      BY <2>1, <3>1, Apart, Disk DEF Recoverable, Present
    <3> QED
      BY <1>0, <1>1, <3>1 DEF Recovering, Intact
  <2>8. Calm'
    <3>1. mishaps' = mishaps /\ \A s \in Targets : disk'[s] = disk[s]
      BY <1>8, <2>1, Apart
    <3>2. \A s \in Targets : disk[Old(s)] = "absent" => disk'[Old(s)] = "absent"
      BY <2>1, Apart
    <3> QED
      BY <1>0, <1>1, <3>1, <3>2 DEF Recovering, Calm, Named
  <2>9. Untouched(i, t)' /\ (t = PF => Untouched(i, DF)')
    BY <1>1, <1>3, <2>1, <2>2, Disk, Distinct DEF Untouched, Recovering, Restored
  <2> QED
    BY <1>5, <1>8, <2>4, <2>5, <2>6, <2>7, <2>8, <2>9 DEF Recovering
<1>9. CASE ReturnError(i) /\ Mishap /\ UNCHANGED <<disk, found>>
  <2>1. pc'[i] = "idle" /\ result'[i] = "error" /\ mishaps' # 0
    BY <1>9, ClientAssumption DEF ReturnError, Goto, Mishap
  <2>2. Common(i)' /\ Files(i)'
    BY <1>1, <1>9 DEF Common, Files
  <2>3. Rest(i)'
    BY <1>0, <1>1, <1>9, <2>1
    DEF Rest, Recovering, Intact, Recoverable, Present, Calm, Restored
  <2> QED
    BY <2>1, <2>2, <2>3, Arrival
<1> QED
  BY <1>2, <1>6, <1>7, <1>8, <1>9 DEF Recover, NoMishap

LEMMA PreparedHolds ==
  ASSUME TypeOK, NEW i \in Installers, Prepared(i)
  PROVE  /\ \A t \in Targets : Untouched(i, t) /\ Restored(i, t)
         /\ Calm /\ (installed => Intact)
BY Disk DEF Prepared, Untouched, Restored, Calm, CalmBefore, Keeps, Intact, Recoverable

LEMMA PreparedStays ==
  ASSUME TypeOK, NEW i \in Installers, Prepared(i),
         UNCHANGED <<mishaps, digest, found, moved, active, installed, result>>,
         \A t \in Targets : disk'[t] = disk[t] /\ disk'[Old(t)] = disk[Old(t)]
  PROVE  Prepared(i)'
BY Disk DEF Prepared, Untouched, CalmBefore, Keeps, Anew, Named

LEMMA Staging ==
  ASSUME TypeOK, NEW i \in Installers, Common(i), UNCHANGED found,
         \A t \in Targets : disk'[t] = disk[t] /\ disk'[Old(t)] = disk[Old(t)],
         disk'[New(PF)] \in Maybe
  PROVE  Common(i)' /\ Files(i)'
BY Disk DEF Common, Files

LEMMA ClearStagingStep ==
  ASSUME TypeOK, NEW i \in Installers, Sound(i), ClearStaging(i)
  PROVE  Sound(i)'
<1> USE DEF TypeOK
<1>0. UNCHANGED <<digest, want, moved, active, found, installed>> /\ pc[i] = "clearStaging"
  BY DEF ClearStaging, Server
<1>1. Common(i) /\ Prepared(i)
  BY <1>0 DEF Common, Sound, Preparing
<1>2. disk[New(PF)] \in Maybe /\ "absent" \in Maybe
  BY <1>1 DEF Common, Files, Maybe
<1>3. CASE Tear("new dataFiles") /\ UNCHANGED <<pc, result>> /\ NoMishap
  <2>1. \A place \in Places \ {New(DF)} : disk'[place] = disk[place]
    BY <1>3, Torn, Disk
  <2>2. Common(i)' /\ Files(i)'
    BY <1>0, <1>1, <1>2, <2>1, Staging, Disk, Distinct
  <2>3. Prepared(i)'
    BY <1>0, <1>1, <1>3, <2>1, PreparedStays, Disk, Distinct DEF NoMishap
  <2> QED
    BY <1>0, <1>3, <2>2, <2>3, Arrival
<1>4. CASE /\ disk' = [disk EXCEPT !["new dataFiles"] = "absent", !["new profile"] = "absent"]
           /\ Continue(i) /\ UNCHANGED result /\ NoMishap
  <2>1. /\ \A place \in Places \ {New(DF), New(PF)} : disk'[place] = disk[place]
        /\ disk'[New(PF)] = "absent"
    BY <1>4, Disk
  <2>2. Common(i)' /\ Files(i)'
    BY <1>0, <1>1, <1>2, <2>1, Staging, Disk, Distinct
  <2>3. Prepared(i)'
    BY <1>0, <1>1, <1>4, <2>1, PreparedStays, Disk, Distinct DEF NoMishap
  <2>4. pc'[i] = "fetch"
    BY <1>0, <1>4, FollowingSteps DEF Continue, Goto
  <2> QED
    BY <2>2, <2>3, <2>4, Arrival
<1>5. CASE ReturnError(i) /\ Mishap /\ UNCHANGED disk
  <2>1. pc'[i] = "idle" /\ result'[i] = "error" /\ mishaps' # 0
    BY <1>5, ClientAssumption DEF ReturnError, Goto, Mishap
  <2>2. Common(i)' /\ Files(i)'
    BY <1>0, <1>1, <1>2, <1>5, Staging
  <2>3. Rest(i)'
    BY <1>0, <1>1, <1>5, <2>1, PreparedHolds
    DEF Rest, Intact, Recoverable, Present, Calm, Restored
  <2> QED
    BY <2>1, <2>2, <2>3, Arrival
<1> QED
  BY <1>3, <1>4, <1>5 DEF ClearStaging

LEMMA FetchStep ==
  ASSUME TypeOK, NEW i \in Installers, Sound(i), Fetch(i) \/ Download(i)
  PROVE  Sound(i)'
<1> USE DEF TypeOK
<1>0. UNCHANGED <<disk, digest, moved, active, found, installed, mishaps>>
  BY DEF Fetch, Download, Server, NoMishap
<1>1. /\ Common(i) /\ Prepared(i) /\ disk[New(PF)] \in Maybe
      /\ pc[i] = "fetch" \/ (pc[i] = "download" /\ want[i] \in Packs)
  BY DEF Common, Sound, Preparing, Fetch, Download, Files
<1>2. Common(i)' /\ Files(i)'
  BY <1>0, <1>1, Staging
<1>3. Calm' /\ (installed => Intact)' /\ \A t \in Targets : Restored(i, t)'
  BY <1>0, <1>1, PreparedHolds DEF Calm, Intact, Recoverable, Present, Restored, Named
<1>4. CASE pc'[i] = "clearError" /\ UNCHANGED result
  <2>1. Keeps(i)'
    BY <1>0, <1>1, <1>4 DEF Prepared, Keeps
  <2> QED
    BY <1>2, <1>3, <1>4, <2>1, Arrival, Disk
<1>5. CASE pc'[i] \in {"download", "build"} /\ want'[i] \in Packs /\ UNCHANGED result
  <2>1. Prepared(i)'
    BY <1>0, <1>1, <1>5, PreparedStays
  <2> QED
    BY <1>2, <1>5, <2>1, Arrival
<1>6. CASE pc'[i] = "idle" /\ result'[i] = "skipped"
  BY <1>2, <1>3, <1>6, Arrival DEF Rest
<1>7. \/ pc'[i] = "clearError" /\ UNCHANGED result
      \/ pc'[i] \in {"download", "build"} /\ want'[i] \in Packs /\ UNCHANGED result
      \/ pc'[i] = "idle" /\ result'[i] = "skipped"
  BY <1>1 DEF Fetch, Download, Goto
<1> QED
  BY <1>4, <1>5, <1>6, <1>7

LEMMA BuildStep ==
  ASSUME TypeOK, NEW i \in Installers, Sound(i), Build(i)
  PROVE  Sound(i)'
<1> USE DEF TypeOK
<1>0. UNCHANGED <<digest, want, moved, active, found, installed, mishaps, result>>
  BY DEF Build, Server, NoMishap
<1>1. Common(i) /\ Prepared(i) /\ disk[New(PF)] \in Maybe /\ want[i] \in Packs
  BY DEF Common, Sound, Preparing, Build, Files
<1>2. CASE /\ disk' = [disk EXCEPT !["new dataFiles"] = want[i], !["new profile"] = want[i]]
           /\ Goto(i, "moveDF")
  <2>1. /\ \A place \in Places \ {New(DF), New(PF)} : disk'[place] = disk[place]
        /\ disk'[New(PF)] = want[i] /\ disk'[New(DF)] = want[i]
    BY <1>2, Disk
  <2>2. Common(i)' /\ Files(i)'
    BY <1>0, <1>1, <2>1, Staging, Disk, Distinct DEF Maybe
  <2>3. Prepared(i)'
    BY <1>0, <1>1, <2>1, PreparedStays, Disk, Distinct
  <2>4. Assembled(i, DF)' /\ Assembled(i, PF)'
    BY <1>0, <2>1 DEF Assembled
  <2> QED
    BY <1>0, <1>1, <1>2, <2>2, <2>3, <2>4, Arrival DEF Goto
<1>3. CASE Goto(i, "clearError") /\ UNCHANGED disk
  <2>1. Common(i)' /\ Files(i)'
    BY <1>0, <1>1, <1>3, Staging
  <2>2. Calm' /\ \A t \in Targets : Restored(i, t)'
    BY <1>0, <1>1, <1>3, PreparedHolds DEF Calm, Restored, Named
  <2>3. Keeps(i)' /\ pc'[i] = "clearError"
    BY <1>0, <1>1, <1>3 DEF Prepared, Keeps, Goto
  <2> QED
    BY <2>1, <2>2, <2>3, Arrival, Disk
<1> QED
  BY <1>2, <1>3 DEF Build

(* What a failed swap finds, and that it begins a rollback.                *)
LEMMA Halves ==
  ASSUME NEW i \in Installers, NEW t \in Targets
  PROVE  /\ Untouched(i, t) /\ t \notin moved[i] /\ t \notin active[i] => Half(i, t)
         /\ Gone(i, t) /\ t \notin active[i] => Half(i, t)
         /\ InUse(i, t) /\ t \in active[i] => Half(i, t)
BY DEF Untouched, Gone, InUse, Aside, Half

LEMMA RollBack ==
  ASSUME OneMishap, TypeOK, NEW i \in Installers, Common(i), Keeps(i), Half(i, PF), Half(i, DF),
         Mishap, Goto(i, "removeProfile"),
         UNCHANGED <<disk, moved, active, found, result, installed>>
  PROVE  Sound(i)'
<1> USE DEF TypeOK
<1>1. mishaps' = 1
  BY DEF Mishap, OneMishap
<1>2. Common(i)' /\ Files(i)'
  BY DEF Common, Files
<1>3. Half(i, PF)' /\ Half(i, DF)'
  BY DEF Half
<1>4. Back(i)' /\ pc'[i] = "removeProfile"
  BY <1>1 DEF Back, Keeps, Goto
<1> QED
  BY <1>2, <1>3, <1>4, Arrival

LEMMA MoveStep ==
  ASSUME OneMishap, TypeOK, NEW i \in Installers, Sound(i), Move(i)
  PROVE  Sound(i)'
<1> USE DEF TypeOK
<1>0. UNCHANGED <<digest, want, active, found, result, installed>>
  BY DEF Move, Server
<1>1. PICK t \in Targets : t = Target(pc[i])
  BY Targeted
<1>2. /\ Common(i) /\ Swap(i) /\ result[i] = "none" /\ active[i] = {}
      /\ Assembled(i, DF) /\ Assembled(i, PF) /\ Untouched(i, t) /\ t \notin moved[i]
      /\ \/ pc[i] = "moveDF" /\ t = DF /\ Prepared(i) /\ moved[i] = {}
         \/ pc[i] = "moveProfile" /\ t = PF /\ Gone(i, DF)
  BY <1>1 DEF Move, MoveSteps, Target, DF, PF, Sound, Common, Preparing, Swapping, Prepared,
              Anew, Swap, Keeps
<1>3. Following("moveDF") = "moveProfile" /\ Following("moveProfile") = "activateDF"
  BY FollowingSteps
<1>4. ASSUME Common(i)', Gone(i, t)', Assembled(i, DF)', Assembled(i, PF)', Continue(i),
             UNCHANGED mishaps, moved'[i] \in {moved[i], moved[i] \cup {t}},
             t = PF => Gone(i, DF)', t = DF => Untouched(i, PF)'
      PROVE  Sound(i)'
  <2>1. Swap(i)' /\ active'[i] = {} /\ Files(i)'
    BY <1>0, <1>2, <1>4 DEF Swap, Keeps, CalmBefore, Named, Common
  <2>2. CASE t = DF
    BY <1>2, <1>3, <1>4, <2>1, <2>2, Arrival, Distinct DEF Continue, Goto
  <2>3. CASE t = PF
    BY <1>2, <1>3, <1>4, <2>1, <2>3, Arrival, Distinct DEF Continue, Goto
  <2> QED
    BY <1>2, <2>2, <2>3
<1>5. CASE ~Present(t) /\ Continue(i) /\ UNCHANGED <<disk, moved>> /\ NoMishap
  <2>1. Common(i)' /\ Assembled(i, DF)' /\ Assembled(i, PF)'
    BY <1>0, <1>2, <1>5 DEF Common, Files, Assembled
  <2>2. Gone(i, t)'
    BY <1>0, <1>2, <1>5 DEF Gone, Aside, Untouched, Present
  <2>3. t = PF => Gone(i, DF)'
    BY <1>0, <1>2, <1>5, Distinct DEF Gone, Aside
  <2>4. t = DF => Untouched(i, PF)'
    BY <1>0, <1>2, <1>5, Distinct DEF Prepared, Untouched
  <2> QED
    BY <1>4, <1>5, <2>1, <2>2, <2>3, <2>4 DEF NoMishap
<1>6. CASE /\ CanRename(t, Old(t)) /\ Rename(t, Old(t)) /\ Continue(i) /\ NoMishap
           /\ moved' = [moved EXCEPT ![i] = @ \cup {t}]
  <2>1. /\ disk'[Old(t)] = disk[t] /\ disk'[t] = "absent" /\ disk[t] # "absent"
        /\ \A place \in Places \ {t, Old(t)} : disk'[place] = disk[place]
    BY <1>6, Renamed, Apart DEF CanRename, Present
  <2>2. moved'[i] = moved[i] \cup {t}
    BY <1>6
  <2>3. disk[t] \in Maybe
    BY <1>2 DEF Common, Files
  <2>4. Common(i)'
    BY <1>0, <1>2, <2>1, <2>3, Disk, Distinct DEF Common, Files, Maybe
  <2>5. Assembled(i, DF)' /\ Assembled(i, PF)'
    BY <1>0, <1>2, <2>1, Distinct DEF Assembled
  <2>6. Gone(i, t)'
    BY <1>0, <1>2, <2>1, <2>2 DEF Gone, Aside, Untouched
  <2>7. t = PF => Gone(i, DF)'
    BY <1>0, <1>2, <2>1, <2>2, Distinct DEF Gone, Aside
  <2>8. t = DF => Untouched(i, PF)'
    BY <1>0, <1>2, <2>1, Distinct DEF Prepared, Untouched
  <2> QED
    BY <1>4, <1>6, <2>2, <2>4, <2>5, <2>6, <2>7, <2>8 DEF NoMishap
<1>7. CASE /\ Present(t)
           /\ (~CanRename(t, Old(t)) /\ NoMishap) \/ Mishap
           /\ Goto(i, "removeProfile") /\ UNCHANGED <<disk, moved>>
  <2>1. CanRename(t, Old(t))
    BY <1>2, <1>7, Disk DEF CanRename, Untouched, Present, DF, PF
  <2>2. Half(i, DF) /\ Half(i, PF)
    <3>1. CASE t = DF
      BY <1>2, <3>1, Halves, Disk DEF Prepared
    <3>2. CASE t = PF
      BY <1>2, <3>2, Halves, Disk
    <3> QED
      BY <1>2, <3>1, <3>2
  <2> QED
    BY <1>0, <1>2, <1>7, <2>1, <2>2, RollBack DEF Swap
<1> QED
  BY <1>1, <1>5, <1>6, <1>7 DEF Move

LEMMA ActivateStep ==
  ASSUME OneMishap, TypeOK, NEW i \in Installers, Sound(i), Activate(i)
  PROVE  Sound(i)'
<1> USE DEF TypeOK
<1>0. UNCHANGED <<digest, want, moved, found, result, installed>>
  BY DEF Activate, Server
<1>1. PICK t \in Targets : t = Target(pc[i])
  BY Targeted
<1>2. /\ Common(i) /\ Swap(i) /\ Gone(i, t) /\ Assembled(i, t) /\ Gone(i, PF)
      /\ \/ pc[i] = "activateDF" /\ t = DF /\ active[i] = {} /\ Assembled(i, PF)
         \/ pc[i] = "activateProfile" /\ t = PF /\ InUse(i, DF) /\ active[i] = {DF}
  BY <1>1 DEF Activate, ActivateSteps, Target, DF, PF, Sound, Common, Swapping
<1>3. want[i] \in Packs /\ want[i] # "absent" /\ disk[New(t)] = want[i]
  BY <1>2, Disk DEF Swap, Assembled
<1>4. CanRename(New(t), t)
  BY <1>2, <1>3 DEF CanRename, Present, Gone
<1>5. /\ Following("activateDF") = "activateProfile"
      /\ Following("activateProfile") = "writeDigest"
  BY FollowingSteps
<1>6. CASE /\ Rename(New(t), t) /\ Continue(i) /\ NoMishap
           /\ active' = [active EXCEPT ![i] = @ \cup {t}]
  <2>1. New(t) \in Places /\ t \in Places /\ New(t) # t
    BY <1>2, Distinct
  <2>2. /\ disk'[t] = want[i] /\ disk'[New(t)] = "absent"
        /\ \A place \in Places \ {t, New(t)} : disk'[place] = disk[place]
    BY <1>3, <1>6, <2>1, Renamed
  <2>3. active'[i] = active[i] \cup {t}
    BY <1>6
  <2>4. Common(i)' /\ Files(i)'
    <3>1. CASE t = DF
      BY <1>0, <1>2, <1>3, <2>2, <3>1, Disk, Distinct DEF Common, Files, Maybe
    <3>2. CASE t = PF
      BY <1>0, <1>2, <1>3, <2>2, <3>2, Disk, Distinct DEF Common, Files, Maybe
    <3> QED
      BY <1>2, <3>1, <3>2
  <2>5. Swap(i)'
    BY <1>0, <1>2, <1>6 DEF Swap, Keeps, CalmBefore, Named, NoMishap
  <2>6. InUse(i, t)'
    BY <1>0, <1>2, <2>2, Distinct DEF InUse, Gone, Aside
  <2>7. CASE t = DF
    <3>1. Gone(i, PF)' /\ Assembled(i, PF)'
      BY <1>0, <1>2, <2>2, <2>7, Distinct DEF Gone, Aside, Assembled
    <3>2. pc'[i] = "activateProfile" /\ active'[i] = {DF}
      BY <1>2, <1>5, <1>6, <2>3, <2>7, Distinct DEF Continue, Goto
    <3> QED
      BY <2>4, <2>5, <2>6, <2>7, <3>1, <3>2, Arrival
  <2>8. CASE t = PF
    <3>1. InUse(i, DF)'
      BY <1>0, <1>2, <2>2, <2>8, Distinct DEF InUse, Aside
    <3>2. pc'[i] = "writeDigest" /\ active'[i] = {DF, PF}
      BY <1>2, <1>5, <1>6, <2>3, <2>8, Distinct DEF Continue, Goto
    <3> QED
      BY <2>4, <2>5, <2>6, <2>8, <3>1, <3>2, Arrival
  <2> QED
    BY <1>2, <2>7, <2>8
<1>7. CASE Mishap /\ Goto(i, "removeProfile") /\ UNCHANGED <<disk, active>>
  <2>1. Half(i, DF) /\ Half(i, PF)
    <3>1. CASE t = DF
      BY <1>2, <3>1, Halves, Disk
    <3>2. CASE t = PF
      BY <1>2, <3>2, Halves, Disk
    <3> QED
      BY <1>2, <3>1, <3>2
  <2> QED
    BY <1>0, <1>2, <1>7, <2>1, RollBack DEF Swap
<1> QED
  BY <1>1, <1>4, <1>6, <1>7 DEF Activate

LEMMA WriteDigestStep ==
  ASSUME OneMishap, TypeOK, NEW i \in Installers, Sound(i), WriteDigest(i)
  PROVE  Sound(i)'
<1> USE DEF TypeOK
<1>0. UNCHANGED <<disk, want, moved, active, found, result, installed>>
  BY DEF WriteDigest, Server
<1>1. Common(i) /\ Swap(i) /\ InUse(i, DF) /\ InUse(i, PF) /\ active[i] = {DF, PF}
      /\ pc[i] = "writeDigest"
  BY DEF WriteDigest, Sound, Common, Swapping
<1>2. CASE digest' = want[i] /\ Continue(i) /\ NoMishap
  <2>1. pc'[i] = "dropOldDF"
    BY <1>1, <1>2, FollowingSteps DEF Continue, Goto
  <2>2. Common(i)' /\ Files(i)'
    BY <1>0, <1>1 DEF Common, Files
  <2>3. InPlace(i)'
    BY <1>0, <1>1, <1>2, Disk DEF InPlace, InUse, Swap, Keeps
  <2>4. ToDrop(i, DF)' /\ ToDrop(i, PF)'
    BY <1>0, <1>1 DEF ToDrop, InUse, Aside
  <2> QED
    BY <2>1, <2>2, <2>3, <2>4, Arrival
<1>3. CASE Goto(i, "removeProfile") /\ Mishap
  BY <1>0, <1>1, <1>3, Halves, Disk, RollBack DEF Swap
<1> QED
  BY <1>2, <1>3 DEF WriteDigest

LEMMA DropOldStep ==
  ASSUME OneMishap, TypeOK, NEW i \in Installers, Sound(i), DropOld(i)
  PROVE  Sound(i)'
<1> USE DEF TypeOK
<1>0. UNCHANGED <<digest, want, moved, active, found, result, installed>>
  BY DEF DropOld, Server
<1>1. PICK t \in Targets : t = Target(pc[i])
  BY Targeted
<1>2. /\ Common(i) /\ InPlace(i) /\ ToDrop(i, t) /\ ToDrop(i, PF)
      /\ \/ pc[i] = "dropOldDF" /\ t = DF
         \/ pc[i] = "dropOldProfile" /\ t = PF /\ Dropped(i, DF)
  BY <1>1 DEF DropOld, DropSteps, Target, DF, PF, Sound, Common, Dropping
<1>3. /\ Following("dropOldDF") = "dropOldProfile"
      /\ Following("dropOldProfile") = "clearOk"
  BY FollowingSteps
<1>4. ASSUME \A place \in Places \ {Old(t)} : disk'[place] = disk[place],
             disk'[Old(t)] \in Maybe \/ t = DF
      PROVE  Common(i)' /\ Files(i)' /\ InPlace(i)'
  <2>1. InPlace(i)'
    BY <1>0, <1>2, <1>4, Apart, Disk DEF InPlace
  <2>2. Common(i)'
    BY <1>0, <1>2, <1>4, Disk, Distinct DEF Common, Files, InPlace
  <2> QED
    BY <2>1, <2>2 DEF Common
<1>5. ASSUME \A place \in Places \ {Old(t)} : disk'[place] = disk[place],
             disk'[Old(t)] \in Maybe, mishaps' = 0 => mishaps = 0,
             Dropped(i, t)', Continue(i)
      PROVE  Sound(i)'
  <2>1. Common(i)' /\ Files(i)' /\ InPlace(i)'
    BY <1>4, <1>5
  <2>2. CASE t = DF
    <3>1. pc'[i] = "dropOldProfile"
      BY <1>2, <1>3, <1>5, <2>2, Distinct DEF Continue, Goto
    <3>2. ToDrop(i, PF)'
      BY <1>0, <1>2, <1>5, <2>2, Distinct DEF ToDrop
    <3> QED
      BY <1>5, <2>1, <2>2, <3>1, <3>2, Arrival
  <2>3. CASE t = PF
    <3>1. pc'[i] = "clearOk"
      BY <1>2, <1>3, <1>5, <2>3, Distinct DEF Continue, Goto
    <3>2. Dropped(i, DF)'
      BY <1>2, <1>5, <2>3, Distinct DEF Dropped
    <3> QED
      BY <1>5, <2>1, <2>3, <3>1, <3>2, Arrival
  <2> QED
    BY <1>2, <2>2, <2>3
<1>6. disk[Old(t)] \in Maybe \/ t = DF
  BY <1>2 DEF Common, Files
<1>7. CASE t \notin moved[i] /\ Continue(i) /\ UNCHANGED disk /\ NoMishap
  <2>1. disk[Old(t)] = "absent"
    BY <1>2, <1>7 DEF ToDrop
  <2> QED
    BY <1>5, <1>7, <2>1 DEF Dropped, Maybe, NoMishap
<1>8. CASE t \in moved[i] /\ Tear(Old(t)) /\ UNCHANGED pc /\ NoMishap
  <2>1. Old(t) \in Directories /\ \A place \in Places \ {Old(t)} : disk'[place] = disk[place]
    BY <1>8, Torn, Apart
  <2>2. t = DF
    BY <1>2, <2>1, Distinct
  <2>3. Common(i)' /\ Files(i)' /\ InPlace(i)'
    BY <1>4, <2>1, <2>2
  <2>4. ToDrop(i, DF)' /\ ToDrop(i, PF)'
    BY <1>0, <1>2, <1>8, <2>1, <2>2, Distinct DEF ToDrop
  <2> QED
    BY <1>2, <1>8, <2>2, <2>3, <2>4, Arrival, Distinct
<1>9. CASE t \in moved[i] /\ Erase(Old(t)) /\ Continue(i) /\ NoMishap
  <2>1. /\ disk'[Old(t)] = "absent"
        /\ \A place \in Places \ {Old(t)} : disk'[place] = disk[place]
    BY <1>9, Erased, Apart
  <2> QED
    BY <1>5, <1>9, <2>1 DEF Dropped, Maybe, NoMishap
<1>10. CASE t \in moved[i] /\ Continue(i) /\ UNCHANGED disk /\ Mishap
  <2>1. mishaps' # 0
    BY <1>10, ClientAssumption DEF Mishap
  <2>2. Dropped(i, t)'
    BY <2>1 DEF Dropped
  <2>3. CASE disk[Old(t)] \in Maybe
    BY <1>5, <1>10, <2>1, <2>2, <2>3
  <2>4. CASE t = DF
    <3>1. Common(i)' /\ Files(i)' /\ InPlace(i)'
      BY <1>4, <1>10, <2>4
    <3>2. pc'[i] = "dropOldProfile"
      BY <1>2, <1>3, <1>10, <2>4, Distinct DEF Continue, Goto
    <3>3. ToDrop(i, PF)'
      BY <1>0, <1>2, <1>10 DEF ToDrop
    <3> QED
      BY <2>2, <2>4, <3>1, <3>2, <3>3, Arrival
  <2> QED
    BY <1>6, <2>3, <2>4
<1> QED
  BY <1>1, <1>7, <1>8, <1>9, <1>10 DEF DropOld

(* A rollback follows the one mishap, so none of its steps fails.          *)
LEMMA RemoveNewStep ==
  ASSUME OneMishap, TypeOK, NEW i \in Installers, Sound(i), RemoveNew(i)
  PROVE  Sound(i)'
<1> USE DEF TypeOK
<1>0. UNCHANGED <<digest, want, moved, active, found, result, installed>>
  BY DEF RemoveNew, Server
<1>1. PICK t \in Targets : t = Target(pc[i])
  BY Targeted
<1>2. /\ Files(i) /\ Back(i) /\ Half(i, DF) /\ Half(i, t)
      /\ \/ pc[i] = "removeProfile" /\ t = PF /\ Common(i)
         \/ pc[i] = "removeDF" /\ t = DF /\ Restored(i, PF)
  BY <1>1 DEF RemoveNew, RemoveSteps, Target, DF, PF, Sound, Common, RollingBack
<1>3. ~Mishap
  BY <1>2 DEF Mishap, Back, OneMishap
<1>4. /\ Following("removeProfile") = "restoreProfile" /\ Following("removeDF") = "restoreDF"
  BY FollowingSteps
<1>5. ASSUME \A place \in Places \ {t} : disk'[place] = disk[place],
             disk'[t] \in Maybe, Removed(i, t)', NoMishap, Continue(i)
      PROVE  Sound(i)'
  <2>1. Back(i)'
    BY <1>0, <1>2, <1>5 DEF Back, Keeps, NoMishap
  <2>2. CASE t = DF
    <3>1. pc'[i] = "restoreDF"
      BY <1>2, <1>4, <1>5, <2>2, Distinct DEF Continue, Goto
    <3>2. Restored(i, PF)'
      BY <1>0, <1>2, <1>5, <2>2, Distinct DEF Restored
    <3>3. disk'[Old(DF)] \in Maybe
      BY <1>0, <1>2, <1>5, <2>2, Disk DEF Removed, Files, Maybe
    <3>4. Common(i)' /\ Files(i)'
      BY <1>0, <1>2, <1>5, <2>2, <3>3, Distinct DEF Common, Files
    <3> QED
      BY <1>5, <2>1, <2>2, <3>1, <3>2, <3>4, Arrival
  <2>3. CASE t = PF
    <3>1. pc'[i] = "restoreProfile"
      BY <1>2, <1>4, <1>5, <2>3, Distinct DEF Continue, Goto
    <3>2. Half(i, DF)'
      BY <1>0, <1>2, <1>5, <2>3, Distinct DEF Half
    <3>3. Common(i)' /\ Files(i)'
      BY <1>0, <1>2, <1>5, <2>3, Distinct DEF Common, Files
    <3> QED
      BY <1>5, <2>1, <2>3, <3>1, <3>2, <3>3, Arrival
  <2> QED
    BY <1>2, <2>2, <2>3
<1>6. CASE t \notin active[i] /\ Continue(i) /\ UNCHANGED disk /\ NoMishap
  <2>1. Removed(i, t)'
    BY <1>0, <1>2, <1>6 DEF Half, Removed
  <2>2. disk[t] \in Maybe
    BY <1>2, <1>6 DEF Half, Files, Maybe
  <2> QED
    BY <1>5, <1>6, <2>1, <2>2
<1>7. CASE t \in active[i] /\ Tear(t) /\ UNCHANGED pc /\ NoMishap
  <2>1. /\ disk'[t] = "damaged" /\ t \in Directories
        /\ \A place \in Places \ {t} : disk'[place] = disk[place]
    BY <1>7, Torn, Apart
  <2>2. t = DF
    BY <1>2, <2>1, Distinct
  <2>3. Files(i)'
    BY <1>0, <1>2, <2>1, <2>2, Distinct DEF Files
  <2>4. Restored(i, PF)' /\ Half(i, DF)'
    BY <1>0, <1>2, <1>7, <2>1, <2>2, Distinct DEF Restored, Half
  <2>5. Back(i)'
    BY <1>0, <1>2, <1>7 DEF Back, Keeps, NoMishap
  <2>6. pc'[i] = "removeDF"
    BY <1>2, <1>7, <2>2, Distinct
  <2> QED
    BY <2>3, <2>4, <2>5, <2>6, Arrival
<1>8. CASE t \in active[i] /\ Erase(t) /\ Continue(i) /\ NoMishap
  <2>1. /\ disk'[t] = "absent"
        /\ \A place \in Places \ {t} : disk'[place] = disk[place]
    BY <1>8, Erased, Apart
  <2>2. Removed(i, t)'
    BY <1>0, <1>2, <1>8, <2>1, Apart DEF Half, Removed
  <2> QED
    BY <1>5, <1>8, <2>1, <2>2 DEF Maybe
<1> QED
  BY <1>1, <1>3, <1>6, <1>7, <1>8 DEF RemoveNew

LEMMA RestoreStep ==
  ASSUME OneMishap, TypeOK, NEW i \in Installers, Sound(i), Restore(i)
  PROVE  Sound(i)'
<1> USE DEF TypeOK
<1>0. UNCHANGED <<digest, want, moved, active, found, result, installed>>
  BY DEF Restore, Server
<1>1. PICK t \in Targets : t = Target(pc[i])
  BY Targeted
<1>2. /\ Common(i) /\ Back(i) /\ Removed(i, t)
      /\ \/ pc[i] = "restoreProfile" /\ t = PF /\ Half(i, DF)
         \/ pc[i] = "restoreDF" /\ t = DF /\ Restored(i, PF)
  BY <1>1 DEF Restore, RestoreSteps, Target, DF, PF, Sound, Common, RollingBack
<1>3. ~Mishap
  BY <1>2 DEF Mishap, Back, OneMishap
<1>4. t \in moved[i] => CanRename(Old(t), t)
  BY <1>2 DEF Removed, CanRename, Present
<1>5. \/ t \notin moved[i] /\ UNCHANGED disk /\ NoMishap
      \/ t \in moved[i] /\ Rename(Old(t), t) /\ NoMishap
  BY <1>1, <1>3, <1>4 DEF Restore
<1>6. /\ disk'[t] = found[i][t] /\ disk'[Old(t)] = "absent"
      /\ \A place \in Places \ {t, Old(t)} : disk'[place] = disk[place]
  <2>1. CASE t \notin moved[i] /\ UNCHANGED disk
    BY <1>2, <2>1 DEF Removed
  <2>2. CASE t \in moved[i] /\ Rename(Old(t), t)
    BY <1>2, <2>2, Renamed, Apart DEF Removed
  <2> QED
    BY <1>5, <2>1, <2>2
<1>7. Following("restoreProfile") = "removeDF" /\ Following("restoreDF") = "clearError"
  BY FollowingSteps
<1>8. Restored(i, t)'
  BY <1>0, <1>6 DEF Restored
<1>9. Common(i)' /\ Files(i)'
  <2>1. found[i][t] \in Maybe
    BY <1>2 DEF Common, Files
  <2>2. CASE t = DF
    BY <1>0, <1>2, <1>6, <2>1, <2>2, Disk, Distinct DEF Common, Files, Maybe
  <2>3. CASE t = PF
    BY <1>0, <1>2, <1>6, <2>1, <2>3, Disk, Distinct DEF Common, Files, Maybe
  <2> QED
    BY <1>2, <2>2, <2>3
<1>10. Back(i)'
  BY <1>0, <1>2, <1>5 DEF Back, Keeps, NoMishap
<1>11. CASE t = DF
  <2>1. pc'[i] = "clearError"
    BY <1>2, <1>7, <1>11, Distinct DEF Restore, Continue, Goto
  <2>2. Restored(i, PF)'
    BY <1>0, <1>2, <1>6, <1>11, Distinct DEF Restored
  <2>3. Calm' /\ Keeps(i)'
    BY <1>10 DEF Back, Calm
  <2> QED
    BY <1>8, <1>9, <1>11, <2>1, <2>2, <2>3, Arrival
<1>12. CASE t = PF
  <2>1. pc'[i] = "removeDF"
    BY <1>2, <1>7, <1>12, Distinct DEF Restore, Continue, Goto
  <2>2. Half(i, DF)'
    BY <1>0, <1>2, <1>6, <1>12, Distinct DEF Half
  <2> QED
    BY <1>8, <1>9, <1>10, <1>12, <2>1, <2>2, Arrival
<1> QED
  BY <1>2, <1>11, <1>12

LEMMA FinishStep ==
  ASSUME TypeOK, NEW i \in Installers, Sound(i), Finish(i)
  PROVE  Sound(i)'
<1> USE DEF TypeOK
<1>0. UNCHANGED <<digest, want, moved, active, found>>
  BY DEF Finish
<1>1. /\ Common(i) /\ disk[New(PF)] \in Maybe /\ "absent" \in Maybe
      /\ \/ pc[i] = "clearOk" /\ InPlace(i) /\ \A t \in Targets : Dropped(i, t)
         \/ pc[i] = "clearError" /\ Keeps(i) /\ Calm /\ \A t \in Targets : Restored(i, t)
  BY Disk DEF Finish, Sound, Common, Dropping, Files, Maybe
<1>2. \A place \in Places \ {New(DF), New(PF)} : disk'[place] = disk[place]
  <2>1. CASE Tear("new dataFiles")
    BY <2>1, Torn, Disk
  <2>2. CASE disk' = [disk EXCEPT !["new dataFiles"] = "absent", !["new profile"] = "absent"]
    BY <2>2, Disk
  <2>3. CASE UNCHANGED disk
    BY <2>3
  <2> QED
    BY <2>1, <2>2, <2>3 DEF Finish
<1>3. disk'[New(PF)] \in Maybe
  <2>1. CASE Tear("new dataFiles")
    BY <1>1, <2>1, Torn, Disk, Distinct
  <2>2. CASE disk' = [disk EXCEPT !["new dataFiles"] = "absent", !["new profile"] = "absent"]
    BY <1>1, <2>2, Disk
  <2>3. CASE UNCHANGED disk
    BY <1>1, <2>3
  <2> QED
    BY <2>1, <2>2, <2>3 DEF Finish
<1>4. \A t \in Targets : disk'[t] = disk[t] /\ disk'[Old(t)] = disk[Old(t)]
  BY <1>2, Disk, Distinct
<1>5. Common(i)' /\ Files(i)'
  BY <1>0, <1>1, <1>3, <1>4, Staging
<1>6. mishaps' = 0 => mishaps = 0
  <2>1. mishaps' = mishaps \/ Mishap
    BY DEF Finish, NoMishap
  <2> QED
    BY <2>1, ClientAssumption DEF Mishap
<1>7. CASE UNCHANGED <<pc, result, installed>> /\ NoMishap
  <2>1. CASE pc[i] = "clearOk"
    <3>1. InPlace(i)' /\ \A t \in Targets : Dropped(i, t)'
      BY <1>0, <1>1, <1>4, <1>7, <2>1 DEF InPlace, Dropped, NoMishap
    <3> QED
      BY <1>5, <1>7, <2>1, <3>1, Arrival, Disk
  <2>2. CASE pc[i] = "clearError"
    <3>1. Keeps(i)' /\ Calm' /\ \A t \in Targets : Restored(i, t)'
      BY <1>0, <1>1, <1>4, <1>7, <2>2 DEF Keeps, Calm, Named, Restored, NoMishap
    <3> QED
      BY <1>5, <1>7, <2>2, <3>1, Arrival, Disk
  <2> QED
    BY <1>1, <2>1, <2>2
<1>8. CASE /\ Goto(i, "idle")
           /\ result' = [result EXCEPT ![i] = IF pc[i] = "clearOk" THEN "ok" ELSE "error"]
           /\ installed' = (installed \/ pc[i] = "clearOk")
  <2>1. pc'[i] = "idle" /\ result'[i] = IF pc[i] = "clearOk" THEN "ok" ELSE "error"
    BY <1>8 DEF Goto
  <2>2. CASE pc[i] = "clearOk"
    <3>1. digest' = want'[i] /\ \A t \in Targets : disk'[t] = want'[i] /\ want'[i] \in Packs
      BY <1>0, <1>1, <1>4, <2>2 DEF InPlace
    <3>2. Intact'
      BY <3>1 DEF Intact, Recoverable
    <3>3. Calm'
      BY <1>1, <1>4, <1>6, <2>2, <3>1, Disk DEF Calm, Named, Dropped
    <3> QED
      BY <1>5, <2>1, <2>2, <3>1, <3>2, <3>3, Arrival DEF Rest
  <2>3. CASE pc[i] = "clearError"
    <3>1. Calm' /\ \A t \in Targets : Restored(i, t)'
      BY <1>0, <1>1, <1>4, <1>6, <2>3 DEF Calm, Named, Restored
    <3>2. (installed => Intact)'
      BY <1>0, <1>1, <1>8, <2>3, <3>1 DEF Keeps, Intact, Recoverable, Restored
    <3> QED
      BY <1>5, <2>1, <2>3, <3>1, <3>2, Arrival DEF Rest
  <2> QED
    BY <1>1, <2>2, <2>3
<1> QED
  BY <1>7, <1>8 DEF Finish

LEMMA BeginStep ==
  ASSUME TypeOK, NEW i \in Installers, Sound(i), Begin(i)
  PROVE  Sound(i)'
<1> USE DEF TypeOK
<1>0. /\ UNCHANGED <<disk, digest, want, installed, mishaps>> /\ Common(i) /\ Rest(i)
      /\ pc'[i] = "recoverDF" /\ result'[i] = "none" /\ moved'[i] = {} /\ active'[i] = {}
      /\ found'[i] = [t \in Targets |-> disk[t]]
  BY DEF Begin, Server, NoMishap, Goto, Sound, Common
<1>1. \A t \in Targets : found'[i][t] = disk[t] /\ disk[t] \in Maybe
  BY <1>0, Disk DEF Common, Files
<1>2. Common(i)' /\ Files(i)'
  BY <1>0, <1>1 DEF Common, Files
<1>3. Recovering(i)'
  BY <1>0, <1>1
  DEF Rest, Recovering, Anew, Intact, Recoverable, Present, Calm, Named, Restored
<1> QED
  BY <1>0, <1>2, <1>3, Arrival

(* What the server publishes and what other parts do changes nothing here. *)
LEMMA IdleStep ==
  ASSUME NEW i \in Installers, Sound(i),
         UNCHANGED <<disk, digest, mishaps, installed, local>>
  PROVE  Sound(i)'
<1>1. UNCHANGED <<disk, digest, mishaps, installed, pc, want, moved, active, found, result>>
  BY DEF local
<1>2. Files(i)' <=> Files(i)
  BY <1>1 DEF Files
<1>3. Rest(i)' <=> Rest(i)
  BY <1>1 DEF Rest, Intact, Recoverable, Present, Calm, Named, Restored
<1>4. Recovering(i)' <=> Recovering(i)
  BY <1>1 DEF Recovering, Anew, Intact, Recoverable, Present, Calm, Named, Restored
<1>5. /\ Prepared(i)' <=> Prepared(i)
      /\ Swap(i)' <=> Swap(i)
      /\ InPlace(i)' <=> InPlace(i)
      /\ Back(i)' <=> Back(i)
      /\ Keeps(i)' <=> Keeps(i)
      /\ Calm' <=> Calm
  BY <1>1 DEF Prepared, Anew, Keeps, CalmBefore, Calm, Named, Untouched, Swap, InPlace, Back
<1>6. \A t : /\ Untouched(i, t)' <=> Untouched(i, t)
             /\ Gone(i, t)' <=> Gone(i, t)
             /\ InUse(i, t)' <=> InUse(i, t)
             /\ Assembled(i, t)' <=> Assembled(i, t)
             /\ Restored(i, t)' <=> Restored(i, t)
  BY <1>1 DEF Untouched, Gone, InUse, Aside, Assembled, Restored
<1>7. \A t : /\ ToDrop(i, t)' <=> ToDrop(i, t)
             /\ Dropped(i, t)' <=> Dropped(i, t)
             /\ Half(i, t)' <=> Half(i, t)
             /\ Removed(i, t)' <=> Removed(i, t)
  BY <1>1 DEF ToDrop, Dropped, Half, Removed
<1> QED
  BY <1>1, <1>2, <1>3, <1>4, <1>5, <1>6, <1>7 DEF Sound

(* Wherever the one crash finds an install, the targets are in place or    *)
(* set aside.                                                              *)
LEMMA CrashStep ==
  ASSUME OneMishap, TypeOK, NEW i \in Installers, Sound(i), Crash
  PROVE  Sound(i)'
<1> USE DEF TypeOK
<1>0. UNCHANGED <<disk, digest, want, moved, active, found, installed>>
  BY DEF Crash, Server
<1>1. mishaps = 0 /\ mishaps' = 1 /\ pc'[i] = "idle" /\ result'[i] = "none"
  BY DEF Crash, Mishap, OneMishap
<1>2. pc[i] \notin RollingBack
  BY <1>1 DEF Sound, Back
<1>3. Common(i)' /\ Files(i)'
  <2>1. pc[i] # "removeDF"
    BY <1>2 DEF RollingBack, RemoveSteps
  <2> QED
    BY <1>0, <2>1 DEF Sound, Common, Files
<1>4. ASSUME installed
      PROVE  Intact
  <2>1. CASE pc[i] = "idle" \/ pc[i] \in RecoverSteps
    BY <1>4, <2>1 DEF Sound, Rest, Recovering
  <2>2. CASE pc[i] \in Preparing
    BY <1>4, <2>2, PreparedHolds DEF Sound
  <2>3. CASE pc[i] \in Swapping
    <3>1. \A t \in Targets : found[i][t] \in Packs
      BY <1>4, <2>3 DEF Sound, Swap, Keeps
    <3>2. want[i] \in Packs
      BY <2>3 DEF Sound, Swap
    <3>3. \A t \in Targets : Gone(i, t) \/ InUse(i, t) \/ Untouched(i, t)
      BY <2>3, Disk DEF Sound, Swapping
    <3> QED
      BY <3>1, <3>2, <3>3 DEF Gone, InUse, Aside, Untouched, Intact, Recoverable, Present
  <2>4. CASE pc[i] \in Dropping
    BY <2>4 DEF Sound, InPlace, Intact, Recoverable
  <2>5. CASE pc[i] = "clearError"
    BY <1>4, <2>5, Disk DEF Sound, Keeps, Restored, Intact, Recoverable
  <2>6. pc[i] \in Steps
    OBVIOUS
  <2> QED
    BY <1>2, <2>1, <2>2, <2>3, <2>4, <2>5, <2>6
    DEF Steps, RecoverSteps, MoveSteps, ActivateSteps, Preparing, Swapping, Dropping, RollingBack
<1>5. Rest(i)'
  BY <1>0, <1>1, <1>4 DEF Rest, Intact, Recoverable, Present, Calm
<1> QED
  BY <1>1, <1>3, <1>5, Arrival

-----------------------------------------------------------------------------
(* Every step of the client preserves the invariant.                       *)
LEMMA InstallStep ==
  ASSUME OneInstall, OneMishap, InstallInv, [Next]_vars
  PROVE  InstallInv'
<1>1. TypeOK'
  BY TypesStep DEF InstallInv
<1>2. ASSUME NEW i \in Installers
      PROVE  Sound(i)'
  <2>0. TypeOK /\ Sound(i) /\ \A j \in Installers : j = i
    BY DEF InstallInv, OneInstall
  <2>1. CASE Publish
    BY <2>0, <2>1, IdleStep DEF Publish
  <2>2. CASE Crash
    BY <2>0, <2>2, CrashStep
  <2>3. CASE Step(i)
    BY <2>0, <2>3, BeginStep, RecoverStep, ClearStagingStep, FetchStep, BuildStep, MoveStep,
       ActivateStep, WriteDigestStep, DropOldStep, RemoveNewStep, RestoreStep, FinishStep
    DEF Step
  <2>4. CASE UNCHANGED vars
    BY <2>0, <2>4, IdleStep DEF vars
  <2> QED
    BY <2>0, <2>1, <2>2, <2>3, <2>4 DEF Next
<1> QED
  BY <1>1, <1>2 DEF InstallInv

LEMMA InstallInit ==
  ASSUME Init
  PROVE  InstallInv
<1>1. TypeOK
  <2>1. "absent" \in Contents /\ "idle" \in Steps
    BY Disk DEF Steps
  <2>2. disk \in [Places -> Contents] /\ found \in [Installers -> [Targets -> Contents]]
    BY <2>1 DEF Init
  <2>3. /\ pc \in [Installers -> Steps] /\ want \in [Installers -> Packs \cup {"none"}]
        /\ moved \in [Installers -> SUBSET Targets] /\ active \in [Installers -> SUBSET Targets]
        /\ result \in [Installers -> {"none", "ok", "skipped", "error"}]
    BY <2>1 DEF Init
  <2>4. publishes \in 0..MaxPublishes /\ mishaps \in 0..MaxMishaps
    BY ClientAssumption DEF Init
  <2>5. published \in Packs \cup {"none"} /\ digest \in Packs \cup {"none"} /\ installed \in BOOLEAN
    BY DEF Init
  <2> QED
    BY <2>2, <2>3, <2>4, <2>5 DEF TypeOK
<1>2. ASSUME NEW i \in Installers
      PROVE  Sound(i)
  <2>1. /\ \A place \in Places : disk[place] = "absent"
        /\ digest = "none" /\ installed = FALSE /\ pc[i] = "idle" /\ result[i] = "none"
        /\ \A t \in Targets : found[i][t] = "absent"
    BY DEF Init
  <2>2. Files(i) /\ disk[DF] \in Maybe
    BY <2>1, Distinct DEF Files, Maybe
  <2>3. Rest(i)
    BY <2>1, Apart DEF Rest, Calm, Named
  <2> QED
    BY <2>1, <2>2, <2>3
    DEF Sound, RecoverSteps, Preparing, Swapping, Dropping, DropSteps, RollingBack,
        RemoveSteps, RestoreSteps
<1> QED
  BY <1>1, <1>2 DEF InstallInv

LEMMA InstallImplies ==
  ASSUME OneInstall, InstallInv
  PROVE  PlayableAgain /\ ReportIsTrue
<1> USE DEF InstallInv, TypeOK
<1>1. PICK i \in Installers : Installers = {i}
  BY DEF OneInstall
<1>2. Sound(i) /\ (Quiet => pc[i] = "idle")
  BY <1>1 DEF Quiet
<1>3. PlayableAgain
  BY <1>2 DEF PlayableAgain, Sound, Rest, Intact
<1>4. result[i] \in {"ok", "error"} => pc[i] = "idle"
  BY <1>2
  DEF Sound, Recovering, Anew, Prepared, Swap, Keeps, InPlace, Back, Steps, RecoverSteps,
      MoveSteps, ActivateSteps, DropSteps, RemoveSteps, RestoreSteps, Preparing, Swapping,
      Dropping, RollingBack
<1>5. InstalledAsReported
  BY <1>1, <1>2, <1>4 DEF InstalledAsReported, Sound, Rest
<1>6. ErrorRestores
  BY <1>1, <1>2, <1>4 DEF ErrorRestores, Sound, Rest, Restored
<1>7. MarkedUnlessDisturbed
  BY <1>2 DEF MarkedUnlessDisturbed, MarkedTree, Sound, Rest, Calm, Named
<1> QED
  BY <1>3, <1>5, <1>6, <1>7 DEF ReportIsTrue

(* As long as one install runs at a time and at most one operation fails   *)
(* or one crash happens, a client that once had the mods always has        *)
(* complete Data Files and openmw.cfg in use or set aside for the next     *)
(* install (mods/swap.go, recoverTarget).                                  *)
THEOREM ModsPlayableAgain ==
  ASSUME OneInstall, OneMishap
  PROVE  Spec => []PlayableAgain
<1>1. Init => InstallInv
  BY InstallInit
<1>2. InstallInv /\ [Next]_vars => InstallInv'
  BY InstallStep
<1>3. InstallInv => PlayableAgain
  BY InstallImplies
<1> QED
  BY <1>1, <1>2, <1>3, PTL DEF Spec

(* Under the same conditions an install that reports success has put tree, *)
(* profile and digest of the announced package in place, one that reports  *)
(* an error has put back what it found, and the digest names what is       *)
(* there as long as nothing failed (mods/install.go, swap.go).             *)
THEOREM ModsReportIsTrue ==
  ASSUME OneInstall, OneMishap
  PROVE  Spec => []ReportIsTrue
<1>1. Init => InstallInv
  BY InstallInit
<1>2. InstallInv /\ [Next]_vars => InstallInv'
  BY InstallStep
<1>3. InstallInv => ReportIsTrue
  BY InstallImplies
<1> QED
  BY <1>1, <1>2, <1>3, PTL DEF Spec

(* The client's mods are those of ClientMods, whatever its other parts do. *)
THEOREM ClientInstallsMods == FilesSpec => Spec
<1>1. FilesInit => Init
  BY DEF FilesInit
<1>2. [FilesNext]_filesVars => [Next]_vars
  BY DEF FilesNext, filesVars
<1> QED
  BY <1>1, <1>2, PTL DEF FilesSpec, Spec

-----------------------------------------------------------------------------
(* ClientSession: the slot, the games, the packs and the settings.         *)
(***************************************************************************)
Holds(p) == sPlay[p].at \in {"prepare", "started"}
Waits(p) == sPlay[p].at = "wait"

(* Who holds the slot: the editor or one Play that prepares a start; who   *)
(* keeps the latch: the one Play that waits for its game.                  *)
SlotInv ==
  /\ guard.starting <=> editor \/ \E p \in Profiles : Holds(p)
  /\ editor => \A p \in Profiles : ~Holds(p)
  /\ \A p, q \in Profiles : Holds(p) /\ Holds(q) => p = q
  /\ guard.running <=> \E p \in Profiles : Waits(p)
  /\ \A p, q \in Profiles : Waits(p) /\ Waits(q) => p = q
  /\ ~(guard.starting /\ guard.running)
  /\ \A p \in alive : Waits(p) \/ sPlay[p].at = "started"

(* A Play that nothing disturbs carries a pack no older than the one it    *)
(* asked for, and an update of its profile disturbs it.                    *)
PackInv ==
  \A p \in Profiles :
    /\ sPlay[p].asked <= panel[p] /\ panel[p] >= 1
    /\ sPlay[p].at = "install" => sPlay[p].seen >= sPlay[p].asked
    /\ sPlay[p].at \in {"launch", "prepare", "started"} /\ ~sPlay[p].blurred =>
         mods[p] = 0 \/ mods[p] >= sPlay[p].asked
    /\ sUpdate # None /\ sUpdate.of = p =>
         sPlay[p].at \in {"idle", "wait"} \/ sPlay[p].blurred

SessionInv == S!TypeOK /\ SlotInv /\ PackInv /\ S!FileIsConfig

PlayRecords == [at : S!Steps, asked : 0..MaxVersion, seen : 0..MaxVersion, blurred : BOOLEAN]

LEMMA SessionTypes ==
  ASSUME S!TypeOK
  PROVE  /\ cfg \in [servers : SUBSET Profiles, folder : BOOLEAN]
         /\ file \in [servers : SUBSET Profiles, folder : BOOLEAN]
         /\ editor \in BOOLEAN /\ guard \in [starting : BOOLEAN, running : BOOLEAN]
         /\ sPlay \in [Profiles -> PlayRecords] /\ alive \subseteq Profiles
         /\ panel \in [Profiles -> 0..MaxVersion] /\ mods \in [Profiles -> 0..MaxVersion]
         /\ sMishaps \in 0..MaxSessionMishaps
BY DEF S!TypeOK, PlayRecords

LEMMA Moves ==
  ASSUME S!TypeOK, NEW p \in Profiles, NEW from, NEW to \in S!Steps, S!At(p, from, to)
  PROVE  /\ sPlay[p].at = from /\ sPlay'[p].at = to
         /\ \A q \in Profiles \ {p} : sPlay'[q] = sPlay[q]
         /\ to \notin {"idle", "wait"} =>
              sPlay'[p].asked = sPlay[p].asked /\ sPlay'[p].seen = sPlay[p].seen
                /\ sPlay'[p].blurred = sPlay[p].blurred
         /\ to \in {"idle", "wait"} => sPlay'[p].asked = 0
         /\ sPlay' \in [Profiles -> PlayRecords]
<1>1. sPlay \in [Profiles -> PlayRecords]
  BY SessionTypes
<1>2. sPlay[p].at = from
  BY DEF S!At
<1>3. CASE to \in {"idle", "wait"}
  <2>1. sPlay' = [sPlay EXCEPT ![p] = [S!Off EXCEPT !.at = to]]
    BY <1>3 DEF S!At
  <2>2. [S!Off EXCEPT !.at = to] = [at |-> to, asked |-> 0, seen |-> 0, blurred |-> FALSE]
    <3>1. \A r \in PlayRecords :
            [r EXCEPT !.at = to] = [at |-> to, asked |-> r.asked, seen |-> r.seen,
                                    blurred |-> r.blurred]
      BY DEF PlayRecords
    <3>2. S!Off \in PlayRecords /\ S!Off.asked = 0 /\ S!Off.seen = 0 /\ S!Off.blurred = FALSE
      BY FilesAssumption DEF S!Off, PlayRecords, S!Steps
    <3> QED
      BY <3>1, <3>2
  <2>3. [at |-> to, asked |-> 0, seen |-> 0, blurred |-> FALSE] \in PlayRecords
    BY FilesAssumption DEF PlayRecords
  <2> QED
    BY <1>1, <1>2, <1>3, <2>1, <2>2, <2>3
<1>4. CASE to \notin {"idle", "wait"}
  <2>1. sPlay' = [sPlay EXCEPT ![p] = [sPlay[p] EXCEPT !.at = to]]
    BY <1>4 DEF S!At
  <2>2. [sPlay[p] EXCEPT !.at = to]
          = [at |-> to, asked |-> sPlay[p].asked, seen |-> sPlay[p].seen,
             blurred |-> sPlay[p].blurred]
    BY <1>1 DEF PlayRecords
  <2>3. [sPlay[p] EXCEPT !.at = to] \in PlayRecords
    BY <1>1, <2>2 DEF PlayRecords
  <2> QED
    BY <1>1, <1>2, <1>4, <2>1, <2>2, <2>3
<1> QED
  BY <1>3, <1>4

(* Steps that neither take nor give back the slot or the latch.            *)
LEMMA SlotStays ==
  ASSUME SlotInv, UNCHANGED <<guard, editor>>, alive' \subseteq alive,
         \A p \in Profiles : \/ sPlay'[p].at = sPlay[p].at
                             \/ {sPlay[p].at, sPlay'[p].at} \cap {"prepare", "started", "wait"} = {},
         alive \subseteq Profiles
  PROVE  SlotInv'
<1>1. \A p \in Profiles : /\ Holds(p)' <=> Holds(p)
                          /\ Waits(p)' <=> Waits(p)
                          /\ sPlay'[p].at = "started" <=> sPlay[p].at = "started"
  BY DEF Holds, Waits
<1> QED
  BY <1>1 DEF SlotInv

LEMMA SlotMoves ==
  ASSUME S!TypeOK, SlotInv, NEW p \in Profiles,
         NEW from, NEW to \in S!Steps, S!At(p, from, to)
  PROVE  /\ Holds(p) <=> from \in {"prepare", "started"}
         /\ Holds(p)' <=> to \in {"prepare", "started"}
         /\ Waits(p) <=> from = "wait"
         /\ Waits(p)' <=> to = "wait"
         /\ sPlay'[p].at = to
         /\ \A q \in Profiles \ {p} : /\ Holds(q)' <=> Holds(q)
                                      /\ Waits(q)' <=> Waits(q)
                                      /\ sPlay'[q] = sPlay[q]
BY Moves DEF Holds, Waits

LEMMA SlotStep ==
  ASSUME S!TypeOK, SlotInv, S!Next
  PROVE  SlotInv'
<1>0. /\ alive \subseteq Profiles /\ guard \in [starting : BOOLEAN, running : BOOLEAN]
      /\ sPlay \in [Profiles -> PlayRecords] /\ editor \in BOOLEAN
      /\ S!Steps = {"idle", "ensure", "install", "launch", "prepare", "started", "wait"}
  BY SessionTypes DEF S!Steps
<1>1. CASE UNCHANGED S!launch
  BY <1>0, <1>1, SlotStays DEF S!launch
<1>2. CASE S!ReadSettings \/ S!SaveSettings \/ S!DetectMorrowind
  BY <1>1, <1>2 DEF S!ReadSettings, S!SaveSettings, S!DetectMorrowind
<1>3. ASSUME S!Reopen(file) \/ S!Reopen(S!Default)
      PROVE  SlotInv'
  <2>1. /\ guard' = [starting |-> FALSE, running |-> FALSE] /\ editor' = FALSE /\ alive' = {}
        /\ \A p \in Profiles : sPlay'[p].at = "idle"
    BY <1>3 DEF S!Reopen, S!Off
  <2> QED
    BY <2>1 DEF SlotInv, Holds, Waits
<1>4. CASE S!Restart \/ S!Uninstall
  BY <1>1, <1>3, <1>4 DEF S!Restart, S!Uninstall
<1>5. CASE S!OpenMWCS
  <2>1. UNCHANGED <<sPlay, alive>>
    BY <1>5 DEF S!OpenMWCS
  <2>2. CASE S!Begin /\ editor' = TRUE
    BY <1>0, <2>1, <2>2 DEF S!Begin, SlotInv, Holds, Waits
  <2>3. CASE editor /\ editor' = FALSE /\ S!Finish(FALSE)
    BY <1>0, <2>1, <2>3 DEF S!Finish, SlotInv, Holds, Waits
  <2> QED
    BY <1>5, <2>2, <2>3 DEF S!OpenMWCS
<1>6. ASSUME NEW p \in Profiles,
             \/ S!DeleteServer(p)
             \/ S!Publish(p)
             \/ \E original \in Profiles \cup {None} : S!SaveServer(original, p)
      PROVE  SlotInv'
  BY <1>1, <1>6 DEF S!DeleteServer, S!Publish, S!SaveServer
<1>7. ASSUME NEW p \in Profiles, S!Play(p)
      PROVE  SlotInv'
  <2>1. UNCHANGED <<guard, editor, alive>>
    BY <1>7 DEF S!Play
  <2>2. CASE UNCHANGED sPlay
    BY <1>1, <2>1, <2>2 DEF S!launch
  <2>3. CASE sPlay[p].at = "idle" /\ sPlay'[p].at = "ensure"
             /\ \A q \in Profiles \ {p} : sPlay'[q] = sPlay[q]
    BY <1>0, <2>1, <2>3, SlotStays
  <2> QED
    BY <1>0, <1>7, <2>2, <2>3 DEF S!Play
<1>8. ASSUME NEW p \in Profiles, S!EnsureMods(p)
      PROVE  SlotInv'
  <2>1. UNCHANGED <<guard, editor, alive>>
    BY <1>8 DEF S!EnsureMods, S!Others
  <2>2. sPlay[p].at = "ensure" /\ \A q \in Profiles \ {p} : sPlay'[q] = sPlay[q]
    BY <1>0, <1>8 DEF S!EnsureMods
  <2>3. sPlay'[p].at \in {"idle", "install", "launch"}
    <3>1. sPlay[p] \in PlayRecords
      BY <1>0
    <3>2. CASE sPlay' = [sPlay EXCEPT ![p].at = "install", ![p].seen = panel[p]]
      BY <1>0, <3>1, <3>2 DEF PlayRecords
    <3>3. CASE sPlay' = [sPlay EXCEPT ![p] = S!Off]
      BY <1>0, <3>3 DEF S!Off
    <3>4. CASE sPlay' = [sPlay EXCEPT ![p] = [@ EXCEPT !.at = "launch", !.blurred = TRUE]]
      BY <1>0, <3>1, <3>4 DEF PlayRecords
    <3> QED
      BY <1>8, <3>2, <3>3, <3>4 DEF S!EnsureMods
  <2> QED
    BY <1>0, <2>1, <2>2, <2>3, SlotStays
<1>9. ASSUME NEW p \in Profiles, S!Install(p)
      PROVE  SlotInv'
  <2>1. UNCHANGED <<guard, editor, alive>> /\ S!At(p, "install", "launch")
    BY <1>9 DEF S!Install
  <2>2. /\ sPlay[p].at = "install" /\ sPlay'[p].at = "launch"
        /\ \A q \in Profiles \ {p} : sPlay'[q] = sPlay[q]
    BY <1>0, <2>1, Moves
  <2> QED
    BY <1>0, <2>1, <2>2, SlotStays
<1>10. ASSUME NEW p \in Profiles, S!Launch(p)
       PROVE  SlotInv'
  <2>1. UNCHANGED <<editor, alive>>
    BY <1>10 DEF S!Launch, S!Others
  <2>2. CASE S!Begin /\ S!At(p, "launch", "prepare")
    <3>1. ~guard.starting /\ ~guard.running /\ guard'.starting /\ ~guard'.running
      BY <1>0, <2>2 DEF S!Begin
    <3>2. ~editor /\ \A q \in Profiles : ~Holds(q) /\ ~Waits(q)
      BY <3>1 DEF SlotInv
    <3>3. Holds(p)' /\ ~Waits(p)' /\ sPlay[p].at = "launch"
      BY <1>0, <2>2, SlotMoves, Moves
    <3>4. \A q \in Profiles \ {p} : ~Holds(q)' /\ ~Waits(q)' /\ sPlay'[q] = sPlay[q]
      BY <1>0, <2>2, <3>2, SlotMoves
    <3>5. alive = {}
      BY <1>0, <3>2 DEF SlotInv, Holds
    <3> QED
      BY <1>0, <2>1, <3>1, <3>2, <3>3, <3>4, <3>5 DEF SlotInv
  <2>3. CASE S!At(p, "launch", "idle") /\ UNCHANGED guard
    BY <1>0, <2>1, <2>3, Moves, SlotStays
  <2> QED
    BY <1>10, <2>2, <2>3 DEF S!Launch
<1>11. ASSUME NEW p \in Profiles, S!Start(p)
       PROVE  SlotInv'
  <2>1. UNCHANGED editor
    BY <1>11 DEF S!Start, S!Others
  <2>2. CASE S!At(p, "prepare", "started") /\ alive' = alive \cup {p} /\ UNCHANGED guard
    <3>1. Holds(p) /\ Holds(p)' /\ ~Waits(p) /\ ~Waits(p)' /\ sPlay'[p].at = "started"
      BY <1>0, <2>2, SlotMoves
    <3>2. \A q \in Profiles \ {p} : (Holds(q)' <=> Holds(q)) /\ (Waits(q)' <=> Waits(q))
                                      /\ sPlay'[q] = sPlay[q]
      BY <1>0, <2>2, SlotMoves
    <3> QED
      BY <1>0, <2>1, <2>2, <3>1, <3>2 DEF SlotInv
  <2>3. CASE S!At(p, "prepare", "idle") /\ S!Finish(FALSE) /\ UNCHANGED alive
    <3>1. sPlay[p].at = "prepare" /\ Holds(p) /\ ~Holds(p)' /\ ~Waits(p) /\ ~Waits(p)'
      BY <1>0, <2>3, SlotMoves, Moves
    <3>2. \A q \in Profiles \ {p} : (Holds(q)' <=> Holds(q)) /\ (Waits(q)' <=> Waits(q))
                                      /\ sPlay'[q] = sPlay[q]
      BY <1>0, <2>3, SlotMoves
    <3>3. guard' = [starting |-> FALSE, running |-> FALSE]
      BY <2>3 DEF S!Finish
    <3>4. ~guard.running /\ p \notin alive
      BY <1>0, <3>1 DEF SlotInv, Waits
    <3> QED
      BY <1>0, <2>1, <2>3, <3>1, <3>2, <3>3, <3>4 DEF SlotInv
  <2> QED
    BY <1>11, <2>2, <2>3 DEF S!Start
<1>12. ASSUME NEW p \in Profiles, S!Started(p)
       PROVE  SlotInv'
  <2>1. UNCHANGED <<editor, alive>> /\ S!At(p, "started", "wait")
        /\ guard' = [starting |-> FALSE, running |-> TRUE]
    BY <1>12 DEF S!Started, S!Others, S!Finish
  <2>2. Holds(p) /\ ~Holds(p)' /\ ~Waits(p) /\ Waits(p)'
    BY <1>0, <2>1, SlotMoves
  <2>3. \A q \in Profiles \ {p} : (Holds(q)' <=> Holds(q)) /\ (Waits(q)' <=> Waits(q))
                                    /\ sPlay'[q] = sPlay[q]
    BY <1>0, <2>1, SlotMoves
  <2>4. ~editor /\ \A q \in Profiles : ~Waits(q)
    BY <2>2 DEF SlotInv
  <2> QED
    BY <1>0, <2>1, <2>2, <2>3, <2>4 DEF SlotInv
<1>13. ASSUME NEW p \in Profiles, S!GameExits(p)
       PROVE  SlotInv'
  <2>1. UNCHANGED <<guard, editor, sPlay>> /\ alive' \subseteq alive
    BY <1>13 DEF S!GameExits, S!Others
  <2> QED
    BY <1>0, <2>1, SlotStays
<1>14. ASSUME NEW p \in Profiles, S!GameStopped(p)
       PROVE  SlotInv'
  <2>1. UNCHANGED <<editor, alive>> /\ S!At(p, "wait", "idle") /\ p \notin alive
        /\ guard' = [guard EXCEPT !.running = FALSE]
    BY <1>14 DEF S!GameStopped, S!Others
  <2>2. ~Holds(p) /\ ~Holds(p)' /\ Waits(p) /\ ~Waits(p)'
    BY <1>0, <2>1, SlotMoves
  <2>3. \A q \in Profiles \ {p} : (Holds(q)' <=> Holds(q)) /\ (Waits(q)' <=> Waits(q))
                                    /\ sPlay'[q] = sPlay[q]
    BY <1>0, <2>1, SlotMoves
  <2>4. guard'.starting = guard.starting /\ guard'.running = FALSE
    BY <1>0, <2>1
  <2> QED
    BY <1>0, <2>1, <2>2, <2>3, <2>4 DEF SlotInv
<1>15. ASSUME NEW p \in Profiles, S!UpdateMods(p)
       PROVE  SlotInv'
  <2>1. UNCHANGED <<guard, editor, alive>>
    BY <1>15 DEF S!UpdateMods
  <2>2. \A q \in Profiles : sPlay'[q].at = sPlay[q].at
    <3>1. sPlay' = sPlay \/ sPlay' = [sPlay EXCEPT ![p].blurred = TRUE]
      BY <1>15 DEF S!UpdateMods
    <3>2. \A q \in Profiles : sPlay[q] \in PlayRecords
      BY <1>0
    <3> QED
      BY <1>0, <3>1, <3>2 DEF PlayRecords
  <2> QED
    BY <1>0, <2>1, <2>2, SlotStays
<1> QED
  BY <1>2, <1>4, <1>5, <1>6, <1>7, <1>8, <1>9, <1>10, <1>11, <1>12, <1>13, <1>14, <1>15
  DEF S!Next

(* How a Play, and what is installed and offered, may change in a step.    *)
LEMMA PlayStep ==
  ASSUME S!TypeOK, PackInv, S!Next
  PROVE  /\ sPlay' \in [Profiles -> PlayRecords]
         /\ panel' \in [Profiles -> 0..MaxVersion] /\ mods' \in [Profiles -> 0..MaxVersion]
         /\ sUpdate' \in {None} \cup [of : Profiles, pack : 1..MaxVersion]
         /\ PackInv'
<1>0. /\ sPlay \in [Profiles -> PlayRecords]
      /\ panel \in [Profiles -> 0..MaxVersion] /\ mods \in [Profiles -> 0..MaxVersion]
      /\ sUpdate \in {None} \cup [of : Profiles, pack : 1..MaxVersion]
      /\ MaxVersion \in Nat
      /\ S!Steps = {"idle", "ensure", "install", "launch", "prepare", "started", "wait"}
      /\ \A p \in Profiles : sPlay[p] \in PlayRecords
  BY SessionTypes, FilesAssumption DEF S!Steps, S!TypeOK
<1>1. CASE UNCHANGED <<sPlay, panel, mods, sUpdate>>
  BY <1>0, <1>1 DEF PackInv
<1>2. CASE S!ReadSettings \/ S!SaveSettings \/ S!DetectMorrowind \/ S!OpenMWCS
  BY <1>1, <1>2
  DEF S!ReadSettings, S!SaveSettings, S!DetectMorrowind, S!OpenMWCS, S!launch, S!packs
<1>3. ASSUME S!Reopen(file) \/ S!Reopen(S!Default),
             mods' = mods \/ mods' = [p \in Profiles |-> 0]
      PROVE  /\ sPlay' \in [Profiles -> PlayRecords] /\ panel' = panel
             /\ mods' \in [Profiles -> 0..MaxVersion] /\ sUpdate' = None
             /\ PackInv'
  <2>1. /\ sPlay' = [p \in Profiles |-> [at |-> "idle", asked |-> 0, seen |-> 0,
                                         blurred |-> FALSE]]
        /\ panel' = panel /\ sUpdate' = None
    BY <1>3 DEF S!Reopen, S!Off
  <2>2. sPlay' \in [Profiles -> PlayRecords]
    BY <1>0, <2>1 DEF PlayRecords
  <2>3. \A p \in Profiles : sPlay'[p].at = "idle" /\ sPlay'[p].asked = 0
    BY <2>1
  <2> QED
    BY <1>0, <1>3, <2>1, <2>2, <2>3 DEF PackInv
<1>4. CASE S!Restart
  BY <1>0, <1>3, <1>4 DEF S!Restart
<1>5. CASE S!Uninstall
  <2>1. mods' = [p \in Profiles |-> 0]
    BY <1>5 DEF S!Uninstall
  <2>2. CASE UNCHANGED <<sPlay, panel, sUpdate>>
    BY <1>0, <2>1, <2>2 DEF PackInv
  <2> QED
    BY <1>0, <1>3, <1>5, <2>1, <2>2 DEF S!Uninstall, S!launch
<1>6. ASSUME NEW p \in Profiles,
             \/ S!DeleteServer(p)
             \/ S!GameExits(p)
             \/ \E original \in Profiles \cup {None} : S!SaveServer(original, p)
      PROVE  UNCHANGED <<sPlay, panel, mods, sUpdate>>
  BY <1>6 DEF S!DeleteServer, S!GameExits, S!SaveServer, S!launch, S!packs
<1>7. ASSUME NEW p \in Profiles, NEW r \in PlayRecords,
             sPlay' = [sPlay EXCEPT ![p] = r], UNCHANGED <<panel, mods, sUpdate>>,
             r.asked <= panel[p],
             r.at = "install" => r.seen >= r.asked,
             r.at \in {"launch", "prepare", "started"} /\ ~r.blurred =>
               mods[p] = 0 \/ mods[p] >= r.asked,
             sUpdate # None /\ sUpdate.of = p => r.at \in {"idle", "wait"} \/ r.blurred
      PROVE  sPlay' \in [Profiles -> PlayRecords] /\ PackInv'
  <2>1. sPlay' \in [Profiles -> PlayRecords] /\ sPlay'[p] = r
        /\ \A q \in Profiles \ {p} : sPlay'[q] = sPlay[q]
    BY <1>0, <1>7
  <2> QED
    BY <1>7, <2>1 DEF PackInv
<1>8. ASSUME NEW p \in Profiles, S!Play(p)
      PROVE  sPlay' \in [Profiles -> PlayRecords] /\ PackInv' /\ UNCHANGED <<panel, mods, sUpdate>>
  <2>1. UNCHANGED <<panel, mods, sUpdate>>
    BY <1>8 DEF S!Play, S!packs
  <2>2. CASE UNCHANGED sPlay
    BY <1>0, <2>1, <2>2 DEF PackInv
  <2> DEFINE r == [at |-> "ensure", asked |-> panel[p], seen |-> 0,
                   blurred |-> sUpdate # None /\ sUpdate.of = p]
  <2>3. CASE sPlay' = [sPlay EXCEPT ![p] = r]
    <3>1. r \in PlayRecords /\ r.at = "ensure" /\ r.asked = panel[p]
          /\ (sUpdate # None /\ sUpdate.of = p => r.blurred)
      <4>1. CASE sUpdate # None /\ sUpdate.of = p
        <5>1. r = [at |-> "ensure", asked |-> panel[p], seen |-> 0, blurred |-> TRUE]
          BY <4>1
        <5> QED
          BY <1>0, <5>1 DEF PlayRecords
      <4>2. CASE ~(sUpdate # None /\ sUpdate.of = p)
        <5>1. r = [at |-> "ensure", asked |-> panel[p], seen |-> 0, blurred |-> FALSE]
          BY <4>2
        <5> QED
          BY <1>0, <4>2, <5>1 DEF PlayRecords
      <4> QED
        BY <4>1, <4>2
    <3>2. panel[p] <= panel[p]
      BY <1>0
    <3> HIDE DEF r
    <3> QED
      BY <1>7, <2>1, <2>3, <3>1, <3>2
  <2> QED
    BY <1>8, <2>1, <2>2, <2>3 DEF S!Play
<1>9. ASSUME NEW p \in Profiles, S!EnsureMods(p)
      PROVE  sPlay' \in [Profiles -> PlayRecords] /\ PackInv' /\ UNCHANGED <<panel, mods, sUpdate>>
  <2>1. UNCHANGED <<panel, mods, sUpdate>> /\ sPlay[p].at = "ensure"
    BY <1>9 DEF S!EnsureMods, S!packs
  <2>2. sPlay[p] \in PlayRecords /\ sPlay[p].asked <= panel[p]
        /\ (sUpdate # None /\ sUpdate.of = p => sPlay[p].blurred)
    BY <1>0, <2>1 DEF PackInv
  <2>3. CASE sPlay' = [sPlay EXCEPT ![p].at = "install", ![p].seen = panel[p]]
    <3> DEFINE r == [sPlay[p] EXCEPT !.at = "install", !.seen = panel[p]]
    <3>2. sPlay' = [sPlay EXCEPT ![p] = r]
      BY <1>0, <2>3
    <3>3. r \in PlayRecords /\ r.at = "install" /\ r.asked = sPlay[p].asked
          /\ r.seen = panel[p] /\ r.blurred = sPlay[p].blurred
      BY <1>0, <2>2 DEF PlayRecords
    <3>4. panel[p] >= sPlay[p].asked
      BY <1>0, <2>2 DEF PlayRecords
    <3> HIDE DEF r
    <3> QED
      BY <1>7, <2>1, <2>2, <3>2, <3>3, <3>4
  <2>4. CASE sPlay' = [sPlay EXCEPT ![p] = S!Off]
    <3>1. S!Off \in PlayRecords /\ S!Off.at = "idle" /\ S!Off.asked = 0
      BY <1>0 DEF S!Off, PlayRecords
    <3>2. 0 <= panel[p]
      BY <1>0
    <3> QED
      BY <1>7, <2>1, <2>4, <3>1, <3>2
  <2>5. CASE sPlay' = [sPlay EXCEPT ![p] = [@ EXCEPT !.at = "launch", !.blurred = TRUE]]
    <3> DEFINE r == [sPlay[p] EXCEPT !.at = "launch", !.blurred = TRUE]
    <3>2. sPlay' = [sPlay EXCEPT ![p] = r]
      BY <1>0, <2>5
    <3>3. r \in PlayRecords /\ r.at = "launch" /\ r.asked = sPlay[p].asked /\ r.blurred
      BY <1>0, <2>2 DEF PlayRecords
    <3> HIDE DEF r
    <3> QED
      BY <1>7, <2>1, <2>2, <3>2, <3>3
  <2> QED
    BY <1>9, <2>1, <2>3, <2>4, <2>5 DEF S!EnsureMods
<1>10. ASSUME NEW p \in Profiles, NEW from, NEW to \in S!Steps, S!At(p, from, to),
              UNCHANGED <<panel, mods, sUpdate>>,
              to \in {"idle", "wait", "prepare", "started"},
              to \in {"prepare", "started"} => from \in {"launch", "prepare"}
       PROVE  sPlay' \in [Profiles -> PlayRecords] /\ PackInv'
  <2>1. /\ sPlay[p].at = from /\ sPlay'[p].at = to /\ sPlay' \in [Profiles -> PlayRecords]
        /\ \A q \in Profiles \ {p} : sPlay'[q] = sPlay[q]
        /\ to \notin {"idle", "wait"} => /\ sPlay'[p].asked = sPlay[p].asked
                                         /\ sPlay'[p].blurred = sPlay[p].blurred
        /\ to \in {"idle", "wait"} => sPlay'[p].asked = 0
    BY <1>10, Moves
  <2>2. 0 <= panel[p]
    BY <1>0
  <2> QED
    BY <1>10, <2>1, <2>2 DEF PackInv
<1>11. ASSUME NEW p \in Profiles, S!Launch(p)
       PROVE  sPlay' \in [Profiles -> PlayRecords] /\ PackInv' /\ UNCHANGED <<panel, mods, sUpdate>>
  <2>1. UNCHANGED <<panel, mods, sUpdate>>
    BY <1>11 DEF S!Launch, S!packs
  <2>2. S!At(p, "launch", "prepare") \/ S!At(p, "launch", "idle")
    BY <1>11 DEF S!Launch
  <2> QED
    BY <1>0, <1>10, <2>1, <2>2
<1>12. ASSUME NEW p \in Profiles, S!Start(p)
       PROVE  sPlay' \in [Profiles -> PlayRecords] /\ PackInv' /\ UNCHANGED <<panel, mods, sUpdate>>
  <2>1. UNCHANGED <<panel, mods, sUpdate>>
    BY <1>12 DEF S!Start, S!packs
  <2>2. S!At(p, "prepare", "started") \/ S!At(p, "prepare", "idle")
    BY <1>12 DEF S!Start
  <2> QED
    BY <1>0, <1>10, <2>1, <2>2
<1>13. ASSUME NEW p \in Profiles, S!Started(p) \/ S!GameStopped(p)
       PROVE  sPlay' \in [Profiles -> PlayRecords] /\ PackInv' /\ UNCHANGED <<panel, mods, sUpdate>>
  <2>1. UNCHANGED <<panel, mods, sUpdate>>
    BY <1>13 DEF S!Started, S!GameStopped, S!packs
  <2>2. S!At(p, "started", "wait") \/ S!At(p, "wait", "idle")
    BY <1>13 DEF S!Started, S!GameStopped
  <2> QED
    BY <1>0, <1>10, <2>1, <2>2
<1>14. ASSUME NEW p \in Profiles, S!Install(p)
       PROVE  /\ sPlay' \in [Profiles -> PlayRecords] /\ PackInv' /\ UNCHANGED <<panel, sUpdate>>
              /\ mods' \in [Profiles -> 0..MaxVersion]
  <2>1. UNCHANGED <<panel, sUpdate>> /\ S!At(p, "install", "launch")
        /\ mods' = [mods EXCEPT ![p] = sPlay[p].seen]
    BY <1>14 DEF S!Install
  <2>2. /\ sPlay[p].at = "install" /\ sPlay'[p].at = "launch"
        /\ sPlay'[p].asked = sPlay[p].asked /\ sPlay'[p].blurred = sPlay[p].blurred
        /\ \A q \in Profiles \ {p} : sPlay'[q] = sPlay[q]
        /\ sPlay' \in [Profiles -> PlayRecords]
    BY <1>0, <2>1, Moves
  <2>3. sPlay[p].seen \in 0..MaxVersion
    BY <1>0 DEF PlayRecords
  <2>4. mods'[p] = sPlay[p].seen /\ \A q \in Profiles \ {p} : mods'[q] = mods[q]
    BY <1>0, <2>1
  <2> QED
    BY <1>0, <2>1, <2>2, <2>3, <2>4 DEF PackInv
<1>15. ASSUME NEW p \in Profiles, S!UpdateMods(p)
       PROVE  /\ sPlay' \in [Profiles -> PlayRecords] /\ PackInv' /\ UNCHANGED panel
              /\ mods' \in [Profiles -> 0..MaxVersion]
              /\ sUpdate' \in {None} \cup [of : Profiles, pack : 1..MaxVersion]
  <2>1. UNCHANGED panel
    BY <1>15 DEF S!UpdateMods
  <2>2. CASE /\ sUpdate = None /\ sUpdate' = [of |-> p, pack |-> panel[p]] /\ UNCHANGED mods
             /\ sPlay' = IF sPlay[p].at \in {"idle", "wait"} THEN sPlay
                         ELSE [sPlay EXCEPT ![p].blurred = TRUE]
    <3>1. panel[p] \in 1..MaxVersion
      BY <1>0 DEF PackInv
    <3>2. sUpdate' \in [of : Profiles, pack : 1..MaxVersion] /\ sUpdate'.of = p
      BY <2>2, <3>1
    <3>3. CASE sPlay[p].at \in {"idle", "wait"}
      BY <1>0, <2>1, <2>2, <3>2, <3>3 DEF PackInv
    <3>4. CASE sPlay[p].at \notin {"idle", "wait"}
      <4> DEFINE r == [sPlay[p] EXCEPT !.blurred = TRUE]
      <4>2. sPlay' = [sPlay EXCEPT ![p] = r]
        BY <1>0, <2>2, <3>4
      <4>3. r \in PlayRecords /\ r.at = sPlay[p].at /\ r.asked = sPlay[p].asked
            /\ r.seen = sPlay[p].seen /\ r.blurred
        BY <1>0 DEF PlayRecords
      <4> HIDE DEF r
      <4>4. sPlay' \in [Profiles -> PlayRecords] /\ sPlay'[p] = r
            /\ \A q \in Profiles \ {p} : sPlay'[q] = sPlay[q]
        BY <1>0, <4>2, <4>3
      <4> QED
        BY <1>0, <2>1, <2>2, <3>2, <4>3, <4>4 DEF PackInv
    <3> QED
      BY <3>3, <3>4
  <2>3. CASE /\ sUpdate # None /\ sUpdate.of = p /\ sUpdate' = None
             /\ mods' = [mods EXCEPT ![p] = sUpdate.pack] /\ UNCHANGED sPlay
    <3>1. sUpdate.pack \in 1..MaxVersion
      BY <1>0, <2>3
    <3>2. mods' \in [Profiles -> 0..MaxVersion] /\ \A q \in Profiles \ {p} : mods'[q] = mods[q]
      BY <1>0, <2>3, <3>1
    <3>3. sPlay[p].at \in {"idle", "wait"} \/ sPlay[p].blurred
      BY <2>3 DEF PackInv
    <3> QED
      BY <1>0, <2>1, <2>3, <3>2, <3>3 DEF PackInv
  <2> QED
    BY <1>15, <2>2, <2>3 DEF S!UpdateMods
<1>16. ASSUME NEW p \in Profiles, S!Publish(p)
       PROVE  /\ UNCHANGED <<sPlay, mods, sUpdate>> /\ panel' \in [Profiles -> 0..MaxVersion]
              /\ PackInv'
  <2>1. UNCHANGED <<sPlay, mods, sUpdate>> /\ panel' = [panel EXCEPT ![p] = @ + 1]
        /\ panel[p] < MaxVersion
    BY <1>16 DEF S!Publish, S!launch
  <2>2. panel' \in [Profiles -> 0..MaxVersion] /\ \A q \in Profiles : panel'[q] >= panel[q]
    BY <1>0, <2>1
  <2>3. \A q \in Profiles : sPlay[q].asked \in Nat /\ panel[q] \in Nat /\ panel'[q] \in Nat
    BY <1>0, <2>2 DEF PlayRecords
  <2> QED
    BY <2>1, <2>2, <2>3 DEF PackInv
<1> QED
  BY <1>0, <1>1, <1>2, <1>3, <1>4, <1>5, <1>6, <1>8, <1>9, <1>11, <1>12, <1>13, <1>14, <1>15,
     <1>16
  DEF S!Next

Configs == [servers : SUBSET Profiles, folder : BOOLEAN]

(* A save: what the client runs with and what is on disk stay together.    *)
LEMMA Saved ==
  ASSUME S!TypeOK, S!FileIsConfig, NEW new \in Configs, S!Update(new)
  PROVE  cfg' \in Configs /\ file' \in Configs /\ unsynced' \in BOOLEAN /\ S!FileIsConfig'
         /\ sMishaps' \in 0..MaxSessionMishaps
<1>1. cfg \in Configs /\ file \in Configs /\ unsynced \in BOOLEAN
      /\ sMishaps \in 0..MaxSessionMishaps
  BY DEF S!TypeOK, Configs
<1>2. sMishaps' \in 0..MaxSessionMishaps
  BY <1>1, FilesAssumption DEF S!Update, S!Fine, S!Mishap
<1>3. cfg' \in Configs /\ file' \in Configs /\ unsynced' \in BOOLEAN
  BY <1>1 DEF S!Update, S!store
<1>4. S!FileIsConfig'
  BY <1>1 DEF S!Update, S!store, S!FileIsConfig
<1> QED
  BY <1>2, <1>3, <1>4

LEMMA StoreStep ==
  ASSUME S!TypeOK, S!FileIsConfig, S!Next
  PROVE  /\ cfg' \in Configs /\ file' \in Configs /\ unsynced' \in BOOLEAN
         /\ form' \in {None} \cup [folder : BOOLEAN] /\ S!FileIsConfig'
         /\ sMishaps' \in 0..MaxSessionMishaps
<1>0. /\ cfg \in Configs /\ file \in Configs /\ unsynced \in BOOLEAN
      /\ form \in {None} \cup [folder : BOOLEAN] /\ sMishaps \in 0..MaxSessionMishaps
      /\ S!Default \in Configs
  BY DEF S!TypeOK, Configs, S!Default
<1> DEFINE Goal == /\ cfg' \in Configs /\ file' \in Configs /\ unsynced' \in BOOLEAN
                   /\ form' \in {None} \cup [folder : BOOLEAN] /\ S!FileIsConfig'
                   /\ sMishaps' \in 0..MaxSessionMishaps
<1>1. (S!Fine \/ S!Mishap) => sMishaps' \in 0..MaxSessionMishaps
  BY <1>0, FilesAssumption DEF S!Fine, S!Mishap
<1>2. CASE UNCHANGED S!store /\ UNCHANGED form /\ (S!Fine \/ S!Mishap)
  BY <1>0, <1>1, <1>2 DEF S!store, S!FileIsConfig
<1>3. ASSUME NEW new \in Configs, S!Update(new), form' = form \/ form' = None
      PROVE  Goal
  BY <1>0, <1>3, Saved
<1>4. ASSUME NEW c \in Configs, S!Reopen(c), S!Mishap
      PROVE  Goal
  <2>1. cfg' = c /\ file' = c /\ unsynced' = FALSE /\ form' = None
    BY <1>4 DEF S!Reopen
  <2> QED
    BY <1>1, <1>4, <2>1 DEF S!FileIsConfig
<1> HIDE DEF Goal
<1>5. ASSUME NEW p \in Profiles, NEW original \in Profiles \cup {None},
             S!SaveServer(original, p)
      PROVE  Goal
  <2>1. [cfg EXCEPT !.servers = (@ \ {original}) \cup {p}] \in Configs
    BY <1>0 DEF Configs
  <2> QED
    BY <1>3, <1>5, <2>1 DEF S!SaveServer
<1>6. ASSUME NEW p \in Profiles, S!DeleteServer(p)
      PROVE  Goal
  <2>1. [cfg EXCEPT !.servers = @ \ {p}] \in Configs
    BY <1>0 DEF Configs
  <2> QED
    BY <1>3, <1>6, <2>1 DEF S!DeleteServer
<1>7. CASE S!ReadSettings
  <2>1. UNCHANGED <<cfg, file, unsynced>> /\ form' = [folder |-> cfg.folder] /\ S!Fine
    BY <1>7 DEF S!ReadSettings, S!store
  <2>2. form' \in [folder : BOOLEAN]
    BY <1>0, <2>1 DEF Configs
  <2> QED
    BY <1>0, <1>1, <2>1, <2>2 DEF Goal, S!FileIsConfig
<1>8. CASE S!SaveSettings
  <2>1. form.folder \in BOOLEAN
    BY <1>0, <1>8 DEF S!SaveSettings, S!Idle
  <2>2. [cfg EXCEPT !.folder = form.folder] \in Configs
    BY <1>0, <2>1 DEF Configs
  <2> QED
    BY <1>3, <1>8, <2>2 DEF S!SaveSettings, Goal
<1>9. CASE S!DetectMorrowind
  <2>1. [cfg EXCEPT !.folder = TRUE] \in Configs
    BY <1>0 DEF Configs
  <2> QED
    BY <1>3, <1>9, <2>1 DEF S!DetectMorrowind, Goal
<1>10. CASE S!Restart
  BY <1>0, <1>4, <1>10 DEF S!Restart, Goal
<1>11. CASE S!Uninstall
  <2>1. S!Reopen(S!Default) \/ (UNCHANGED S!store /\ UNCHANGED form)
    BY <1>11 DEF S!Uninstall
  <2> QED
    BY <1>0, <1>2, <1>4, <1>11, <2>1 DEF S!Uninstall, Goal
<1>12. ASSUME NEW p \in Profiles,
              \/ S!Play(p) \/ S!EnsureMods(p) \/ S!Install(p) \/ S!Launch(p) \/ S!Start(p)
              \/ S!Started(p) \/ S!GameExits(p) \/ S!GameStopped(p) \/ S!UpdateMods(p)
              \/ S!Publish(p)
       PROVE  UNCHANGED S!store /\ UNCHANGED form /\ (S!Fine \/ S!Mishap)
  <2>1. CASE S!Play(p) \/ S!EnsureMods(p) \/ S!Install(p) \/ S!Launch(p)
    BY <2>1 DEF S!Play, S!EnsureMods, S!Install, S!Launch, S!Others, S!store
  <2>2. CASE S!Start(p) \/ S!Started(p) \/ S!GameExits(p) \/ S!GameStopped(p)
    BY <2>2 DEF S!Start, S!Started, S!GameExits, S!GameStopped, S!Others
  <2>3. CASE S!UpdateMods(p) \/ S!Publish(p)
    BY <2>3 DEF S!UpdateMods, S!Publish
  <2> QED
    BY <1>12, <2>1, <2>2, <2>3
<1>13. CASE S!OpenMWCS
  BY <1>2, <1>13 DEF S!OpenMWCS, Goal
<1> QED
  BY <1>2, <1>5, <1>6, <1>7, <1>8, <1>9, <1>10, <1>11, <1>12, <1>13 DEF S!Next, Goal

LEMMA GuardTypes ==
  ASSUME S!TypeOK, \/ S!Begin \/ S!Finish(FALSE) \/ S!Finish(TRUE)
                   \/ S!Reopen(file) \/ S!Reopen(S!Default)
  PROVE  guard' \in [starting : BOOLEAN, running : BOOLEAN]
<1>1. [starting |-> FALSE, running |-> FALSE] \in [starting : BOOLEAN, running : BOOLEAN]
  OBVIOUS
<1>2. [starting |-> FALSE, running |-> TRUE] \in [starting : BOOLEAN, running : BOOLEAN]
  OBVIOUS
<1>3. [guard EXCEPT !.starting = TRUE] \in [starting : BOOLEAN, running : BOOLEAN]
  BY SessionTypes
<1>4. CASE S!Begin
  BY <1>3, <1>4 DEF S!Begin
<1>5. CASE S!Finish(FALSE) \/ S!Finish(TRUE)
  BY <1>1, <1>2, <1>5 DEF S!Finish
<1>6. CASE S!Reopen(file) \/ S!Reopen(S!Default)
  BY <1>1, <1>6 DEF S!Reopen
<1> QED
  BY <1>4, <1>5, <1>6

LEMMA SlotTypes ==
  ASSUME S!TypeOK, S!Next
  PROVE  /\ guard' \in [starting : BOOLEAN, running : BOOLEAN]
         /\ editor' \in BOOLEAN /\ alive' \subseteq Profiles
<1>0. /\ guard \in [starting : BOOLEAN, running : BOOLEAN]
      /\ editor \in BOOLEAN /\ alive \subseteq Profiles
  BY SessionTypes
<1>1. CASE UNCHANGED <<guard, editor, alive>>
  BY <1>0, <1>1
<1>2. CASE S!ReadSettings \/ S!SaveSettings \/ S!DetectMorrowind
  BY <1>1, <1>2 DEF S!ReadSettings, S!SaveSettings, S!DetectMorrowind, S!launch
<1>3. CASE S!Restart \/ S!Uninstall
  <2>1. CASE UNCHANGED S!launch
    BY <1>1, <2>1 DEF S!launch
  <2>2. CASE S!Reopen(file) \/ S!Reopen(S!Default)
    BY <2>2, GuardTypes DEF S!Reopen
  <2> QED
    BY <1>3, <2>1, <2>2 DEF S!Restart, S!Uninstall
<1>4. CASE S!OpenMWCS
  <2>1. S!Begin \/ S!Finish(FALSE) => guard' \in [starting : BOOLEAN, running : BOOLEAN]
    BY GuardTypes
  <2> QED
    BY <1>0, <1>4, <2>1 DEF S!OpenMWCS
<1>5. ASSUME NEW p \in Profiles,
             \/ \E original \in Profiles \cup {None} : S!SaveServer(original, p)
             \/ S!DeleteServer(p) \/ S!Play(p) \/ S!EnsureMods(p) \/ S!Install(p)
             \/ S!UpdateMods(p) \/ S!Publish(p)
      PROVE  UNCHANGED <<guard, editor, alive>>
  BY <1>5 DEF S!SaveServer, S!DeleteServer, S!Play, S!EnsureMods, S!Install, S!UpdateMods,
              S!Publish, S!Others, S!launch
<1>6. ASSUME NEW p \in Profiles,
             S!Launch(p) \/ S!Start(p) \/ S!Started(p) \/ S!GameExits(p) \/ S!GameStopped(p)
      PROVE  /\ guard' \in [starting : BOOLEAN, running : BOOLEAN]
             /\ editor' \in BOOLEAN /\ alive' \subseteq Profiles
  <2>1. S!Begin \/ S!Finish(FALSE) \/ S!Finish(TRUE)
            => guard' \in [starting : BOOLEAN, running : BOOLEAN]
    BY GuardTypes
  <2>2. [guard EXCEPT !.running = FALSE] \in [starting : BOOLEAN, running : BOOLEAN]
    BY <1>0
  <2>3. editor' = editor
    BY <1>6 DEF S!Launch, S!Start, S!Started, S!GameExits, S!GameStopped, S!Others
  <2>4. alive' \subseteq alive \cup {p}
    BY <1>6 DEF S!Launch, S!Start, S!Started, S!GameExits, S!GameStopped
  <2>5. \/ guard' = guard \/ guard' = [guard EXCEPT !.running = FALSE]
        \/ S!Begin \/ S!Finish(FALSE) \/ S!Finish(TRUE)
    BY <1>6 DEF S!Launch, S!Start, S!Started, S!GameExits, S!GameStopped
  <2> QED
    BY <1>0, <2>1, <2>2, <2>3, <2>4, <2>5
<1> QED
  BY <1>1, <1>2, <1>3, <1>4, <1>5, <1>6 DEF S!Next

LEMMA SessionStep ==
  ASSUME SessionInv, S!Next
  PROVE  SessionInv'
<1>1. S!TypeOK'
  BY PlayStep, StoreStep, SlotTypes DEF SessionInv, S!TypeOK, Configs, PlayRecords
<1> QED
  BY <1>1, SlotStep, PlayStep, StoreStep DEF SessionInv

LEMMA SessionStutter ==
  ASSUME SessionInv, UNCHANGED sessionVars
  PROVE  SessionInv'
<1> USE DEF sessionVars
<1>1. S!TypeOK'
  BY DEF SessionInv, S!TypeOK
<1>2. SlotInv' /\ PackInv' /\ S!FileIsConfig'
  BY DEF SessionInv, SlotInv, PackInv, S!FileIsConfig, Holds, Waits
<1> QED
  BY <1>1, <1>2 DEF SessionInv

LEMMA SessionInit ==
  ASSUME S!Init
  PROVE  SessionInv
<1>1. /\ sPlay = [p \in Profiles |-> [at |-> "idle", asked |-> 0, seen |-> 0,
                                      blurred |-> FALSE]]
      /\ editor = FALSE /\ alive = {} /\ sUpdate = None /\ form = None /\ sMishaps = 0
      /\ file = cfg /\ unsynced = FALSE /\ guard = [starting |-> FALSE, running |-> FALSE]
      /\ panel = [p \in Profiles |-> 1]
  BY DEF S!Init, S!Off
<1>2. cfg \in Configs
  <2>1. [servers |-> {}, folder |-> FALSE] \in Configs
        /\ [servers |-> Profiles, folder |-> TRUE] \in Configs
    BY DEF Configs
  <2> QED
    BY <2>1 DEF S!Init, S!Default
<1>3. PICK v \in 0..1 : mods = [p \in Profiles |-> v]
  BY DEF S!Init
<1>4. mods \in [Profiles -> 0..MaxVersion] /\ panel \in [Profiles -> 0..MaxVersion]
  BY <1>1, <1>3, FilesAssumption
<1>5. sPlay \in [Profiles -> PlayRecords]
  BY <1>1, FilesAssumption DEF PlayRecords, S!Steps
<1>6. S!TypeOK
  <2>1. sMishaps \in 0..MaxSessionMishaps
    BY <1>1, FilesAssumption
  <2>2. {cfg, file} \subseteq Configs /\ {editor, unsynced} \subseteq BOOLEAN
    BY <1>1, <1>2
  <2>3. {panel, mods} \subseteq [Profiles -> 0..MaxVersion]
    BY <1>4
  <2>4. guard \in [starting : BOOLEAN, running : BOOLEAN] /\ alive \subseteq Profiles
        /\ sUpdate = None /\ form = None
    BY <1>1
  <2> QED
    BY <1>5, <2>1, <2>2, <2>3, <2>4 DEF S!TypeOK, PlayRecords, Configs
<1>7. SlotInv /\ PackInv /\ S!FileIsConfig
  BY <1>1 DEF SlotInv, PackInv, S!FileIsConfig, Holds, Waits
<1> QED
  BY <1>6, <1>7 DEF SessionInv

LEMMA SessionImplies ==
  ASSUME SessionInv
  PROVE  S!TypeOK /\ S!OneInstance /\ S!SlotComesBack /\ S!FileIsConfig /\ S!PlaysTheNewestPack
<1>1. S!OneInstance
  <2>0. S!Cardinality(alive) = Cardinality(alive)
    BY DEF S!Cardinality, Cardinality
  <2>1. \A p, q \in alive : p = q
    <3>1. \A p \in alive : p \in Profiles /\ (Waits(p) \/ Holds(p))
      BY SessionTypes DEF SessionInv, SlotInv, Holds
    <3> QED
      BY <3>1 DEF SessionInv, SlotInv
  <2>2. CASE alive = {}
    BY <2>0, <2>2, FS_EmptySet DEF S!OneInstance
  <2>3. ASSUME NEW p \in alive
        PROVE  Cardinality(alive) = 1
    <3>1. alive = {p}
      BY <2>1
    <3> QED
      BY <3>1, FS_Singleton
  <2> QED
    BY <2>0, <2>2, <2>3 DEF S!OneInstance
<1>2. S!SlotComesBack
  BY DEF SessionInv, SlotInv, S!SlotComesBack, S!Holders, Holds, Waits
<1>3. S!PlaysTheNewestPack
  BY DEF SessionInv, PackInv, S!PlaysTheNewestPack
<1> QED
  BY <1>1, <1>2, <1>3 DEF SessionInv

LEMMA SessionInvariance == FilesSpec => [](part = "session" => SessionInv)
<1>1. FilesInit => (part = "session" => SessionInv)
  BY SessionInit DEF FilesInit
<1>2. (part = "session" => SessionInv) /\ [FilesNext]_filesVars
        => (part = "session" => SessionInv)'
  BY SessionStep, SessionStutter DEF FilesNext, filesVars
<1> QED
  BY <1>1, <1>2, PTL DEF FilesSpec

(* Whatever profiles are played, however their goroutines overlap, and     *)
(* whatever is saved, deleted, updated or uninstalled meanwhile: of the    *)
(* games one client started at most one runs, the launch slot comes back,  *)
(* and config.json is what the client runs with (launch.go, session.go).   *)
THEOREM ClientSessionIsTrue == FilesSpec => []SessionIsTrue
<1>1. (part = "session" => SessionInv) => SessionIsTrue
  BY SessionImplies DEF SessionIsTrue
<1> QED
  BY <1>1, SessionInvariance, PTL

(* A game that starts without a warning has a pack at least as new as the  *)
(* panel's when Play was clicked (ui/launch.go, EnsureMods).               *)
THEOREM ClientPlaysTheNewestPack == FilesSpec => []PlaysTheNewestPack
<1>1. (part = "session" => SessionInv) => PlaysTheNewestPack
  BY SessionImplies DEF PlaysTheNewestPack
<1> QED
  BY <1>1, SessionInvariance, PTL

-----------------------------------------------------------------------------
(* ClientWindow: the wizard's task and the fonts row.                      *)
TaskTypes == [what : {"none", "search", "check", "install"},
              on : {"morrowind", "tes3mp", "fonts"} \cup {"none"}]

(* No run is of a generation yet to come.                                  *)
RunsInv == \A run \in runs : run <= generation

(* A task that runs is one of the three.                                   *)
TaskInv == W!Busy => task.what # "none"

WindowInv == W!TypeOK /\ W!AnswersItsStep /\ W!RowFollowsItsRun /\ RunsInv /\ TaskInv

WizardInv ==
  /\ {open, ready, locked, searched, setup, tes3mp} \subseteq BOOLEAN
  /\ step \in W!Steps /\ orphans \in 0..MaxOrphans
  /\ task \in TaskTypes
  /\ retry \in {"none", "search", "check", "install", "finish"}
  /\ W!AnswersItsStep /\ TaskInv

FontsInv ==
  /\ downloading \in BOOLEAN
  /\ generation \in 0..MaxRuns /\ runs \subseteq 1..MaxRuns
  /\ outcome \in {"none", "failed", "canceled"}
  /\ W!RowFollowsItsRun /\ RunsInv

LEMMA WindowParts == WindowInv <=> WizardInv /\ FontsInv
BY DEF WindowInv, WizardInv, FontsInv, W!TypeOK, W!Steps, TaskTypes

(* What a step makes of the wizard's task.                                 *)
LEMMA TaskFits ==
  ASSUME \/ task' = W!NoTask
         \/ \E what \in {"search", "check", "install"} :
              task' = [what |-> what, on |-> step'] /\ open',
         step' \in W!Steps
  PROVE  task' \in TaskTypes /\ W!AnswersItsStep' /\ TaskInv'
BY DEF TaskTypes, W!NoTask, W!AnswersItsStep, W!Busy, TaskInv, W!Steps

LEMMA TaskStays ==
  ASSUME WizardInv, UNCHANGED <<task, step>>, open => open'
  PROVE  task' \in TaskTypes /\ W!AnswersItsStep' /\ TaskInv'
BY DEF WizardInv, W!AnswersItsStep, W!Busy, TaskInv

LEMMA FontsStep ==
  ASSUME FontsInv, W!Next
  PROVE  FontsInv'
<1> USE FilesAssumption DEF FontsInv
<1>1. CASE UNCHANGED W!fonts
  BY <1>1 DEF W!fonts, W!RowFollowsItsRun, RunsInv
<1>2. CASE W!StartFonts /\ generation < MaxRuns
  <2>1. CASE ~downloading
    <3>1. /\ generation' = generation + 1 /\ downloading' = TRUE /\ outcome' = "none"
          /\ runs' = runs \cup {generation + 1}
      BY <1>2, <2>1 DEF W!StartFonts
    <3>2. generation + 1 \in 1..MaxRuns
      BY <1>2
    <3>3. W!RowFollowsItsRun' /\ RunsInv'
      BY <3>1, <3>2 DEF W!RowFollowsItsRun, RunsInv
    <3> QED
      BY <3>1, <3>2, <3>3
  <2>2. CASE downloading
    BY <1>1, <1>2, <2>2 DEF W!StartFonts
  <2> QED
    BY <2>1, <2>2
<1>3. CASE W!CancelFonts
  <2>1. /\ generation' = generation + 1 /\ downloading' = FALSE /\ outcome' = "canceled"
        /\ runs' = runs /\ generation < MaxRuns
    BY <1>3 DEF W!CancelFonts
  <2>2. generation + 1 \in 0..MaxRuns /\ \A run \in runs : run < generation + 1
    BY <2>1 DEF RunsInv
  <2>3. W!RowFollowsItsRun' /\ RunsInv'
    BY <2>1, <2>2 DEF W!RowFollowsItsRun, RunsInv
  <2> QED
    BY <2>1, <2>2, <2>3
<1>4. ASSUME NEW run \in runs, W!FontsEnd(run)
      PROVE  FontsInv'
  BY <1>4 DEF W!FontsEnd, W!RowFollowsItsRun, RunsInv
<1>5. \/ UNCHANGED W!fonts
      \/ W!StartFonts /\ generation < MaxRuns
      \/ W!CancelFonts
      \/ \E run \in runs : W!FontsEnd(run)
  BY DEF W!Next, W!OpenWizard, W!CloseWizard, W!Advance, W!Previous, W!GotoStep, W!EndTask,
         W!StartTask, W!InstallFromList, W!OrphanEnds, W!Uninstall, W!FontsRow, W!Finish,
         W!FinishFails
<1> QED
  BY <1>1, <1>2, <1>3, <1>4, <1>5

LEMMA EnteredStep ==
  ASSUME WizardInv, ~W!Busy, NEW to \in W!Steps, W!GotoStep(to), open
  PROVE  WizardInv'
<1>1. step' = to /\ retry' = "none" /\ UNCHANGED <<open, ready, locked, setup, tes3mp, orphans>>
  BY DEF W!GotoStep, W!disk
<1>2. task = [what |-> "none", on |-> "none"]
  BY DEF W!Busy, W!NoTask
<1>3. \/ UNCHANGED task
      \/ \E what \in {"search", "check"} : task' = [what |-> what, on |-> to]
  BY <1>1 DEF W!GotoStep, W!EnterStep, W!BeginBusy, W!Busy, W!Steps
<1>4. searched' \in BOOLEAN
  BY <1>1 DEF W!GotoStep, W!EnterStep, W!Steps, WizardInv
<1>5. task' \in TaskTypes /\ W!AnswersItsStep' /\ TaskInv'
  BY <1>1, <1>2, <1>3, TaskFits DEF W!NoTask
<1> QED
  BY <1>1, <1>4, <1>5 DEF WizardInv

LEMMA WizardStep ==
  ASSUME WizardInv, W!Next
  PROVE  WizardInv'
<1> USE FilesAssumption
<1>0. task = W!NoTask \/ task.what \in {"search", "check", "install"}
  BY DEF WizardInv, TaskTypes, TaskInv, W!Busy
<1>1. CASE UNCHANGED <<W!wizard, W!disk>>
  BY <1>1, TaskStays DEF WizardInv, W!wizard, W!disk
<1>2. CASE W!OpenWizard
  <2>1. step' \in {"morrowind", "tes3mp"} /\ open' = TRUE
        /\ \E what \in {"search", "check"} : task' = [what |-> what, on |-> step']
    BY <1>2 DEF W!OpenWizard
  <2>2. task' \in TaskTypes /\ W!AnswersItsStep' /\ TaskInv'
    BY <2>1, TaskFits DEF W!Steps
  <2>3. searched' \in BOOLEAN /\ ready' = FALSE /\ locked' = FALSE /\ retry' = "none"
        /\ UNCHANGED <<setup, tes3mp, orphans>>
    BY <1>2 DEF W!OpenWizard, W!disk
  <2> QED
    BY <2>1, <2>2, <2>3 DEF WizardInv, W!Steps
<1>3. CASE W!CloseWizard
  <2>1. task' \in TaskTypes /\ W!AnswersItsStep' /\ TaskInv'
    BY <1>3, TaskFits DEF W!CloseWizard, WizardInv
  <2>2. orphans' \in 0..MaxOrphans
    BY <1>3 DEF W!CloseWizard, WizardInv
  <2> QED
    BY <1>3, <2>1, <2>2 DEF W!CloseWizard, WizardInv
<1>4. CASE W!Advance
  BY <1>4, EnteredStep DEF W!Advance, W!MayAct, W!Steps
<1>5. CASE W!Previous
  BY <1>5, EnteredStep DEF W!Previous, W!MayAct, W!Steps
<1>6. CASE W!EndTask
  <2>1. UNCHANGED <<open, step, searched, setup, orphans>>
    BY <1>6 DEF W!EndTask
  <2>2. task' \in TaskTypes /\ W!AnswersItsStep' /\ TaskInv'
    BY <1>6, <2>1, TaskFits DEF W!EndTask, WizardInv
  <2>3. /\ {ready', locked', tes3mp'} \subseteq BOOLEAN
        /\ retry' \in {"none", "search", "check", "install", "finish"}
    BY <1>0, <1>6 DEF W!EndTask, W!Busy, WizardInv
  <2> QED
    BY <2>1, <2>2, <2>3 DEF WizardInv
<1>7. ASSUME NEW what \in {"search", "check", "install"}, W!StartTask(what)
      PROVE  WizardInv'
  <2>1. /\ open /\ UNCHANGED <<open, step, ready, locked, searched, setup, tes3mp, orphans>>
        /\ retry' \in {"none", retry}
        /\ task' = task \/ task' = [what |-> what, on |-> step']
    BY <1>7 DEF W!StartTask, W!BeginBusy, W!disk
  <2>2. task' \in TaskTypes /\ W!AnswersItsStep' /\ TaskInv'
    BY <2>1, TaskFits, TaskStays DEF WizardInv
  <2> QED
    BY <2>1, <2>2 DEF WizardInv
<1>8. CASE W!InstallFromList \/ W!OrphanEnds \/ W!Uninstall
  <2>1. UNCHANGED <<open, step, task, ready, locked, searched, retry, setup>>
        /\ tes3mp' \in {tes3mp, TRUE, FALSE}
    BY <1>8 DEF W!InstallFromList, W!OrphanEnds, W!Uninstall, W!wizard
  <2>2. orphans' \in 0..MaxOrphans
    <3>1. \/ orphans' = orphans
          \/ orphans < MaxOrphans /\ orphans' = orphans + 1
          \/ orphans > 0 /\ orphans' = orphans - 1
      <4>1. CASE W!InstallFromList
        BY <4>1 DEF W!InstallFromList
      <4>2. CASE W!OrphanEnds
        BY <4>2 DEF W!OrphanEnds
      <4>3. CASE W!Uninstall
        BY <4>3 DEF W!Uninstall
      <4> QED
        BY <1>8, <4>1, <4>2, <4>3
    <3>2. orphans \in 0..MaxOrphans
      BY DEF WizardInv
    <3> QED
      BY <3>1, <3>2
  <2> QED
    BY <2>1, <2>2, TaskStays DEF WizardInv
<1>9. CASE W!Finish
  <2>1. task = W!NoTask /\ step = "fonts"
    BY <1>9 DEF W!Finish, W!MayAct, W!Busy
  <2>2. task' \in TaskTypes /\ W!AnswersItsStep' /\ TaskInv'
    BY <1>9, <2>1, TaskFits DEF W!Finish, W!Steps
  <2> QED
    BY <1>9, <2>2 DEF W!Finish, WizardInv
<1>10. CASE W!FinishFails
  BY <1>10, TaskStays DEF W!FinishFails, W!disk, WizardInv
<1>11. CASE W!FontsRow \/ W!CancelFonts \/ \E run \in runs : W!FontsEnd(run)
  BY <1>1, <1>11 DEF W!FontsRow, W!CancelFonts, W!FontsEnd
<1> QED
  BY <1>2, <1>3, <1>4, <1>5, <1>6, <1>7, <1>8, <1>9, <1>10, <1>11 DEF W!Next

LEMMA WindowInit ==
  ASSUME W!Init
  PROVE  WindowInv
<1>1. task \in TaskTypes /\ task = W!NoTask
  BY DEF W!Init, W!NoTask, TaskTypes
<1>2. WizardInv
  <2>1. 0 \in 0..MaxOrphans /\ step = "morrowind" /\ retry = "none" /\ orphans = 0
    BY FilesAssumption DEF W!Init
  <2>2. {open, ready, locked, searched, setup, tes3mp} \subseteq BOOLEAN
    BY DEF W!Init
  <2>3. W!AnswersItsStep /\ TaskInv
    BY <1>1 DEF W!AnswersItsStep, TaskInv, W!Busy
  <2> QED
    BY <1>1, <2>1, <2>2, <2>3 DEF WizardInv, W!Steps
<1>3. FontsInv
  <2>1. generation = 0 /\ downloading = FALSE /\ outcome = "none" /\ runs = {}
    BY DEF W!Init
  <2> QED
    <3>1. generation \in 0..MaxRuns /\ runs \subseteq 1..MaxRuns
      BY <2>1, FilesAssumption
    <3>2. W!RowFollowsItsRun /\ RunsInv
      BY <2>1 DEF W!RowFollowsItsRun, RunsInv
    <3> QED
      BY <2>1, <3>1, <3>2 DEF FontsInv
<1> QED
  BY <1>2, <1>3, WindowParts

LEMMA WindowStutter ==
  ASSUME WindowInv, UNCHANGED windowVars
  PROVE  WindowInv'
BY DEF windowVars, WindowInv, W!TypeOK, W!AnswersItsStep, W!Busy, W!RowFollowsItsRun, RunsInv,
       TaskInv

(* Whatever the user opens, closes, retries or cancels and in whatever     *)
(* order the work behind the window ends: a task answers the step it was   *)
(* started from, and the fonts row says "downloading" exactly while the    *)
(* run of the present generation goes on (wizard.go, font_download.go).    *)
THEOREM ClientWindowIsTrue == FilesSpec => []WindowIsTrue
<1> DEFINE Inv == part = "window" => WindowInv
<1>1. FilesInit => Inv
  BY WindowInit DEF FilesInit
<1>2. Inv /\ [FilesNext]_filesVars => Inv'
  <2>1. ASSUME WindowInv, W!Next
        PROVE  WindowInv'
    <3>1. WizardInv' /\ FontsInv'
      BY <2>1, WindowParts, WizardStep, FontsStep
    <3>2. (WindowInv <=> WizardInv /\ FontsInv)'
      BY WindowParts, PTL
    <3> QED
      BY <3>1, <3>2
  <2> QED
    BY <2>1, WindowStutter DEF FilesNext, filesVars
<1>3. Inv => WindowIsTrue
  BY DEF WindowIsTrue, WindowInv
<1> QED
  BY <1>1, <1>2, <1>3, PTL DEF FilesSpec

-----------------------------------------------------------------------------
(* ClientInstall: TES3MP, whose two installs may race, and the language,   *)
(* which has one writer.                                                   *)
UIs == {fromWizard, fromRow}

(* Only TES3MP installs overlap, and nothing runs beside a removal.        *)
TurnInv ==
  /\ ~overlapped => \A i, j \in UIs : iPc[i] # "idle" /\ iPc[j] # "idle" => i = j
  /\ kind = "locale" => ~overlapped
  /\ removing # "no" => kind = "locale" /\ \A i \in UIs : iPc[i] = "idle"
  /\ removing = "rest" => dir = I!NoTree /\ ~had

(* An archive that is unpacked is the pinned one.                          *)
CacheInv ==
  /\ served = "other" => cache # "good"
  /\ \A i \in UIs :
       /\ iPc[i] \in {"verify", "stage"} => kind = "tes3mp"
       /\ iPc[i] \in {"stage", "build"} /\ kind = "tes3mp" => served = "good" /\ cache # "other"
       /\ iPc[i] = "build" /\ kind = "locale" => cache = "good"

(* What an install swaps in is complete and marked as what it is.          *)
StagingInv ==
  \A i \in UIs :
    /\ iPc[i] # "idle" => iWant[i] \in I!AllGoals
    /\ iPc[i] = "mark" =>
         staging[I!Slot(i)] \in I!Trees /\ staging[I!Slot(i)].whole
    /\ iPc[i] \in {"look", "dropStale", "aside", "activate"} =>
         staging[I!Slot(i)] \in I!Trees /\ I!Whole(staging[I!Slot(i)])

(* One install at a time: a copy is only torn once there is another.       *)
AloneInv ==
  ~overlapped /\ ~cut /\ removing = "no" =>
    /\ dir = I!NoTree \/ I!Whole(dir)
    /\ dir = I!NoTree => old = I!NoTree \/ I!Whole(old)
    /\ had => dir # I!NoTree \/ old # I!NoTree
    /\ \A i \in UIs : iPc[i] \in {"dropStale", "cleanup"} => dir # I!NoTree

(* Two that race: while there is nothing in place one of them is about to  *)
(* put something there, and only the other can have torn what is aside.    *)
RaceInv ==
  iMishaps = 0 /\ kind = "tes3mp" =>
    /\ dir = I!NoTree \/ I!Whole(dir)
    /\ dir = I!NoTree /\ (had \/ old # I!NoTree) => \E i \in UIs : iPc[i] = "activate"
    /\ dir = I!NoTree /\ old # I!NoTree =>
         I!Whole(old) \/ \E i \in UIs : iPc[i] \in {"dropStale", "cleanup"}

KeptInv ==
  I!TypeOK /\ TurnInv /\ CacheInv /\ StagingInv /\ AloneInv /\ RaceInv

AnyTree == I!Trees \cup {I!NoTree}

LEMMA InstallTypes ==
  I!TypeOK <=>
    /\ kind \in {"tes3mp", "locale"} /\ pinned \in {"v1", "v2"}
    /\ dir \in AnyTree /\ old \in AnyTree /\ staging \in [UIs -> AnyTree]
    /\ served \in {"good", "other"} /\ cache \in {"absent", "good", "other", "junk"}
    /\ iPc \in [UIs -> I!Steps] /\ iWant \in [UIs -> I!AllGoals \cup {"none"}]
    /\ tries \in [UIs -> 0..2] /\ hasOld \in [UIs -> BOOLEAN]
    /\ iResult \in [UIs -> {"none", "ok", "skipped", "error"}]
    /\ removing \in {"no", "dir", "rest"}
    /\ had \in BOOLEAN /\ overlapped \in BOOLEAN /\ cut \in BOOLEAN
    /\ iMishaps \in 0..MaxInstallMishaps
<1>1. I!Goals("tes3mp") = {"v1", "v2"}
  BY DEF I!Goals
<1> QED
  BY <1>1 DEF I!TypeOK, UIs, AnyTree

(* Trees: what is torn, marked or put away is a tree or nothing.           *)
LEMMA TreeFacts ==
  /\ I!NoTree \in AnyTree /\ ~I!NoTree.whole /\ I!NoTree.mark = "none" /\ I!NoTree \notin I!Trees
  /\ \A tree \in AnyTree : I!Whole(tree) => tree \in I!Trees /\ tree # I!NoTree
  /\ \A tree \in AnyTree : tree.mark # "none" => tree # I!NoTree
  /\ \A tree \in AnyTree : tree = I!NoTree \/ tree \in I!Trees
<1>1. \A goal \in I!AllGoals : goal # "none"
  BY DEF I!AllGoals, I!Goals
<1>2. I!NoTree \notin I!Trees
  BY <1>1 DEF I!NoTree, I!Trees
<1> QED
  BY <1>2 DEF AnyTree, I!NoTree, I!Whole

LEMMA TornTrees ==
  ASSUME NEW tree \in AnyTree, NEW torn \in I!Torn(tree)
  PROVE  torn \in AnyTree /\ ~torn.whole /\ (tree \in I!Trees => torn \in I!Trees)
<1>1. PICK m \in {tree.mark, "none"} : torn = [tree EXCEPT !.whole = FALSE, !.mark = m]
  BY DEF I!Torn
<1>2. CASE tree \in I!Trees
  <2>1. torn \in I!Trees /\ ~torn.whole
    BY <1>1, <1>2 DEF I!Trees
  <2> QED
    BY <1>2, <2>1 DEF AnyTree
<1>3. CASE tree = I!NoTree
  <2>1. torn = [of |-> "none", whole |-> FALSE, mark |-> "none"]
    BY <1>1, <1>3 DEF I!NoTree
  <2> QED
    BY <1>3, <2>1, TreeFacts DEF I!NoTree, AnyTree
<1> QED
  BY <1>2, <1>3 DEF AnyTree

LEMMA Slots ==
  /\ UIs # {}
  /\ \A i \in UIs : I!Slot(i) \in UIs
  /\ kind = "tes3mp" => \A i \in UIs : I!Slot(i) = i
<1>1. \E s \in {fromWizard, fromRow} : TRUE
  OBVIOUS
<1>2. (CHOOSE s \in {fromWizard, fromRow} : TRUE) \in {fromWizard, fromRow}
  BY <1>1
<1> QED
  BY <1>1, <1>2 DEF I!Slot, UIs

Replies == {"none", "ok", "skipped", "error"}

LEMMA Going ==
  ASSUME I!TypeOK, NEW i \in UIs
  PROVE  /\ \A to \in I!Steps : I!Goto(i, to) =>
              /\ iPc' \in [UIs -> I!Steps] /\ iPc'[i] = to
              /\ \A j \in UIs \ {i} : iPc'[j] = iPc[j]
         /\ \A reply \in Replies : I!Answer(i, reply) =>
              /\ iPc' \in [UIs -> I!Steps] /\ iPc'[i] = "idle"
              /\ \A j \in UIs \ {i} : iPc'[j] = iPc[j]
              /\ iResult' \in [UIs -> Replies]
         /\ I!Fail(i) =>
              /\ iPc' \in [UIs -> I!Steps] /\ iPc'[i] = "idle"
              /\ \A j \in UIs \ {i} : iPc'[j] = iPc[j]
              /\ iResult' \in [UIs -> Replies]
              /\ staging' \in [UIs -> AnyTree]
              /\ \A s \in UIs \ {I!Slot(i)} : staging'[s] = staging[s]
<1> USE InstallTypes
<1>1. \A to \in I!Steps : I!Goto(i, to) =>
        /\ iPc' \in [UIs -> I!Steps] /\ iPc'[i] = to
        /\ \A j \in UIs \ {i} : iPc'[j] = iPc[j]
  BY DEF I!Goto
<1>2. "idle" \in I!Steps /\ "error" \in Replies
  BY DEF I!Steps, Replies
<1>3. \A reply \in Replies : I!Answer(i, reply) => I!Goto(i, "idle") /\ iResult' \in [UIs -> Replies]
  BY DEF I!Answer, Replies
<1>4. I!Fail(i) => I!Answer(i, "error") /\ staging' = [staging EXCEPT ![I!Slot(i)] = I!NoTree]
  BY DEF I!Fail
<1>5. I!Fail(i) => /\ staging' \in [UIs -> AnyTree]
                   /\ \A s \in UIs \ {I!Slot(i)} : staging'[s] = staging[s]
  BY <1>4, Slots, TreeFacts
<1> QED
  BY <1>1, <1>2, <1>3, <1>4, <1>5

(* Where an install goes from where it stands; only it moves.              *)
Destinations(from) ==
  CASE from = "idle"      -> {"idle", "clear", "check"}
    [] from = "clear"     -> {"check", "idle"}
    [] from = "check"     -> {"download", "build", "verify", "idle"}
    [] from = "download"  -> {"download", "build", "verify", "idle"}
    [] from = "verify"    -> {"stage", "idle"}
    [] from = "stage"     -> {"build", "idle"}
    [] from = "build"     -> {"mark", "idle"}
    [] from = "mark"      -> {"look", "idle"}
    [] from = "look"      -> {"dropStale", "activate", "idle"}
    [] from = "dropStale" -> {"dropStale", "aside", "idle"}
    [] from = "aside"     -> {"activate", "idle"}
    [] from = "activate"  -> {"cleanup", "inspect", "restore", "idle"}
    [] from = "restore"   -> {"idle"}
    [] from = "cleanup"   -> {"cleanup", "inspect"}
    [] from = "inspect"   -> {"idle"}

LEMMA StepsOfInstall ==
  I!Steps = {"idle", "clear", "check", "download", "verify", "stage", "build", "mark", "look",
             "dropStale", "aside", "activate", "restore", "cleanup", "inspect"}
BY DEF I!Steps

(* Where an install stands says which of its steps it takes.               *)
LEMMA StepAt ==
  ASSUME NEW i \in UIs, I!Begin(i) \/ I!Step(i)
  PROVE  /\ iPc[i] = "idle" => I!Begin(i)
         /\ iPc[i] = "clear" => I!ClearStaging(i)
         /\ iPc[i] = "check" => I!CheckCache(i)
         /\ iPc[i] = "download" => I!Download(i)
         /\ iPc[i] = "verify" => I!Verify(i)
         /\ iPc[i] = "stage" => I!MakeStaging(i)
         /\ iPc[i] = "build" => I!Build(i)
         /\ iPc[i] = "mark" => I!Mark(i)
         /\ iPc[i] = "look" => I!Look(i)
         /\ iPc[i] = "dropStale" => I!DropStale(i)
         /\ iPc[i] = "aside" => I!Aside(i)
         /\ iPc[i] = "activate" => I!Activate(i)
         /\ iPc[i] = "restore" => I!Restore(i)
         /\ iPc[i] = "cleanup" => I!Cleanup(i)
         /\ iPc[i] = "inspect" => I!InspectInstalled(i)
<1>1. I!Begin(i) => iPc[i] = "idle"
  BY DEF I!Begin
<1>2. I!ClearStaging(i) => iPc[i] = "clear"
  BY DEF I!ClearStaging
<1>3. I!CheckCache(i) => iPc[i] = "check"
  BY DEF I!CheckCache
<1>4. I!Download(i) => iPc[i] = "download"
  BY DEF I!Download
<1>5. I!Verify(i) => iPc[i] = "verify"
  BY DEF I!Verify
<1>6. I!MakeStaging(i) => iPc[i] = "stage"
  BY DEF I!MakeStaging
<1>7. I!Build(i) => iPc[i] = "build"
  BY DEF I!Build
<1>8. I!Mark(i) => iPc[i] = "mark"
  BY DEF I!Mark
<1>9. I!Look(i) => iPc[i] = "look"
  BY DEF I!Look
<1>10. I!DropStale(i) => iPc[i] = "dropStale"
  BY DEF I!DropStale
<1>11. I!Aside(i) => iPc[i] = "aside"
  BY DEF I!Aside
<1>12. I!Activate(i) => iPc[i] = "activate"
  BY DEF I!Activate
<1>13. I!Restore(i) => iPc[i] = "restore"
  BY DEF I!Restore
<1>14. I!Cleanup(i) => iPc[i] = "cleanup"
  BY DEF I!Cleanup
<1>15. I!InspectInstalled(i) => iPc[i] = "inspect"
  BY DEF I!InspectInstalled
<1> QED
  BY <1>1, <1>2, <1>3, <1>4, <1>5, <1>6, <1>7, <1>8, <1>9, <1>10, <1>11, <1>12, <1>13, <1>14,
     <1>15
  DEF I!Step

LEMMA OnlyMoves ==
  ASSUME I!TypeOK, NEW i \in UIs, I!Begin(i) \/ I!Step(i)
  PROVE  /\ iPc' \in [UIs -> I!Steps] /\ iPc'[i] \in Destinations(iPc[i])
         /\ \A j \in UIs \ {i} : iPc'[j] = iPc[j]
         /\ iResult' \in [UIs -> Replies]
         /\ UNCHANGED <<kind, pinned, served, removing, cut>>
         /\ removing = "no" \/ iPc[i] # "idle"
<1> USE InstallTypes, StepsOfInstall, Going
<1> USE DEF Destinations, Replies, I!Quietly, I!Fixed, I!past
<1>1. CASE I!Begin(i)
  BY <1>1 DEF I!Begin
<1>2. CASE I!ClearStaging(i)
  BY <1>2 DEF I!ClearStaging
<1>3. CASE I!CheckCache(i)
  BY <1>3 DEF I!CheckCache
<1>4. CASE I!Download(i)
  <2>1. CASE I!Receive(i)
    BY <1>4, <2>1 DEF I!Download, I!Receive
  <2>2. CASE I!Retry(i)
    BY <1>4, <2>2 DEF I!Download, I!Retry
  <2>3. CASE I!Fail(i)
    BY <1>4, <2>3 DEF I!Download
  <2> QED
    BY <1>4, <2>1, <2>2, <2>3 DEF I!Download
<1>5. CASE I!Verify(i)
  BY <1>5 DEF I!Verify
<1>6. CASE I!MakeStaging(i)
  BY <1>6 DEF I!MakeStaging
<1>7. CASE I!Build(i)
  BY <1>7 DEF I!Build
<1>8. CASE I!Mark(i)
  BY <1>8 DEF I!Mark
<1>9. CASE I!Look(i)
  BY <1>9 DEF I!Look
<1>10. CASE I!DropStale(i)
  BY <1>10 DEF I!DropStale, I!RemovesOld
<1>11. CASE I!Aside(i)
  BY <1>11 DEF I!Aside
<1>12. CASE I!Activate(i)
  BY <1>12 DEF I!Activate
<1>13. CASE I!Restore(i)
  BY <1>13 DEF I!Restore
<1>14. CASE I!Cleanup(i)
  BY <1>14 DEF I!Cleanup, I!RemovesOld
<1>15. CASE I!InspectInstalled(i)
  BY <1>15 DEF I!InspectInstalled
<1> QED
  BY <1>1, <1>2, <1>3, <1>4, <1>5, <1>6, <1>7, <1>8, <1>9, <1>10, <1>11, <1>12, <1>13, <1>14,
     <1>15
  DEF I!Step

(* What an install may do to the trees, the cache and its own notes.       *)
LEMMA DisksStay ==
  ASSUME I!TypeOK, StagingInv, NEW i \in UIs, I!Begin(i) \/ I!Step(i)
  PROVE  /\ dir' \in AnyTree /\ old' \in AnyTree /\ staging' \in [UIs -> AnyTree]
         /\ cache' \in {"absent", "good", "other", "junk"}
         /\ iWant' \in [UIs -> I!AllGoals \cup {"none"}]
         /\ tries' \in [UIs -> 0..2] /\ hasOld' \in [UIs -> BOOLEAN]
         /\ had' \in BOOLEAN /\ overlapped' \in BOOLEAN
         /\ \A s \in UIs \ {I!Slot(i)} : staging'[s] = staging[s]
<1> USE InstallTypes
<1> USE DEF I!Quietly, I!Fixed, I!past, I!disks
<1>a. /\ I!Slot(i) \in UIs /\ staging[I!Slot(i)] \in AnyTree /\ I!NoTree \in AnyTree
  BY Slots, TreeFacts
<1>b. \A tree \in AnyTree : staging' = [staging EXCEPT ![I!Slot(i)] = tree] =>
        /\ staging' \in [UIs -> AnyTree]
        /\ \A s \in UIs \ {I!Slot(i)} : staging'[s] = staging[s]
  BY <1>a
<1>c. UNCHANGED staging =>
        /\ staging' \in [UIs -> AnyTree]
        /\ \A s \in UIs \ {I!Slot(i)} : staging'[s] = staging[s]
  OBVIOUS
<1>d. I!Fail(i) =>
        /\ staging' \in [UIs -> AnyTree]
        /\ \A s \in UIs \ {I!Slot(i)} : staging'[s] = staging[s]
  BY Going
<1>1. CASE I!Begin(i)
  <2>1. \E g \in I!AllGoals : iWant' = [iWant EXCEPT ![i] = g]
    BY <1>1 DEF I!Begin, I!AllGoals, I!Goals
  <2> QED
    BY <1>1, <1>c, <2>1 DEF I!Begin
<1>2. CASE I!ClearStaging(i)
  BY <1>2, <1>a, <1>b DEF I!ClearStaging
<1>3. CASE I!CheckCache(i)
  <2>1. tries' \in [UIs -> 0..2]
    BY <1>3 DEF I!CheckCache
  <2>2. cache' \in {cache, "good", "absent"}
    BY <1>3 DEF I!CheckCache
  <2> QED
    BY <1>3, <1>c, <1>d, <2>1, <2>2 DEF I!CheckCache
<1>4. CASE I!Download(i)
  <2>1. UNCHANGED <<dir, old, hasOld, iWant, had, overlapped>>
    BY <1>4 DEF I!Download
  <2>2. CASE I!Receive(i)
    BY <1>c, <2>1, <2>2 DEF I!Receive, I!ArrivesVerified, I!ArrivesUnverified
  <2>3. CASE I!Retry(i)
    BY <1>c, <2>1, <2>3 DEF I!Retry
  <2>4. CASE I!Fail(i) /\ UNCHANGED <<tries, cache>>
    BY <1>d, <2>1, <2>4
  <2> QED
    BY <1>4, <2>2, <2>3, <2>4 DEF I!Download
<1>5. CASE I!Verify(i)
  BY <1>5, <1>c, <1>d DEF I!Verify
<1>6. CASE I!MakeStaging(i)
  BY <1>6, <1>c DEF I!MakeStaging
<1>7. CASE I!Build(i)
  <2>1. UNCHANGED <<dir, old, cache, tries, hasOld, iWant, had, overlapped>>
    BY <1>7 DEF I!Build
  <2>2. CASE I!Fail(i)
    BY <1>d, <2>1, <2>2
  <2>3. ASSUME NEW g \in {iWant[i]} \cup (IF kind = "locale" THEN {"text"} ELSE {}),
               staging' = [staging EXCEPT ![I!Slot(i)] =
                             [of |-> g, whole |-> cache = "good", mark |-> "none"]]
        PROVE  \E tree \in AnyTree : staging' = [staging EXCEPT ![I!Slot(i)] = tree]
    <3>1. g \in I!AllGoals
      BY <1>7 DEF I!Build, StagingInv, I!AllGoals, I!Goals
    <3>2. [of |-> g, whole |-> cache = "good", mark |-> "none"] \in I!Trees
      <4>1. CASE cache = "good"
        <5>1. [of |-> g, whole |-> cache = "good", mark |-> "none"]
                = [of |-> g, whole |-> TRUE, mark |-> "none"]
          BY <4>1
        <5> QED
          BY <3>1, <5>1 DEF I!Trees
      <4>2. CASE cache # "good"
        <5>1. [of |-> g, whole |-> cache = "good", mark |-> "none"]
                = [of |-> g, whole |-> FALSE, mark |-> "none"]
          BY <4>2
        <5> QED
          BY <3>1, <5>1 DEF I!Trees
      <4> QED
        BY <4>1, <4>2
    <3> QED
      BY <2>3, <3>2 DEF AnyTree
  <2> QED
    BY <1>7, <1>b, <2>1, <2>2, <2>3 DEF I!Build
<1>8. CASE I!Mark(i)
  <2>1. UNCHANGED <<dir, old, cache, tries, hasOld, iWant, had, overlapped>>
    BY <1>8 DEF I!Mark
  <2>2. CASE staging' = [staging EXCEPT ![I!Slot(i)].mark = staging[I!Slot(i)].of]
    <3>1. staging[I!Slot(i)] \in I!Trees
      BY <1>8 DEF I!Mark, StagingInv
    <3>2. [staging[I!Slot(i)] EXCEPT !.mark = staging[I!Slot(i)].of] \in AnyTree
      BY <3>1 DEF I!Trees, AnyTree
    <3>3. staging' = [staging EXCEPT ![I!Slot(i)] =
                        [staging[I!Slot(i)] EXCEPT !.mark = staging[I!Slot(i)].of]]
      BY <1>a, <2>2
    <3> QED
      BY <1>b, <2>1, <3>2, <3>3
  <2> QED
    BY <1>8, <1>d, <2>1, <2>2 DEF I!Mark
<1>9. CASE I!Look(i)
  <2>1. dir' \in {dir, old} /\ old' \in {old, I!NoTree}
    BY <1>9 DEF I!Look
  <2>2. hasOld' \in [UIs -> BOOLEAN]
    BY <1>9 DEF I!Look
  <2> QED
    BY <1>9, <1>a, <1>c, <1>d, <2>1, <2>2 DEF I!Look
<1>10. CASE I!DropStale(i)
  <2>1. old' \in AnyTree
    BY <1>10, <1>a, TornTrees DEF I!DropStale, I!RemovesOld
  <2> QED
    BY <1>10, <1>c, <1>d, <2>1 DEF I!DropStale
<1>11. CASE I!Aside(i)
  BY <1>11, <1>a, <1>c, <1>d DEF I!Aside
<1>12. CASE I!Activate(i)
  <2>1. dir' \in {dir, staging[I!Slot(i)]} /\ had' \in {had, TRUE}
        /\ UNCHANGED <<old, cache, iWant, tries, hasOld, overlapped>>
    BY <1>12 DEF I!Activate
  <2>2. \/ staging' = [staging EXCEPT ![I!Slot(i)] = I!NoTree] \/ UNCHANGED staging \/ I!Fail(i)
    BY <1>12 DEF I!Activate
  <2> QED
    BY <1>a, <1>b, <1>c, <1>d, <2>1, <2>2
<1>13. CASE I!Restore(i)
  BY <1>13, <1>a, <1>d DEF I!Restore
<1>14. CASE I!Cleanup(i)
  <2>1. old' \in AnyTree
    BY <1>14, <1>a, TornTrees DEF I!Cleanup, I!RemovesOld
  <2> QED
    BY <1>14, <1>c, <2>1 DEF I!Cleanup
<1>15. CASE I!InspectInstalled(i)
  BY <1>15, <1>c DEF I!InspectInstalled
<1> QED
  BY <1>1, <1>2, <1>3, <1>4, <1>5, <1>6, <1>7, <1>8, <1>9, <1>10, <1>11, <1>12, <1>13, <1>14,
     <1>15
  DEF I!Step

LEMMA FewMishaps ==
  ASSUME I!TypeOK, I!Next
  PROVE  iMishaps' \in 0..MaxInstallMishaps /\ (iMishaps' = 0 => iMishaps = 0)
<1>1. iMishaps' = iMishaps \/ I!Mishap
  <2> USE DEF I!NoMishap
  <2>1. ASSUME NEW i \in UIs, I!Begin(i) \/ I!ClearStaging(i) \/ I!CheckCache(i) \/ I!Download(i)
                 \/ I!Verify(i) \/ I!MakeStaging(i) \/ I!Build(i) \/ I!Mark(i)
        PROVE  iMishaps' = iMishaps \/ I!Mishap
    BY <2>1 DEF I!Begin, I!ClearStaging, I!CheckCache, I!Download, I!Verify, I!MakeStaging,
                I!Build, I!Mark
  <2>2. ASSUME NEW i \in UIs, I!Look(i) \/ I!DropStale(i) \/ I!Aside(i) \/ I!Activate(i)
                 \/ I!Restore(i) \/ I!Cleanup(i) \/ I!InspectInstalled(i)
        PROVE  iMishaps' = iMishaps \/ I!Mishap
    BY <2>2 DEF I!Look, I!DropStale, I!Aside, I!Activate, I!Restore, I!Cleanup,
                I!InspectInstalled
  <2>3. CASE I!Remove \/ I!Crash \/ I!Upgrade
    BY <2>3 DEF I!Remove, I!BeginRemove, I!RemoveDir, I!RemoveRest, I!RemoveFails, I!Crash,
                I!Upgrade
  <2> QED
    BY <2>1, <2>2, <2>3 DEF I!Next, I!Step, UIs
<1> QED
  BY <1>1, InstallTypes, FilesAssumption DEF I!Mishap

LEMMA KeptTypes ==
  ASSUME I!TypeOK, StagingInv, I!Next
  PROVE  I!TypeOK'
<1>1. ASSUME NEW i \in UIs, I!Begin(i) \/ I!Step(i)
      PROVE  I!TypeOK'
  <2>1. /\ removing \in {"no", "dir", "rest"} /\ cut \in BOOLEAN
        /\ kind \in {"tes3mp", "locale"} /\ pinned \in {"v1", "v2"} /\ served \in {"good", "other"}
    BY InstallTypes
  <2>2. (I!TypeOK <=>
           /\ kind \in {"tes3mp", "locale"} /\ pinned \in {"v1", "v2"}
           /\ dir \in AnyTree /\ old \in AnyTree /\ staging \in [UIs -> AnyTree]
           /\ served \in {"good", "other"} /\ cache \in {"absent", "good", "other", "junk"}
           /\ iPc \in [UIs -> I!Steps] /\ iWant \in [UIs -> I!AllGoals \cup {"none"}]
           /\ tries \in [UIs -> 0..2] /\ hasOld \in [UIs -> BOOLEAN]
           /\ iResult \in [UIs -> {"none", "ok", "skipped", "error"}]
           /\ removing \in {"no", "dir", "rest"}
           /\ had \in BOOLEAN /\ overlapped \in BOOLEAN /\ cut \in BOOLEAN
           /\ iMishaps \in 0..MaxInstallMishaps)'
    BY InstallTypes, PTL
  <2>3. iMishaps' \in 0..MaxInstallMishaps
    BY FewMishaps
  <2> QED
    BY <1>1, <2>1, <2>2, <2>3, OnlyMoves, DisksStay DEF Replies
<1>2. CASE I!Remove \/ I!Crash \/ I!Upgrade
  <2> USE InstallTypes
  <2>1. iMishaps' \in 0..MaxInstallMishaps
    BY FewMishaps
  <2>2. CASE I!Upgrade
    BY <2>1, <2>2 DEF I!Upgrade, I!disks, I!local, I!past, I!TypeOK, I!Goals
  <2>3. CASE I!Crash
    <3>1. "idle" \in I!Steps /\ I!NoTree \in AnyTree
      BY TreeFacts DEF I!Steps
    <3>2. /\ iPc' = [i \in UIs |-> "idle"] /\ iResult' = [i \in UIs |-> "none"]
          /\ removing' = "no" /\ cut' \in BOOLEAN
          /\ UNCHANGED <<kind, pinned, served, dir, old, cache, iWant, tries, hasOld, had,
                         overlapped>>
          /\ staging' = staging \/ staging' = [i \in UIs |-> I!NoTree]
      BY <2>3 DEF I!Crash, I!Fixed, UIs
    <3>3. staging' \in [UIs -> AnyTree] /\ iPc' \in [UIs -> I!Steps]
          /\ iResult' \in [UIs -> {"none", "ok", "skipped", "error"}]
      BY <3>1, <3>2
    <3> QED
      BY <2>1, <3>2, <3>3 DEF I!TypeOK, UIs, AnyTree
  <2>4. CASE I!Remove
    <3>1. /\ UNCHANGED <<kind, pinned, served, cache, iPc, iWant, tries, hasOld, iResult,
                         overlapped>>
          /\ had' \in BOOLEAN /\ cut' \in BOOLEAN /\ removing' \in {"no", "dir", "rest"}
      BY <2>4 DEF I!Remove, I!BeginRemove, I!RemoveDir, I!RemoveRest, I!RemoveFails, I!Fixed,
                  I!local, I!disks, I!past
    <3>2. staging' = staging \/ staging' = [i \in UIs |-> I!NoTree]
      BY <2>4 DEF I!Remove, I!BeginRemove, I!RemoveDir, I!RemoveRest, I!RemoveFails, I!disks, UIs
    <3>3. old' \in {old, I!NoTree}
      BY <2>4 DEF I!Remove, I!BeginRemove, I!RemoveDir, I!RemoveRest, I!RemoveFails, I!disks
    <3>4. dir' \in {dir, I!NoTree} \/ dir' \in I!Torn(dir)
      BY <2>4 DEF I!Remove, I!BeginRemove, I!RemoveDir, I!RemoveRest, I!RemoveFails, I!disks
    <3>5. staging' \in [UIs -> AnyTree] /\ old' \in AnyTree /\ dir' \in AnyTree
      BY <3>2, <3>3, <3>4, TreeFacts, TornTrees
    <3> QED
      BY <2>1, <3>1, <3>5 DEF I!TypeOK, UIs, AnyTree
  <2> QED
    BY <1>2, <2>2, <2>3, <2>4
<1> QED
  BY <1>1, <1>2 DEF I!Next, UIs

LEMMA TurnStep ==
  ASSUME I!TypeOK, TurnInv, I!Next
  PROVE  TurnInv'
<1>0. kind \in {"tes3mp", "locale"} /\ overlapped \in BOOLEAN /\ had \in BOOLEAN
      /\ removing \in {"no", "dir", "rest"}
  BY InstallTypes
<1>1. ASSUME NEW i \in UIs, I!Begin(i)
      PROVE  TurnInv'
  <2>1. /\ removing = "no" /\ UNCHANGED <<kind, removing>>
        /\ \A j \in UIs \ {i} : iPc'[j] = iPc[j]
    BY <1>1, OnlyMoves DEF I!Begin
  <2>2. /\ kind = "locale" => I!Running = {}
        /\ overlapped' = (overlapped \/ I!Running # {})
    BY <1>1 DEF I!Begin, I!Quiet
  <2>3. I!Running = {} => \A j \in UIs : iPc[j] = "idle"
    BY DEF I!Running, UIs
  <2> QED
    BY <2>1, <2>2, <2>3 DEF TurnInv
<1>2. ASSUME NEW i \in UIs, I!Step(i)
      PROVE  TurnInv'
  <2>1. iPc[i] # "idle" /\ UNCHANGED overlapped
    BY <1>2 DEF I!Step, I!ClearStaging, I!CheckCache, I!Download, I!Verify, I!MakeStaging,
                I!Build, I!Mark, I!Look, I!DropStale, I!Aside, I!Activate, I!Restore, I!Cleanup,
                I!InspectInstalled, I!Quietly, I!past
  <2>2. removing = "no" /\ UNCHANGED <<kind, removing>>
        /\ \A j \in UIs \ {i} : iPc'[j] = iPc[j]
    BY <1>2, <2>1, OnlyMoves DEF TurnInv
  <2> QED
    BY <2>1, <2>2 DEF TurnInv
<1>3. CASE I!Remove
  <2>1. UNCHANGED <<kind, iPc, overlapped>>
    BY <1>3 DEF I!Remove, I!BeginRemove, I!RemoveDir, I!RemoveRest, I!RemoveFails, I!Fixed,
                I!local, I!past
  <2>2. CASE I!BeginRemove
    <3>1. removing' = "dir" /\ kind = "locale" /\ \A i \in UIs : iPc[i] = "idle"
      BY <2>2 DEF I!BeginRemove, I!Quiet, I!Running, UIs
    <3> QED
      BY <2>1, <3>1 DEF TurnInv
  <2>3. CASE I!RemoveDir
    <3>1. removing = "dir" /\ (removing' = "dir" \/ (removing' = "rest" /\ dir' = I!NoTree /\ had' = FALSE))
      BY <2>3 DEF I!RemoveDir
    <3> QED
      BY <2>1, <3>1 DEF TurnInv
  <2>4. CASE I!RemoveRest \/ I!RemoveFails
    <3>1. removing' = "no"
      BY <2>4 DEF I!RemoveRest, I!RemoveFails
    <3> QED
      BY <2>1, <3>1 DEF TurnInv
  <2> QED
    BY <1>3, <2>2, <2>3, <2>4 DEF I!Remove
<1>4. CASE I!Crash
  <2>1. UNCHANGED <<kind, overlapped>> /\ removing' = "no" /\ \A i \in UIs : iPc'[i] = "idle"
    BY <1>4 DEF I!Crash, I!Fixed, UIs
  <2> QED
    BY <2>1 DEF TurnInv
<1>5. CASE I!Upgrade
  <2>1. UNCHANGED <<kind, iPc, overlapped, removing, dir, had>>
    BY <1>5 DEF I!Upgrade, I!disks, I!local, I!past
  <2> QED
    BY <2>1 DEF TurnInv
<1> QED
  BY <1>1, <1>2, <1>3, <1>4, <1>5 DEF I!Next, UIs

(* Steps of nobody in particular leave the cache and the running installs. *)
LEMMA Elsewhere ==
  ASSUME I!TypeOK, TurnInv, I!Remove \/ I!Crash \/ I!Upgrade
  PROVE  /\ UNCHANGED <<kind, served, cache, overlapped>>
         /\ (\A i \in UIs : iPc'[i] = "idle") \/ UNCHANGED <<iPc, iWant, staging>>
<1>1. CASE I!Remove
  <2>1. UNCHANGED <<kind, served, cache, overlapped, iPc>>
    BY <1>1 DEF I!Remove, I!BeginRemove, I!RemoveDir, I!RemoveRest, I!RemoveFails, I!Fixed,
                I!local, I!past, I!disks
  <2>2. CASE I!BeginRemove
    BY <2>1, <2>2 DEF I!BeginRemove, I!Quiet, I!Running, UIs
  <2>3. CASE I!RemoveDir \/ I!RemoveRest \/ I!RemoveFails
    <3>1. removing # "no"
      BY <2>3 DEF I!RemoveDir, I!RemoveRest, I!RemoveFails
    <3> QED
      BY <2>1, <3>1 DEF TurnInv
  <2> QED
    BY <1>1, <2>1, <2>2, <2>3 DEF I!Remove
<1>2. CASE I!Crash
  BY <1>2 DEF I!Crash, I!Fixed, UIs
<1>3. CASE I!Upgrade
  BY <1>3 DEF I!Upgrade, I!disks, I!local, I!past
<1> QED
  BY <1>1, <1>2, <1>3

LEMMA CacheStep ==
  ASSUME I!TypeOK, TurnInv, CacheInv, I!Next
  PROVE  CacheInv'
<1>0. /\ served \in {"good", "other"} /\ cache \in {"absent", "good", "other", "junk"}
      /\ kind \in {"tes3mp", "locale"}
  BY InstallTypes
<1>1. CASE I!Remove \/ I!Crash \/ I!Upgrade
  <2>1. UNCHANGED <<kind, served, cache>>
        /\ ((\A i \in UIs : iPc'[i] = "idle") \/ UNCHANGED iPc)
    BY <1>1, Elsewhere
  <2> QED
    BY <2>1 DEF CacheInv
<1>2. ASSUME NEW i \in UIs, I!Begin(i) \/ I!Step(i)
      PROVE  CacheInv'
  <2>1. /\ UNCHANGED <<kind, served>> /\ \A j \in UIs \ {i} : iPc'[j] = iPc[j]
        /\ iPc'[i] \in Destinations(iPc[i])
    BY <1>2, OnlyMoves
  <2>2. kind = "locale" /\ iPc[i] # "idle" => \A j \in UIs \ {i} : iPc[j] = "idle"
    BY DEF TurnInv
  <2>3. CASE I!CheckCache(i)
    <3>1. /\ iPc[i] = "check"
          /\ iPc'[i] = "verify" => kind = "tes3mp"
          /\ \/ cache' \in {"absent", "good"} /\ (cache' = "good" => cache = "good")
             \/ UNCHANGED cache /\ iPc'[i] = "idle"
          /\ iPc'[i] = "build" => kind = "locale" /\ cache = "good" /\ cache' = "good"
          /\ iPc'[i] # "stage"
      <4>1. I!Fail(i) => iPc'[i] = "idle"
        BY Going
      <4>2. \A to : I!Goto(i, to) => iPc'[i] = to
        BY InstallTypes DEF I!Goto
      <4>3. CASE I!Goto(i, IF cache # "good" THEN "download"
                           ELSE IF kind = "locale" THEN "build" ELSE "verify")
                 /\ cache' = IF cache = "good" THEN "good" ELSE "absent"
        <5>1. iPc'[i] = IF cache # "good" THEN "download"
                        ELSE IF kind = "locale" THEN "build" ELSE "verify"
          BY <4>2, <4>3
        <5> QED
          BY <1>0, <2>3, <4>3, <5>1 DEF I!CheckCache
      <4>4. CASE I!Fail(i) /\ UNCHANGED cache
        BY <2>3, <4>1, <4>4 DEF I!CheckCache
      <4> QED
        BY <2>3, <4>3, <4>4 DEF I!CheckCache
    <3> QED
      BY <1>0, <2>1, <2>2, <3>1 DEF CacheInv
  <2>4. CASE I!Download(i)
    <3>1. iPc[i] = "download"
      BY <2>4 DEF I!Download
    <3>2. CASE I!Receive(i)
      <4>1. \A to : I!Goto(i, to) => iPc'[i] = to
        BY InstallTypes DEF I!Goto
      <4>2. /\ kind = "locale" => cache' = "good" /\ served = "good"
            /\ kind # "locale" => cache' \in {served, "junk"} /\ iPc'[i] = "verify"
            /\ kind = "locale" => iPc'[i] = "build"
        BY <1>0, <3>2, <4>1 DEF I!Receive, I!ArrivesVerified, I!ArrivesUnverified
      <4>3. CASE kind = "locale"
        <5>1. /\ cache' = "good" /\ served' = "good" /\ kind' = "locale" /\ iPc'[i] = "build"
              /\ \A j \in UIs \ {i} : iPc'[j] = "idle"
          BY <2>1, <2>2, <3>1, <4>2, <4>3
        <5> QED
          BY <5>1 DEF CacheInv
      <4>4. CASE kind = "tes3mp"
        <5>1. /\ served' = served /\ kind' = "tes3mp" /\ iPc'[i] = "verify"
              /\ cache' \in {served, "junk"}
              /\ \A j \in UIs \ {i} : iPc'[j] = iPc[j]
          BY <2>1, <4>2, <4>4
        <5>2. served = "other" \/ served = "good"
          BY <1>0
        <5> QED
          BY <4>4, <5>1, <5>2 DEF CacheInv
      <4> QED
        BY <1>0, <4>3, <4>4
    <3>3. CASE UNCHANGED cache /\ iPc'[i] \in {"idle", "download"}
      BY <2>1, <3>3 DEF CacheInv
    <3>4. I!Retry(i) => iPc'[i] = "download"
      BY <3>1 DEF I!Retry
    <3>5. I!Fail(i) => iPc'[i] = "idle"
      BY Going
    <3> QED
      BY <2>4, <3>2, <3>3, <3>4, <3>5 DEF I!Download, I!Retry
  <2>5. CASE UNCHANGED cache
    <3>1. iPc'[i] = "stage" => served = "good" /\ cache = "good"
      <4>1. iPc'[i] = "stage" => iPc[i] = "verify"
        BY <2>1, InstallTypes, StepsOfInstall DEF Destinations
      <4>2. iPc[i] = "verify" /\ iPc'[i] # "idle" => cache = "good"
        <5>1. iPc[i] = "verify" => I!Verify(i)
          BY <1>2, StepAt
        <5>2. I!Fail(i) => iPc'[i] = "idle"
          BY Going
        <5> QED
          BY <5>1, <5>2 DEF I!Verify
      <4> QED
        BY <1>0, <4>1, <4>2 DEF CacheInv
    <3>2. iPc'[i] = "build" /\ ~I!CheckCache(i) /\ ~I!Download(i) => iPc[i] = "stage"
      <4>1. iPc'[i] = "build" => iPc[i] \in {"check", "download", "stage"}
        BY <2>1, InstallTypes, StepsOfInstall DEF Destinations
      <4>2. /\ iPc[i] = "check" => I!CheckCache(i)
            /\ iPc[i] = "download" => I!Download(i)
        BY <1>2, StepAt
      <4> QED
        BY <4>1, <4>2
    <3>3. ASSUME ~I!CheckCache(i), ~I!Download(i)
          PROVE  CacheInv'
      <4>1. served' = "other" => cache' # "good"
        BY <2>1, <2>5 DEF CacheInv
      <4>2. ASSUME NEW j \in UIs \ {i}
            PROVE  /\ iPc'[j] \in {"verify", "stage"} => kind' = "tes3mp"
                   /\ iPc'[j] \in {"stage", "build"} /\ kind' = "tes3mp" =>
                        served' = "good" /\ cache' # "other"
                   /\ iPc'[j] = "build" /\ kind' = "locale" => cache' = "good"
        BY <2>1, <2>5 DEF CacheInv
      <4>3. /\ iPc'[i] \in {"verify", "stage"} => kind' = "tes3mp"
            /\ iPc'[i] \in {"stage", "build"} /\ kind' = "tes3mp" =>
                 served' = "good" /\ cache' # "other"
            /\ iPc'[i] = "build" /\ kind' = "locale" => cache' = "good"
        <5>1. CASE iPc'[i] = "stage"
          <6>1. iPc[i] = "verify"
            BY <2>1, <5>1, InstallTypes, StepsOfInstall DEF Destinations
          <6>2. kind = "tes3mp"
            BY <6>1 DEF CacheInv
          <6> QED
            BY <2>1, <2>5, <3>1, <5>1, <6>2
        <5>2. CASE iPc'[i] = "build"
          <6>1. iPc[i] = "stage"
            BY <3>2, <3>3, <5>2
          <6>2. I!MakeStaging(i)
            BY <1>2, <6>1, StepAt
          <6>3. kind = "tes3mp"
            BY <6>1 DEF CacheInv
          <6> QED
            BY <2>1, <2>5, <6>1, <6>3 DEF CacheInv
        <5>3. iPc'[i] # "verify"
          <6>1. iPc'[i] = "verify" => iPc[i] \in {"check", "download"}
            BY <2>1, InstallTypes, StepsOfInstall DEF Destinations
          <6> QED
            BY <1>2, <3>3, <6>1, StepAt
        <5> QED
          BY <5>1, <5>2, <5>3
      <4> QED
        BY <4>1, <4>2, <4>3 DEF CacheInv
    <3> QED
      BY <2>3, <2>4, <3>3
  <2>6. I!CheckCache(i) \/ I!Download(i) \/ UNCHANGED cache
    BY <1>2 DEF I!Begin, I!Step, I!ClearStaging, I!Verify, I!MakeStaging, I!Build, I!Mark, I!Look,
                I!DropStale, I!Aside, I!Activate, I!Restore, I!Cleanup, I!InspectInstalled,
                I!disks
  <2> QED
    BY <2>3, <2>4, <2>5, <2>6
<1> QED
  BY <1>1, <1>2 DEF I!Next, UIs

(* An install leaves alone what belongs to another that runs.              *)
LEMMA OthersKeep ==
  ASSUME I!TypeOK, TurnInv, StagingInv, NEW i \in UIs, I!Begin(i) \/ I!Step(i),
         NEW j \in UIs \ {i}, iPc'[j] # "idle"
  PROVE  /\ kind = "tes3mp" /\ iPc'[j] = iPc[j] /\ iWant'[j] = iWant[j]
         /\ I!Slot(j)' = I!Slot(j) /\ staging'[I!Slot(j)] = staging[I!Slot(j)]
<1>1. iPc'[j] = iPc[j] /\ kind' = kind /\ kind \in {"tes3mp", "locale"}
  BY OnlyMoves, InstallTypes
<1>2. kind = "tes3mp"
  <2>1. CASE I!Begin(i)
    BY <1>1, <2>1 DEF I!Begin, I!Quiet, I!Running, UIs
  <2>2. CASE I!Step(i)
    <3>1. iPc[i] # "idle"
      BY <2>2 DEF I!Step, I!ClearStaging, I!CheckCache, I!Download, I!Verify, I!MakeStaging,
                  I!Build, I!Mark, I!Look, I!DropStale, I!Aside, I!Activate, I!Restore,
                  I!Cleanup, I!InspectInstalled
    <3> QED
      BY <1>1, <3>1 DEF TurnInv
  <2> QED
    BY <2>1, <2>2
<1>3. I!Slot(j) = j /\ I!Slot(i) = i
  BY <1>2, Slots
<1>4. I!Slot(j)' = I!Slot(j)
  BY <1>1 DEF I!Slot
<1>5. staging'[j] = staging[j]
  BY <1>3, DisksStay
<1>6. iWant'[j] = iWant[j]
  <2>1. I!Begin(i) => \E g : iWant' = [iWant EXCEPT ![i] = g]
    BY DEF I!Begin
  <2>2. I!Step(i) => iWant' = iWant
    BY DEF I!Step, I!ClearStaging, I!CheckCache, I!Download, I!Verify, I!MakeStaging,
           I!Build, I!Mark, I!Look, I!DropStale, I!Aside, I!Activate, I!Restore, I!Cleanup,
           I!InspectInstalled, I!Quietly
  <2> QED
    BY <2>1, <2>2, InstallTypes
<1> QED
  BY <1>1, <1>2, <1>3, <1>4, <1>5, <1>6

LEMMA StagingStep ==
  ASSUME I!TypeOK, TurnInv, CacheInv, StagingInv, I!Next
  PROVE  StagingInv'
<1>0. kind \in {"tes3mp", "locale"} /\ staging \in [UIs -> AnyTree]
  BY InstallTypes
<1>1. CASE I!Remove \/ I!Crash \/ I!Upgrade
  <2>1. UNCHANGED kind /\ ((\A i \in UIs : iPc'[i] = "idle") \/ UNCHANGED <<iPc, iWant, staging>>)
    BY <1>1, Elsewhere
  <2>2. \A i \in UIs : I!Slot(i)' = I!Slot(i)
    BY <2>1 DEF I!Slot
  <2>3. CASE \A i \in UIs : iPc'[i] = "idle"
    BY <2>3 DEF StagingInv
  <2>4. CASE UNCHANGED <<iPc, iWant, staging>>
    BY <2>2, <2>4 DEF StagingInv
  <2> QED
    BY <2>1, <2>3, <2>4
<1>2. ASSUME NEW i \in UIs, I!Begin(i) \/ I!Step(i)
      PROVE  StagingInv'
  <2>1. ASSUME NEW j \in UIs \ {i}
        PROVE  /\ iPc'[j] # "idle" => iWant'[j] \in I!AllGoals
               /\ iPc'[j] = "mark" =>
                    staging'[I!Slot(j)'] \in I!Trees /\ staging'[I!Slot(j)'].whole
               /\ iPc'[j] \in {"look", "dropStale", "aside", "activate"} =>
                    staging'[I!Slot(j)'] \in I!Trees /\ I!Whole(staging'[I!Slot(j)'])
    <3>1. CASE iPc'[j] = "idle"
      BY <3>1
    <3>2. CASE iPc'[j] # "idle"
      BY <1>2, <3>2, OthersKeep DEF StagingInv
    <3> QED
      BY <3>1, <3>2
  <2>2. /\ iPc' \in [UIs -> I!Steps] /\ iPc'[i] \in Destinations(iPc[i]) /\ iPc[i] \in I!Steps
        /\ UNCHANGED kind
    BY <1>2, OnlyMoves, InstallTypes
  <2>3. I!Slot(i)' = I!Slot(i) /\ I!Slot(i) \in UIs
    BY <2>2, Slots DEF I!Slot
  <2>4. I!Fail(i) => iPc'[i] = "idle"
    BY Going
  <2>5. iPc'[i] # "idle" => iWant'[i] \in I!AllGoals
    <3>1. I!Begin(i) => \E g \in I!AllGoals : iWant' = [iWant EXCEPT ![i] = g]
      BY DEF I!Begin, I!AllGoals, I!Goals, I!TypeOK
    <3>2. I!Step(i) => iWant' = iWant /\ iPc[i] # "idle"
      BY DEF I!Step, I!ClearStaging, I!CheckCache, I!Download, I!Verify, I!MakeStaging,
             I!Build, I!Mark, I!Look, I!DropStale, I!Aside, I!Activate, I!Restore, I!Cleanup,
             I!InspectInstalled, I!Quietly
    <3>3. iWant \in [UIs -> I!AllGoals \cup {"none"}]
      BY InstallTypes
    <3> QED
      BY <1>2, <3>1, <3>2, <3>3 DEF StagingInv
  <2>6. ASSUME iPc'[i] = "mark"
        PROVE  staging'[I!Slot(i)] \in I!Trees /\ staging'[I!Slot(i)].whole
    <3>1. iPc[i] = "build"
      BY <2>2, <2>6, StepsOfInstall DEF Destinations
    <3>2. I!Build(i)
      BY <1>2, <3>1, StepAt
    <3>3. cache = "good"
      BY <1>0, <2>4, <2>6, <3>1, <3>2 DEF I!Build, CacheInv
    <3>4. PICK g \in {iWant[i]} \cup (IF kind = "locale" THEN {"text"} ELSE {}) :
            staging' = [staging EXCEPT ![I!Slot(i)] =
                          [of |-> g, whole |-> cache = "good", mark |-> "none"]]
      BY <2>4, <2>6, <3>2 DEF I!Build
    <3>5. g \in I!AllGoals
      BY <3>1 DEF StagingInv, I!AllGoals, I!Goals
    <3>6. staging'[I!Slot(i)] = [of |-> g, whole |-> cache = "good", mark |-> "none"]
      BY <1>0, <2>3, <3>4
    <3>7. staging'[I!Slot(i)] = [of |-> g, whole |-> TRUE, mark |-> "none"]
      BY <3>3, <3>6
    <3> QED
      BY <3>5, <3>7 DEF I!Trees
  <2>7. ASSUME iPc'[i] = "look"
        PROVE  staging'[I!Slot(i)] \in I!Trees /\ I!Whole(staging'[I!Slot(i)])
    <3>1. iPc[i] = "mark"
      BY <2>2, <2>7, StepsOfInstall DEF Destinations
    <3>2. I!Mark(i)
      BY <1>2, <3>1, StepAt
    <3>3. staging[I!Slot(i)] \in I!Trees /\ staging[I!Slot(i)].whole
      BY <3>1 DEF StagingInv
    <3>4. staging' = [staging EXCEPT ![I!Slot(i)].mark = staging[I!Slot(i)].of]
      BY <2>4, <2>7, <3>2 DEF I!Mark
    <3>5. staging'[I!Slot(i)] = [staging[I!Slot(i)] EXCEPT !.mark = staging[I!Slot(i)].of]
      BY <1>0, <2>3, <3>4
    <3> QED
      BY <3>3, <3>5 DEF I!Trees, I!Whole
  <2>8. ASSUME iPc'[i] \in {"dropStale", "aside", "activate"}
        PROVE  staging'[I!Slot(i)] \in I!Trees /\ I!Whole(staging'[I!Slot(i)])
    <3>1. iPc[i] \in {"look", "dropStale", "aside"}
      BY <2>2, <2>8, StepsOfInstall DEF Destinations
    <3>2. I!Look(i) \/ I!DropStale(i) \/ I!Aside(i)
      BY <1>2, <3>1, StepAt
    <3>3. UNCHANGED staging
      BY <2>4, <2>8, <3>2 DEF I!Look, I!DropStale, I!Aside
    <3> QED
      BY <3>1, <3>3 DEF StagingInv
  <2> QED
    <3>1. \A j \in UIs : j = i \/ j \in UIs \ {i}
      OBVIOUS
    <3>2. /\ iPc'[i] # "idle" => iWant'[i] \in I!AllGoals
          /\ iPc'[i] = "mark" =>
               staging'[I!Slot(i)'] \in I!Trees /\ staging'[I!Slot(i)'].whole
          /\ iPc'[i] \in {"look", "dropStale", "aside", "activate"} =>
               staging'[I!Slot(i)'] \in I!Trees /\ I!Whole(staging'[I!Slot(i)'])
      BY <2>3, <2>5, <2>6, <2>7, <2>8
    <3> QED
      BY <2>1, <3>1, <3>2 DEF StagingInv
<1> QED
  BY <1>1, <1>2 DEF I!Next, UIs

(* What a step does to the two copies, by where the install stands.        *)
LEMMA CopiesKeep ==
  ASSUME I!TypeOK, NEW i \in UIs, I!Begin(i) \/ I!Step(i),
         iPc[i] \notin {"look", "dropStale", "aside", "activate", "restore", "cleanup"}
  PROVE  /\ UNCHANGED <<dir, old, had>>
         /\ iPc'[i] \notin {"dropStale", "aside", "activate", "restore", "cleanup"}
<1>1. iPc[i] \in {"idle", "clear", "check", "download", "verify", "stage", "build", "mark",
                  "inspect"}
  BY InstallTypes, StepsOfInstall
<1>2. iPc'[i] \notin {"dropStale", "aside", "activate", "restore", "cleanup"}
  BY <1>1, OnlyMoves DEF Destinations
<1>3. \/ I!Begin(i) \/ I!ClearStaging(i) \/ I!CheckCache(i) \/ I!Download(i) \/ I!Verify(i)
      \/ I!MakeStaging(i) \/ I!Build(i) \/ I!Mark(i) \/ I!InspectInstalled(i)
  BY <1>1, StepAt
<1>4. UNCHANGED <<dir, old, had>>
  BY <1>3 DEF I!Begin, I!ClearStaging, I!CheckCache, I!Download, I!Verify, I!MakeStaging,
              I!Build, I!Mark, I!InspectInstalled, I!Quietly, I!past, I!disks
<1> QED
  BY <1>2, <1>4

LEMMA AloneStep ==
  ASSUME I!TypeOK, TurnInv, StagingInv, AloneInv, I!Next
  PROVE  AloneInv'
<1>0. /\ dir \in AnyTree /\ old \in AnyTree /\ iPc \in [UIs -> I!Steps]
      /\ had \in BOOLEAN /\ cut \in BOOLEAN /\ overlapped \in BOOLEAN
      /\ removing \in {"no", "dir", "rest"}
  BY InstallTypes
<1>1. CASE I!Remove
  <2>1. CASE I!BeginRemove \/ I!RemoveDir
    BY <2>1 DEF I!BeginRemove, I!RemoveDir, AloneInv
  <2>2. CASE I!RemoveRest
    <3>1. /\ dir = I!NoTree /\ ~had /\ \A i \in UIs : iPc[i] = "idle"
          /\ UNCHANGED <<dir, had, iPc>> /\ old' = I!NoTree
      BY <2>2 DEF I!RemoveRest, TurnInv, I!local, I!past
    <3> QED
      BY <3>1 DEF AloneInv
  <2>3. CASE I!RemoveFails
    BY <2>3 DEF I!RemoveFails, AloneInv
  <2> QED
    BY <1>1, <2>1, <2>2, <2>3 DEF I!Remove
<1>2. CASE I!Crash
  <2>1. /\ cut' = (cut \/ removing # "no") /\ UNCHANGED <<dir, old, had, overlapped>>
        /\ \A i \in UIs : iPc'[i] = "idle"
    BY <1>2 DEF I!Crash, UIs
  <2> QED
    BY <2>1 DEF AloneInv
<1>3. CASE I!Upgrade
  BY <1>3 DEF I!Upgrade, I!disks, I!local, I!past, AloneInv
<1>4. ASSUME NEW i \in UIs, I!Begin(i) \/ I!Step(i), ~overlapped', ~cut', removing' = "no"
      PROVE  /\ dir' = I!NoTree \/ I!Whole(dir')
             /\ dir' = I!NoTree => old' = I!NoTree \/ I!Whole(old')
             /\ had' => dir' # I!NoTree \/ old' # I!NoTree
             /\ \A j \in UIs : iPc'[j] \in {"dropStale", "cleanup"} => dir' # I!NoTree
  <2>1. /\ removing = "no" /\ ~cut
        /\ \A j \in UIs \ {i} : iPc'[j] = iPc[j]
        /\ iPc'[i] \in Destinations(iPc[i])
    BY <1>4, OnlyMoves
  <2>2. ~overlapped /\ \A j \in UIs \ {i} : iPc[j] = "idle"
    <3>1. CASE I!Begin(i)
      BY <1>4, <3>1 DEF I!Begin, I!Running, UIs
    <3>2. CASE I!Step(i)
      <4>1. UNCHANGED overlapped /\ iPc[i] # "idle"
        BY <3>2 DEF I!Step, I!ClearStaging, I!CheckCache, I!Download, I!Verify, I!MakeStaging,
                    I!Build, I!Mark, I!Look, I!DropStale, I!Aside, I!Activate, I!Restore,
                    I!Cleanup, I!InspectInstalled, I!Quietly, I!past
      <4> QED
        BY <1>4, <4>1 DEF TurnInv
    <3> QED
      BY <1>4, <3>1, <3>2
  <2>3. /\ dir = I!NoTree \/ I!Whole(dir)
        /\ dir = I!NoTree => old = I!NoTree \/ I!Whole(old)
        /\ had => dir # I!NoTree \/ old # I!NoTree
        /\ iPc[i] \in {"dropStale", "cleanup"} => dir # I!NoTree
    BY <2>1, <2>2 DEF AloneInv
  <2>4. ASSUME /\ dir' = I!NoTree \/ I!Whole(dir')
               /\ dir' = I!NoTree => old' = I!NoTree \/ I!Whole(old')
               /\ had' => dir' # I!NoTree \/ old' # I!NoTree
               /\ iPc'[i] \in {"dropStale", "cleanup"} => dir' # I!NoTree
        PROVE  /\ dir' = I!NoTree \/ I!Whole(dir')
               /\ dir' = I!NoTree => old' = I!NoTree \/ I!Whole(old')
               /\ had' => dir' # I!NoTree \/ old' # I!NoTree
               /\ \A j \in UIs : iPc'[j] \in {"dropStale", "cleanup"} => dir' # I!NoTree
    BY <2>1, <2>2, <2>4
  <2>5. I!Fail(i) => iPc'[i] = "idle"
    BY Going
  <2>6. CASE iPc[i] \notin {"look", "dropStale", "aside", "activate", "restore", "cleanup"}
    <3>1. /\ UNCHANGED <<dir, old, had>>
          /\ iPc'[i] \notin {"dropStale", "aside", "activate", "restore", "cleanup"}
      BY <1>4, <2>6, CopiesKeep
    <3> QED
      BY <2>3, <2>4, <3>1
  <2>7. CASE iPc[i] = "look"
    <3>1. I!Look(i) /\ UNCHANGED had
      BY <1>4, <2>7, StepAt DEF I!Look, I!Quietly, I!past
    <3>2. CASE UNCHANGED <<dir, old>> /\ iPc'[i] = "idle"
      BY <2>3, <2>4, <3>1, <3>2
    <3>3. CASE /\ dir' = IF dir = I!NoTree /\ old # I!NoTree THEN old ELSE dir
               /\ old' = IF dir = I!NoTree /\ old # I!NoTree THEN I!NoTree ELSE old
               /\ I!Goto(i, IF dir' # I!NoTree THEN "dropStale" ELSE "activate")
      <4>1. iPc'[i] = IF dir' # I!NoTree THEN "dropStale" ELSE "activate"
        BY <1>0, <3>3 DEF I!Goto
      <4> QED
        BY <2>3, <2>4, <3>1, <3>3, <4>1
    <3> QED
      BY <2>5, <3>1, <3>2, <3>3 DEF I!Look
  <2>8. CASE iPc[i] \in {"dropStale", "cleanup"}
    <3>1. UNCHANGED <<dir, had>>
      BY <1>4, <2>8, StepAt DEF I!DropStale, I!Cleanup, I!Quietly, I!past
    <3> QED
      BY <2>3, <2>4, <2>8, <3>1
  <2>9. CASE iPc[i] = "aside"
    <3>1. I!Aside(i) /\ UNCHANGED had /\ iPc'[i] \in {"activate", "idle"}
      BY <1>4, <2>1, <2>9, StepAt DEF I!Aside, I!Quietly, I!past, Destinations
    <3>2. \/ dir # I!NoTree /\ dir' = I!NoTree /\ old' = dir
          \/ UNCHANGED <<dir, old>>
      BY <3>1 DEF I!Aside
    <3> QED
      BY <2>3, <2>4, <3>1, <3>2
  <2>10. CASE iPc[i] = "activate"
    <3>1. I!Activate(i) /\ I!Whole(staging[I!Slot(i)]) /\ staging[I!Slot(i)] # I!NoTree
      BY <1>4, <2>10, StepAt, TreeFacts DEF StagingInv
    <3>2. CASE dir' = staging[I!Slot(i)]
      BY <2>4, <3>1, <3>2
    <3>3. CASE UNCHANGED <<dir, had>> /\ (I!Goto(i, "restore") \/ I!Fail(i))
      <4>1. iPc'[i] \in {"restore", "idle"} /\ UNCHANGED old
        BY <1>0, <2>5, <3>1, <3>3 DEF I!Activate, I!Goto
      <4> QED
        BY <2>3, <2>4, <3>3, <4>1
    <3> QED
      BY <3>1, <3>2, <3>3 DEF I!Activate
  <2>11. CASE iPc[i] = "restore"
    <3>1. I!Restore(i) /\ UNCHANGED had /\ iPc'[i] = "idle"
      BY <1>4, <2>11, <2>1, StepAt DEF I!Restore, I!Quietly, I!past, Destinations
    <3>2. \/ dir = I!NoTree /\ old # I!NoTree /\ dir' = old /\ old' = I!NoTree
          \/ UNCHANGED <<dir, old>>
      BY <3>1 DEF I!Restore
    <3> QED
      BY <2>3, <2>4, <3>1, <3>2
  <2> QED
    BY <2>6, <2>7, <2>8, <2>9, <2>10, <2>11
<1>5. CASE \E i \in UIs : I!Begin(i) \/ I!Step(i)
  BY <1>4, <1>5 DEF AloneInv
<1> QED
  BY <1>1, <1>2, <1>3, <1>5 DEF I!Next, UIs

(* A third install would be needed to tear what is put back.               *)
LEMMA TwoInstalls ==
  ASSUME RaceInv, iMishaps = 0, kind = "tes3mp", dir = I!NoTree, old # I!NoTree,
         NEW i \in UIs, iPc[i] \notin {"activate", "dropStale", "cleanup"}
  PROVE  I!Whole(old)
<1>1. PICK j \in UIs : iPc[j] = "activate"
  BY DEF RaceInv
<1>2. SUFFICES ASSUME NEW k \in UIs, iPc[k] \in {"dropStale", "cleanup"}
               PROVE  FALSE
  BY DEF RaceInv
<1>3. i # j /\ i # k /\ j # k
  BY <1>1, <1>2
<1> QED
  BY <1>3 DEF UIs

LEMMA RaceStep ==
  ASSUME I!TypeOK, TurnInv, StagingInv, RaceInv, I!Next
  PROVE  RaceInv'
<1>0. /\ dir \in AnyTree /\ old \in AnyTree /\ iPc \in [UIs -> I!Steps]
      /\ had \in BOOLEAN /\ kind \in {"tes3mp", "locale"}
  BY InstallTypes
<1>1. CASE I!Remove
  <2>1. kind' = "locale"
    BY <1>1, <1>0 DEF I!Remove, I!BeginRemove, I!RemoveDir, I!RemoveRest, I!RemoveFails, I!Fixed,
                      TurnInv
  <2> QED
    BY <2>1 DEF RaceInv
<1>a. ~I!Mishap \/ iMishaps' # 0
  BY InstallTypes, FilesAssumption DEF I!Mishap
<1>2. CASE I!Crash
  BY <1>2, <1>a DEF I!Crash, RaceInv
<1>3. CASE I!Upgrade
  <2>1. UNCHANGED <<kind, iPc, dir, old, had, iMishaps>>
    BY <1>3 DEF I!Upgrade, I!disks, I!local, I!past, I!NoMishap
  <2> QED
    BY <2>1 DEF RaceInv
<1>4. ASSUME NEW i \in UIs, I!Begin(i) \/ I!Step(i), iMishaps' = 0, kind' = "tes3mp"
      PROVE  /\ dir' = I!NoTree \/ I!Whole(dir')
             /\ dir' = I!NoTree /\ (had' \/ old' # I!NoTree) => \E j \in UIs : iPc'[j] = "activate"
             /\ dir' = I!NoTree /\ old' # I!NoTree =>
                  I!Whole(old') \/ \E j \in UIs : iPc'[j] \in {"dropStale", "cleanup"}
  <2>1. /\ kind = "tes3mp" /\ iMishaps = 0 /\ ~I!Mishap
        /\ \A j \in UIs \ {i} : iPc'[j] = iPc[j]
        /\ iPc'[i] \in Destinations(iPc[i])
    BY <1>4, <1>a, OnlyMoves, FewMishaps
  <2>2. /\ dir = I!NoTree \/ I!Whole(dir)
        /\ dir = I!NoTree /\ (had \/ old # I!NoTree) => \E j \in UIs : iPc[j] = "activate"
        /\ dir = I!NoTree /\ old # I!NoTree =>
             I!Whole(old) \/ \E j \in UIs : iPc[j] \in {"dropStale", "cleanup"}
    BY <2>1 DEF RaceInv
  <2>3. ASSUME UNCHANGED <<dir, old, had>>, iPc[i] \notin {"activate", "dropStale", "cleanup"}
        PROVE  /\ dir' = I!NoTree \/ I!Whole(dir')
               /\ dir' = I!NoTree /\ (had' \/ old' # I!NoTree) => \E j \in UIs : iPc'[j] = "activate"
               /\ dir' = I!NoTree /\ old' # I!NoTree =>
                    I!Whole(old') \/ \E j \in UIs : iPc'[j] \in {"dropStale", "cleanup"}
    <3>1. \A j \in UIs : iPc[j] \in {"activate", "dropStale", "cleanup"} => iPc'[j] = iPc[j]
      BY <2>1, <2>3
    <3> QED
      BY <2>2, <2>3, <3>1
  <2>4. CASE iPc[i] \notin {"look", "dropStale", "aside", "activate", "restore", "cleanup"}
    BY <1>4, <2>3, <2>4, CopiesKeep
  <2>5. CASE iPc[i] = "look"
    <3>1. I!Look(i) /\ UNCHANGED had
      BY <1>4, <2>5, StepAt DEF I!Look, I!Quietly, I!past
    <3>2. CASE dir = I!NoTree /\ old # I!NoTree
      <4>1. dir' = old
        BY <2>1, <3>1, <3>2 DEF I!Look
      <4>2. I!Whole(old)
        BY <2>1, <2>5, <3>2, TwoInstalls
      <4> QED
        BY <3>2, <4>1, <4>2
    <3>3. CASE ~(dir = I!NoTree /\ old # I!NoTree)
      <4>1. UNCHANGED <<dir, old>>
        BY <3>1, <3>3 DEF I!Look
      <4> QED
        BY <2>3, <2>5, <3>1, <4>1
    <3> QED
      BY <3>2, <3>3
  <2>6. CASE iPc[i] \in {"dropStale", "cleanup"}
    <3>1. UNCHANGED <<dir, had>>
      BY <1>4, <2>6, StepAt DEF I!DropStale, I!Cleanup, I!Quietly, I!past
    <3>2. \/ old # I!NoTree /\ iPc' = iPc
          \/ old' = I!NoTree
      BY <1>4, <2>1, <2>6, StepAt DEF I!DropStale, I!Cleanup, I!RemovesOld
    <3>3. \A j \in UIs : iPc[j] = "activate" => iPc'[j] = "activate"
      BY <2>1, <2>6
    <3> QED
      BY <2>2, <2>6, <3>1, <3>2, <3>3
  <2>7. CASE iPc[i] = "aside"
    <3>1. I!Aside(i) /\ UNCHANGED had
      BY <1>4, <2>7, StepAt DEF I!Aside, I!Quietly, I!past
    <3>2. CASE dir # I!NoTree /\ dir' = I!NoTree /\ old' = dir /\ I!Goto(i, "activate")
      <4>1. iPc'[i] = "activate"
        BY <1>0, <3>2 DEF I!Goto
      <4> QED
        BY <2>2, <3>2, <4>1
    <3>3. CASE UNCHANGED <<dir, old>>
      BY <2>3, <2>7, <3>1, <3>3
    <3> QED
      BY <3>1, <3>2, <3>3 DEF I!Aside
  <2>8. CASE iPc[i] = "activate"
    <3>1. I!Activate(i) /\ I!Whole(staging[I!Slot(i)]) /\ staging[I!Slot(i)] # I!NoTree
      BY <1>4, <2>8, StepAt, TreeFacts DEF StagingInv
    <3>2. \/ dir' = staging[I!Slot(i)]
          \/ dir # I!NoTree /\ dir' = dir
      BY <2>1, <3>1 DEF I!Activate
    <3> QED
      BY <2>2, <3>1, <3>2
  <2>9. CASE iPc[i] = "restore"
    <3>1. I!Restore(i) /\ UNCHANGED had
      BY <1>4, <2>9, StepAt DEF I!Restore, I!Quietly, I!past
    <3>2. CASE dir = I!NoTree /\ old # I!NoTree /\ dir' = old
      <4>1. I!Whole(old)
        BY <2>1, <2>9, <3>2, TwoInstalls
      <4> QED
        BY <3>2, <4>1
    <3>3. CASE UNCHANGED <<dir, old>>
      BY <2>3, <2>9, <3>1, <3>3
    <3> QED
      BY <3>1, <3>2, <3>3 DEF I!Restore
  <2> QED
    BY <2>4, <2>5, <2>6, <2>7, <2>8, <2>9
<1>5. CASE \E i \in UIs : I!Begin(i) \/ I!Step(i)
  BY <1>4, <1>5 DEF RaceInv
<1> QED
  BY <1>1, <1>2, <1>3, <1>5 DEF I!Next, UIs

LEMMA KeptImplies ==
  ASSUME KeptInv
  PROVE  I!TypeOK /\ I!NeverWithout /\ I!MarkedIsWhole
<1>0. /\ I!TypeOK /\ TurnInv /\ AloneInv /\ RaceInv
      /\ kind \in {"tes3mp", "locale"} /\ dir \in AnyTree
      /\ overlapped \in BOOLEAN /\ cut \in BOOLEAN /\ had \in BOOLEAN
  BY InstallTypes DEF KeptInv
<1>1. overlapped => kind = "tes3mp"
  BY <1>0 DEF TurnInv
<1>2. I!NeverWithout
  <2>1. ASSUME had, removing = "no", ~cut, ~overlapped
        PROVE  I!Whole(I!Effective)
    BY <1>0, <2>1 DEF AloneInv, I!Effective
  <2>2. ASSUME had, overlapped, I!Running = {}, iMishaps = 0
        PROVE  I!Whole(I!Effective)
    <3>1. \A i \in UIs : iPc[i] = "idle"
      BY <2>2 DEF I!Running, UIs
    <3> QED
      BY <1>0, <1>1, <2>2, <3>1 DEF RaceInv, I!Effective
  <2> QED
    BY <1>0, <2>1, <2>2 DEF I!NeverWithout
<1>3. I!MarkedIsWhole
  <2>1. dir.mark # "none" => dir # I!NoTree
    BY <1>0, TreeFacts
  <2> QED
    BY <1>0, <1>1, <2>1 DEF I!MarkedIsWhole, AloneInv, RaceInv
<1> QED
  BY <1>0, <1>2, <1>3

LEMMA KeptInit ==
  ASSUME I!Init
  PROVE  KeptInv
<1> USE DEF I!Init
<1>1. \A i \in UIs : iPc[i] = "idle"
  BY DEF UIs
<1>2. I!TypeOK
  <2>1. "idle" \in I!Steps /\ I!NoTree \in AnyTree
    BY TreeFacts, StepsOfInstall
  <2>2. 0 \in 0..MaxInstallMishaps
    BY FilesAssumption
  <2>3. dir = I!NoTree /\ old = I!NoTree /\ staging = [i \in UIs |-> I!NoTree]
    BY DEF UIs
  <2>4. /\ iPc = [i \in UIs |-> "idle"] /\ iWant = [i \in UIs |-> "none"]
        /\ tries = [i \in UIs |-> 0] /\ hasOld = [i \in UIs |-> FALSE]
        /\ iResult = [i \in UIs |-> "none"]
    BY DEF UIs
  <2>5. /\ staging \in [UIs -> AnyTree] /\ iPc \in [UIs -> I!Steps]
        /\ iWant \in [UIs -> I!AllGoals \cup {"none"}] /\ tries \in [UIs -> 0..2]
        /\ hasOld \in [UIs -> BOOLEAN] /\ iResult \in [UIs -> {"none", "ok", "skipped", "error"}]
    BY <2>1, <2>3, <2>4
  <2> QED
    BY <2>1, <2>2, <2>3, <2>5, InstallTypes
<1>3. TurnInv
  BY <1>1 DEF TurnInv
<1>4. CacheInv
  BY <1>1 DEF CacheInv
<1>5. StagingInv
  BY <1>1 DEF StagingInv
<1>6. AloneInv
  BY <1>1 DEF AloneInv
<1>7. RaceInv
  BY <1>1 DEF RaceInv
<1> QED
  BY <1>2, <1>3, <1>4, <1>5, <1>6, <1>7 DEF KeptInv

LEMMA KeptStutter ==
  ASSUME KeptInv, UNCHANGED installVars
  PROVE  KeptInv'
<1>1. I!TypeOK'
  BY DEF KeptInv, I!TypeOK, installVars
<1>2. \A i \in UIs : I!Slot(i)' = I!Slot(i)
  BY DEF I!Slot, installVars
<1>3. TurnInv' /\ CacheInv'
  BY DEF KeptInv, TurnInv, CacheInv, installVars
<1>4. StagingInv'
  BY <1>2 DEF KeptInv, StagingInv, installVars
<1>5. AloneInv' /\ RaceInv'
  BY DEF KeptInv, AloneInv, RaceInv, installVars
<1> QED
  BY <1>1, <1>3, <1>4, <1>5 DEF KeptInv

(* Once the client has TES3MP or the language it keeps a complete copy of  *)
(* it, in place or where the next install looks, through failed installs   *)
(* and crashes at every step, and two TES3MP installs that race without    *)
(* any end with one in place; what Inspect calls installed is complete     *)
(* (tes3mp/swap.go, tes3mp/install.go, locale.go).                         *)
THEOREM ClientKeptComplete == FilesSpec => []KeptComplete
<1> DEFINE Inv == part = "install" => KeptInv
<1>1. FilesInit => Inv
  BY KeptInit DEF FilesInit
<1>2. Inv /\ [FilesNext]_filesVars => Inv'
  <2>1. ASSUME KeptInv, I!Next
        PROVE  KeptInv'
    <3>1. I!TypeOK /\ TurnInv /\ CacheInv /\ StagingInv /\ AloneInv /\ RaceInv
      BY <2>1 DEF KeptInv
    <3>2. I!TypeOK'
      BY <2>1, <3>1, KeptTypes
    <3>3. TurnInv' /\ CacheInv'
      BY <2>1, <3>1, TurnStep, CacheStep
    <3>4. StagingInv'
      BY <2>1, <3>1, StagingStep
    <3>5. AloneInv' /\ RaceInv'
      BY <2>1, <3>1, AloneStep, RaceStep
    <3> QED
      BY <3>2, <3>3, <3>4, <3>5 DEF KeptInv
  <2> QED
    BY <2>1, KeptStutter DEF FilesNext, filesVars
<1>3. Inv => KeptComplete
  BY KeptImplies DEF KeptComplete
<1> QED
  BY <1>1, <1>2, <1>3, PTL DEF FilesSpec
=============================================================================
