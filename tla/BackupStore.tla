---------------------------- MODULE BackupStore -----------------------------
(***************************************************************************)
(* backups/state, backups/mods and backups/mods/current.txt, and the       *)
(* commands of tes3mp-easy-ops that add to them and run retention on them: *)
(* backups create, backups prune, mods import, state import, and the       *)
(* backup side of mods deploy and state deploy (what a deploy does to the  *)
(* game's files is ModsDeploy and StateDeploy).                            *)
(*                                                                         *)
(* Every command holds the exclusive ops lock (OpsLock), so commands do    *)
(* not overlap.  A deploy is several steps because retention runs between  *)
(* its choice of an archive and its use of it, and because it can fail or  *)
(* crash in between.                                                       *)
(***************************************************************************)
EXTENDS Retention

CONSTANTS
  Capacity,       \* units of disk the archives and everything else share
  Others,         \* how many of them everything else may take
  WarnFree,       \* backupWarnFree: below it a backup runs full retention first
  Horizon,        \* bound: the last tick of the clock
  MaxPerTick,     \* bound: archives created under one timestamp
  ImportAhead,    \* how far ahead of the clock an imported name may lie
  MaxImports,     \* bound: imports
  MaxStuck,       \* bound: planned deletions one run fails to make
  MaxDamage       \* bound: files that become unreadable

ASSUME BackupStoreAssumption ==
  /\ {Capacity, WarnFree, Horizon, MaxPerTick, ImportAhead, MaxImports,
      MaxStuck, MaxDamage} \subseteq Nat
  /\ Others \subseteq Nat
  /\ MinFree <= WarnFree

VARIABLES
  states,         \* the state archives in backups/state
  mods,           \* the packages in backups/mods
  current,        \* the package current.txt names
  damaged,        \* state archives whose current.txt cannot be read
  currentDamaged, \* is current.txt itself unreadable?
  op,             \* the deploy under way
  now,            \* the clock
  imports         \* imports so far

vars == <<states, mods, current, damaged, currentDamaged, op, now, imports>>

Idle == [kind |-> "idle"]

Phases == {"prepared", "staged", "published"}

Stamps(kinds) == [kind : kinds, time : 0..(Horizon + ImportAhead), coll : Nat]
Packages      == Stamps(ModsKinds)
StateArchives == [kind : StateKinds, time : 0..(Horizon + ImportAhead),
                  coll : Nat, ref : Packages]

Deploys ==
  [kind : {"mods_deploy"}, target : Packages, previous : Packages,
   predeploy : StateArchives, phase : Phases]
  \cup [kind : {"state_deploy"}, target : StateArchives, previous : Packages,
        predeploy : StateArchives, phase : Phases]

TypeOK ==
  /\ states \subseteq StateArchives
  /\ mods \subseteq Packages
  /\ current \in Packages
  /\ damaged \subseteq StateArchives
  /\ currentDamaged \in BOOLEAN
  /\ op \in {Idle} \cup Deploys
  /\ now \in 0..Horizon
  /\ imports \in 0..MaxImports

(* bootstrap.sh leaves one mods-init package and points current.txt at it. *)
Bootstrap == [kind |-> "init", time |-> 0, coll |-> 0]

Init ==
  /\ states = {}
  /\ mods = {Bootstrap}
  /\ current = Bootstrap
  /\ damaged = {}
  /\ currentDamaged = FALSE
  /\ op = Idle
  /\ now = 0
  /\ imports = 0
-----------------------------------------------------------------------------
(* The disk is shared with everything else.                                *)
Free(s, m, other) == Capacity - other - Cardinality(s) - Cardinality(m)

(* What may be left of a directory after deleting plan: a deletion that    *)
(* fails is reported and the others go on.                                 *)
Leftovers(files, plan) ==
  {files \ (plan \ stuck) :
     stuck \in {p \in SUBSET (plan \cap files) : Cardinality(p) <= MaxStuck}}

(* One run of retention.Apply: full retention scans every package, the     *)
(* state-only one none.                                                    *)
Run(s, m, scanned, protect, other) ==
  [states |-> s, mods |-> scanned, current |-> current,
   damaged |-> damaged, currentDamaged |-> currentDamaged,
   protect |-> protect, now |-> now, free |-> Free(s, m, other),
   auto |-> Classify(s, now)]

Retained(s, m, scanned, protect, other) ==
  LET plan == Prune(Run(s, m, scanned, protect, other))
  IN Leftovers(s, plan) \X Leftovers(m, plan)

(* NextArchiveNameInDir: the first free collision number of the timestamp. *)
NextColl(files, kind) ==
  Min({c \in 0..Cardinality(files) :
         ~\E f \in files : f.kind = kind /\ f.time = now /\ f.coll = c})

(* checkBackupSpace and validateStateBackupSource.                         *)
CanBackUp(s, m, other) ==
  /\ Free(s, m, other) >= MinFree
  /\ ~currentDamaged
  /\ current \in m

NewState(s, kind) ==
  [kind |-> kind, time |-> now, coll |-> NextColl(s, kind), ref |-> current]

(* createStateBackupLocked.  On a nearly full disk a full retention goes   *)
(* first, and stays done when the backup itself is then refused; after the *)
(* new archive is in place, state-only retention.                          *)
BeforeBackup(protect, other) ==
  IF Free(states, mods, other) < WarnFree
  THEN Retained(states, mods, mods, protect, other)
  ELSE {<<states, mods>>}

BackupRefused(protect, other) ==
  \E left \in BeforeBackup(protect, other) :
    /\ ~CanBackUp(left[1], left[2], other)
    /\ states' = left[1]
    /\ mods' = left[2]

(* Mutant: the archive to restore is not protected from the backup's own   *)
(* retention.                                                              *)
BackupMadeUnprotected(kind, protect, other, new) ==
  /\ Cardinality({f \in states : f.time = now}) < MaxPerTick
  /\ \E left \in BeforeBackup({}, other) :
       /\ CanBackUp(left[1], left[2], other)
       /\ new = NewState(left[1], kind)
       /\ \E kept \in Retained(left[1] \cup {new}, left[2], {}, {}, other) :
            states' = kept[1] /\ mods' = kept[2]

BackupMade(kind, protect, other, new) ==
  /\ Cardinality({f \in states : f.time = now}) < MaxPerTick
  /\ \E left \in BeforeBackup(protect, other) :
       /\ CanBackUp(left[1], left[2], other)
       /\ new = NewState(left[1], kind)
       /\ \E kept \in Retained(left[1] \cup {new}, left[2], {}, protect, other) :
            states' = kept[1] /\ mods' = kept[2]

NewStates(kind) ==
  {[kind |-> kind, time |-> now, coll |-> c, ref |-> current] : c \in 0..Cardinality(states)}
-----------------------------------------------------------------------------
(* backups create --type state, from the timer or by hand.                 *)
CreateBackup(kind, other) ==
  /\ op = Idle
  /\ UNCHANGED <<current, damaged, currentDamaged, op, now, imports>>
  /\ \/ BackupRefused({}, other)
     \/ \E new \in NewStates(kind) : BackupMade(kind, {}, other, new)

(* backups prune.                                                          *)
PruneBackups(other) ==
  /\ op = Idle
  /\ UNCHANGED <<current, damaged, currentDamaged, op, now, imports>>
  /\ \E kept \in Retained(states, mods, mods, {}, other) :
       states' = kept[1] /\ mods' = kept[2]

(* mods import.  --name keeps an exact name, an old one included; without  *)
(* it the package is named after the clock.  A taken name is refused.      *)
ImportMods(package, other) ==
  /\ op = Idle
  /\ imports < MaxImports
  /\ package \notin mods
  /\ imports' = imports + 1
  /\ UNCHANGED <<current, damaged, currentDamaged, op, now>>
  /\ \E kept \in Retained(states, mods \cup {package}, mods \cup {package},
                         {package}, other) :
       states' = kept[1] /\ mods' = kept[2]

(* state import.  Without --keep-mods the archive must reference the       *)
(* package in use.                                                         *)
ImportState(archive, keepMods, other) ==
  /\ op = Idle
  /\ imports < MaxImports
  /\ ~\E s \in states : /\ s.kind = archive.kind
                        /\ s.time = archive.time
                        /\ s.coll = archive.coll
  /\ keepMods \/ (~currentDamaged /\ archive.ref = current /\ current \in mods)
  /\ imports' = imports + 1
  /\ UNCHANGED <<current, damaged, currentDamaged, op, now>>
  /\ \E kept \in Retained(states \cup {archive}, mods, {}, {archive}, other) :
       states' = kept[1] /\ mods' = kept[2]
-----------------------------------------------------------------------------
(* checkDeploySpace: the reserve, what the archive unpacks to and the      *)
(* largest state archive so far.                                           *)
DeploySpace(other) ==
  Free(states, mods, other) >= MinFree + (IF states = {} THEN 1 ELSE 2)

(* The first half of either deploy: the chosen archive is checked, then    *)
(* the predeploy backup is made.  A refused backup ends the deploy.        *)
Prepare(kind, target, protect, other) ==
  /\ op = Idle
  /\ DeploySpace(other)
  /\ UNCHANGED <<current, damaged, currentDamaged, now, imports>>
  /\ \/ BackupRefused(protect, other) /\ op' = Idle
     \/ \E new \in NewStates("predeploy") :
          /\ BackupMade("predeploy", protect, other, new)
          /\ op' = [kind |-> kind, target |-> target, previous |-> current,
                    predeploy |-> new, phase |-> "prepared"]

(* VerifyCurrentMods comes first, even when another package is chosen.     *)
BeginModsDeploy(target, other) ==
  /\ ~currentDamaged
  /\ current \in mods
  /\ target \in mods
  /\ Prepare("mods_deploy", target, {}, other)

(* Without --keep-mods the state must reference the package in use.        *)
BeginStateDeploy(target, keepMods, other) ==
  /\ target \in states \ damaged
  /\ keepMods \/ (~currentDamaged /\ target.ref = current /\ current \in mods)
  /\ Prepare("state_deploy", target, {target}, other)

(* tx.stage opens the chosen archive again.                                *)
Stage ==
  /\ op # Idle /\ op.phase = "prepared"
  /\ op.target \in (IF op.kind = "mods_deploy" THEN mods ELSE states)
  /\ op' = [op EXCEPT !.phase = "staged"]
  /\ UNCHANGED <<states, mods, current, damaged, currentDamaged, now, imports>>

(* tx.writeCurrent, after the directories are switched.                    *)
PublishMods ==
  /\ op # Idle /\ op.kind = "mods_deploy" /\ op.phase = "staged"
  /\ current' = op.target
  /\ currentDamaged' = FALSE
  /\ op' = [op EXCEPT !.phase = "published"]
  /\ UNCHANGED <<states, mods, damaged, now, imports>>

(* The server did not start: rollback puts the old current.txt back.       *)
UnpublishMods ==
  /\ op # Idle /\ op.phase = "published"
  /\ current' = op.previous
  /\ op' = Idle
  /\ UNCHANGED <<states, mods, damaged, currentDamaged, now, imports>>

(* A mods deploy ends with full retention, a state deploy with none.       *)
FinishModsDeploy(other) ==
  /\ op # Idle /\ op.phase = "published"
  /\ op' = Idle
  /\ UNCHANGED <<current, damaged, currentDamaged, now, imports>>
  /\ \E kept \in Retained(states, mods, mods, {}, other) :
       states' = kept[1] /\ mods' = kept[2]

(* Any failure before publication, the end of a state deploy, and a crash  *)
(* of the process at any point leave backups/ as it is.                    *)
Leave ==
  /\ op # Idle
  /\ op' = Idle
  /\ UNCHANGED <<states, mods, current, damaged, currentDamaged, now, imports>>
-----------------------------------------------------------------------------
(* The environment: time passes, and between two commands the metadata of  *)
(* an archive or current.txt goes bad on disk.                             *)
Tick ==
  /\ now < Horizon
  /\ now' = now + 1
  /\ UNCHANGED <<states, mods, current, damaged, currentDamaged, op, imports>>

Damage ==
  /\ op = Idle
  /\ Cardinality(damaged) + (IF currentDamaged THEN 1 ELSE 0) < MaxDamage
  /\ \/ /\ \E s \in states : damaged' = damaged \cup {s}
        /\ UNCHANGED currentDamaged
     \/ currentDamaged' = TRUE /\ UNCHANGED damaged
  /\ UNCHANGED <<states, mods, current, op, now, imports>>

(* A package some player kept from another server.                         *)
Foreign == [kind |-> "mods", time |-> 0, coll |-> 0]

Importable(kinds) ==
  [kind : kinds, time : 0..(now + ImportAhead), coll : {0}]

ImportableStates ==
  {[kind |-> n.kind, time |-> n.time, coll |-> n.coll, ref |-> r] :
     n \in Importable(StateKinds), r \in mods \cup {Foreign}}

Next ==
  \/ Tick
  \/ Damage
  \/ Stage
  \/ PublishMods
  \/ UnpublishMods
  \/ Leave
  \/ \E other \in Others :
       \/ \E kind \in {"auto", "manual"} : CreateBackup(kind, other)
       \/ PruneBackups(other)
       \/ FinishModsDeploy(other)
       \/ \E package \in Importable(ModsKinds) : ImportMods(package, other)
       \/ \E archive \in ImportableStates, keepMods \in BOOLEAN :
            ImportState(archive, keepMods, other)
       \/ \E target \in mods : BeginModsDeploy(target, other)
       \/ \E target \in states, keepMods \in BOOLEAN :
            BeginStateDeploy(target, keepMods, other)

Spec == Init /\ [][Next]_vars
-----------------------------------------------------------------------------
(* current.txt always names a package that is there: whatever retention    *)
(* deleted, whichever deploy failed, was rolled back or died half-way, and *)
(* also while current.txt cannot be read (docs/v2/04-ops.md 7).            *)
CurrentExists == current \in mods

(* A package that some remaining state archive was taken with is never     *)
(* deleted, even when that archive's metadata has become unreadable: such  *)
(* a backup could no longer be restored (stateModsReferences).             *)
ReferencedKept ==
  [][\A s \in states' : s.ref \in mods => s.ref \in mods']_vars

(* A deploy that goes on has its way back: the predeploy archive it reports*)
(* survives the retention that ran when it was made, and is there until the*)
(* deploy is over (docs/v2/08-runbook.md 10).  The code keeps this only    *)
(* while no imported name lies ahead of the clock (ImportAhead = 0).       *)
WayBackKept == op # Idle => op.predeploy \in states

(* The newest state archive is never deleted, under disk pressure and      *)
(* whatever else was imported: a backup only ever gives way to a newer one.*)
NewestStays == \A s \in states : \E t \in states' : ~Newer(s, t)

(* Neither the newest backup nor a deploy's own one is lost in any step.   *)
NewestKept == [][NewestStays /\ WayBackKept']_vars

(* The archive a state deploy chose is still there when the deploy comes   *)
(* to unpack it, after the retention of its own predeploy backup.          *)
StateTargetKept ==
  op # Idle /\ op.kind = "state_deploy" => op.target \in states

(* The same of a mods deploy.                                              *)
ModsTargetKept ==
  op # Idle /\ op.kind = "mods_deploy" => op.target \in mods

(* What current.txt names and what a state deploy under way was asked to   *)
(* restore is there, also while that deploy's own predeploy backup prunes. *)
TargetsKept == CurrentExists /\ StateTargetKept
=============================================================================
