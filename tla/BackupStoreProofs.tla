------------------------- MODULE BackupStoreProofs --------------------------
(***************************************************************************)
(* Theorems about what the server keeps in files: the stores and what      *)
(* retention may never delete (BackupStore), the walk of the planner       *)
(* (RetentionRuns), the passes over an archive and the writing of a backup *)
(* (Archives), the pages of the list (BackupsList) and the lines of the    *)
(* config files (GameConfig), the last four as the parts of MCStore, for   *)
(* every value of the constants.                                           *)
(***************************************************************************)
EXTENDS MCStore, FiniteSetTheorems, SequenceTheorems, WellFoundedInduction,
        TLAPS

(* The planner never plans what it protects, and plans only what it scans. *)
LEMMA PlanIsSafe ==
  ASSUME NEW run
  PROVE  /\ Prune(run) \cap Protected(run) = {}
         /\ Prune(run) \subseteq run.states \cup run.mods
<1>1. NormalPrune(run) \cap Protected(run) = {} /\ NormalPrune(run) \subseteq run.states \cup run.mods
  BY Zenon DEF NormalPrune
<1>2. PressurePrune(run) \cap Protected(run) = {} /\ PressurePrune(run) \subseteq run.states
  BY Zenon DEF PressurePrune, Eligible, OfKind
<1> QED  BY <1>1, <1>2 DEF Prune

(* Whatever deletions fail, what was not planned stays and nothing new     *)
(* appears.                                                                *)
LEMMA LeftoversKeep ==
  ASSUME NEW stored, NEW plan, NEW left \in Leftovers(stored, plan)
  PROVE  left \subseteq stored /\ stored \ plan \subseteq left
  BY Zenon DEF Leftovers

LEMMA RunFields ==
  ASSUME NEW s, NEW m, NEW scanned, NEW protect, NEW other
  PROVE  LET run == Run(s, m, scanned, protect, other)
         IN /\ run.states = s
            /\ run.mods = scanned
            /\ run.current = current
            /\ run.damaged = damaged
            /\ run.currentDamaged = currentDamaged
            /\ run.protect = protect
  BY DEF Run

(* The order of the archives is strict and transitive, whatever their      *)
(* kinds: the file name breaks the ties.                                   *)
LEMMA ArchiveFields ==
  ASSUME NEW a \in StateArchives
  PROVE  /\ a.time \in Nat
         /\ a.coll \in Nat
         /\ a.kind \in StateKinds
         /\ Rank[a.kind] \in Nat
<1>1. a.time \in 0..(Horizon + ImportAhead) /\ a.coll \in Nat /\ a.kind \in StateKinds
  BY DEF StateArchives
<1>2. Rank[a.kind] \in Nat
  BY <1>1 DEF Rank, StateKinds
<1>3. Horizon + ImportAhead \in Nat
  BY BackupStoreAssumption
<1> QED  BY <1>1, <1>2, <1>3

LEMMA NewerOrders ==
  ASSUME NEW a \in StateArchives, NEW b \in StateArchives, NEW c \in StateArchives
  PROVE  /\ ~Newer(a, a)
         /\ Newer(a, b) /\ Newer(b, c) => Newer(a, c)
         /\ ~Newer(a, b) /\ ~Newer(b, c) => ~Newer(a, c)
<1>1. /\ a.time \in Nat /\ a.coll \in Nat /\ Rank[a.kind] \in Nat
      /\ b.time \in Nat /\ b.coll \in Nat /\ Rank[b.kind] \in Nat
      /\ c.time \in Nat /\ c.coll \in Nat /\ Rank[c.kind] \in Nat
  BY ArchiveFields
<1> QED  BY <1>1 DEF Newer

(* A directory that is not empty has a newest archive: the one with the    *)
(* fewest above it.                                                        *)
LEMMA NewestExists ==
  ASSUME NEW stored, stored \subseteq StateArchives, IsFiniteSet(stored), stored # {}
  PROVE  NewestOf(stored) # {}
<1> DEFINE Above(f) == {g \in stored : Newer(g, f)}
           above    == {Above(f) : f \in stored}
<1>1. IsWellFoundedOn(StrictSubsetOrdering(stored), FiniteSubsetsOf(stored))
  BY FS_StrictSubsetOrderingWellFounded
<1>2. above \subseteq FiniteSubsetsOf(stored)
  BY FS_Subset DEF FiniteSubsetsOf
<1>3. above # {}
  OBVIOUS
<1>4. PICK x \in above : \A y \in above : ~(<<y, x>> \in StrictSubsetOrdering(stored))
  <2> HIDE DEF above
  <2> QED  BY <1>1, <1>2, <1>3, WFMin
<1>5. PICK f \in stored : x = Above(f)
  OBVIOUS
<1>6. ASSUME NEW g \in stored, Newer(g, f)  PROVE FALSE
  <2>1. Above(g) \subseteq Above(f)
    BY <1>6, NewerOrders
  <2>2. g \in Above(f) /\ g \notin Above(g)
    BY <1>6, NewerOrders
  <2>3. Above(g) # Above(f)
    BY <2>2
  <2>4. <<Above(g), Above(f)>> \in (SUBSET stored) \X (SUBSET stored)
    OBVIOUS
  <2>5. <<Above(g), Above(f)>> \in StrictSubsetOrdering(stored)
    <3> HIDE DEF Above
    <3> QED  BY <2>1, <2>3, <2>4 DEF StrictSubsetOrdering
  <2> QED  BY <1>4, <1>5, <2>5
<1>7. f \in NewestOf(stored)
  BY <1>6 DEF NewestOf
<1> QED  BY <1>7

(* No archive of stored gives way to an older one.                          *)
Outlives(stored, left) == \A f \in stored : \E t \in left : ~Newer(f, t)

LEMMA NewestOutlives ==
  ASSUME NEW stored, stored \subseteq StateArchives, IsFiniteSet(stored),
         NEW left, NewestOf(stored) \subseteq left
  PROVE  Outlives(stored, left)
<1> SUFFICES ASSUME NEW f \in stored  PROVE \E t \in left : ~Newer(f, t)
  BY DEF Outlives
<1>1. PICK t \in NewestOf(stored) : TRUE
  BY NewestExists
<1>2. ~Newer(f, t)
  BY <1>1 DEF NewestOf
<1> QED  BY <1>1, <1>2

LEMMA OutlivesTransitive ==
  ASSUME NEW stored \in SUBSET StateArchives, NEW left \in SUBSET StateArchives,
         NEW last \in SUBSET StateArchives,
         Outlives(stored, left), Outlives(left, last)
  PROVE  Outlives(stored, last)
<1> SUFFICES ASSUME NEW f \in stored  PROVE \E t \in last : ~Newer(f, t)
  BY DEF Outlives
<1>1. PICK l \in left : ~Newer(f, l)
  BY DEF Outlives
<1>2. PICK t \in last : ~Newer(l, t)
  BY DEF Outlives
<1>3. ~Newer(f, t)
  BY <1>1, <1>2, NewerOrders
<1> QED  BY <1>3

LEMMA OutlivesSubset ==
  ASSUME NEW stored \in SUBSET StateArchives, NEW left, stored \subseteq left
  PROVE  Outlives(stored, left)
BY NewerOrders DEF Outlives
-----------------------------------------------------------------------------
(* One run of retention.Apply: a state-only run leaves the packages alone, *)
(* a full one keeps the current package and every referenced one, and both *)
(* keep the newest state archive and those their caller protects.          *)
Kept(left, s, m, scanned, protect) ==
  /\ left[1] \subseteq s
  /\ left[2] \subseteq m
  /\ s \cap protect \subseteq left[1]
  /\ NewestOf(s) \subseteq left[1]
  /\ scanned = {} => left[2] = m
  /\ current \in m => current \in left[2]
  /\ \A a \in s : a.ref \in m => a.ref \in left[2]

LEMMA RetentionKeeps ==
  ASSUME NEW s, NEW m, NEW scanned \in {{}, m}, NEW protect, NEW other,
         \A a \in s : a.kind \in StateKinds,
         \A p \in m : p.kind \in ModsKinds,
         NEW kept \in Retained(s, m, scanned, protect, other)
  PROVE  Kept(kept, s, m, scanned, protect)
<1> DEFINE run  == Run(s, m, scanned, protect, other)
           plan == Prune(run)
<1>1. kept \in Leftovers(s, plan) \X Leftovers(m, plan)
  BY Zenon DEF Retained
<1>2. kept[1] \in Leftovers(s, plan) /\ kept[2] \in Leftovers(m, plan)
  BY <1>1
<1>3. /\ kept[1] \subseteq s /\ s \ plan \subseteq kept[1]
      /\ kept[2] \subseteq m /\ m \ plan \subseteq kept[2]
  BY <1>2, LeftoversKeep
<1>4. /\ plan \cap Protected(run) = {}
      /\ plan \subseteq run.states \cup run.mods
  BY PlanIsSafe
<1>5. /\ run.states = s
      /\ run.mods = scanned
      /\ run.current = current
      /\ run.damaged = damaged
      /\ run.currentDamaged = currentDamaged
      /\ run.protect = protect
  BY RunFields
<1>6. s \cap m = {}
  BY DEF StateKinds, ModsKinds
<1>7. s \cap protect \subseteq kept[1] /\ NewestOf(s) \subseteq kept[1]
  <2>1. protect \subseteq Protected(run)
    BY <1>5, Zenon DEF Protected
  <2>2. NewestOf(s) \subseteq Protected(run)
    BY <1>5, Zenon DEF Protected
  <2>3. NewestOf(s) \subseteq s
    BY DEF NewestOf
  <2> QED  BY <2>1, <2>2, <2>3, <1>3, <1>4
<1>8. CASE scanned = {}
  <2>1. plan \subseteq s
    BY <1>4, <1>5, <1>8
  <2>2. kept[2] = m
    BY <2>1, <1>3, <1>6
  <2> QED  BY <2>2, <1>3, <1>7, <1>8 DEF Kept
<1>9. CASE scanned = m
  <2>1. run.mods = m
    BY <1>5, <1>9
  <2>2. \A p \in m : p \notin plan => p \in kept[2]
    BY <1>3
  <2>3. ASSUME current \in m  PROVE current \in Protected(run)
    <3>1. CASE ProtectsAllMods(run)
      BY <2>1, <2>3, <3>1, Zenon DEF Protected
    <3>2. CASE ~ProtectsAllMods(run)
      <4>1. current \in {p \in run.mods : p = run.current}
        BY <1>5, <2>1, <2>3
      <4> QED  BY <4>1, <3>2, Zenon DEF Protected
    <3> QED  BY <3>1, <3>2
  <2>4. ASSUME NEW a \in s, a.ref \in m  PROVE a.ref \in Protected(run)
    <3>1. CASE ProtectsAllMods(run)
      BY <2>1, <2>4, <3>1, Zenon DEF Protected
    <3>2. CASE ~ProtectsAllMods(run)
      <4>1. a \in run.states \ run.damaged
        BY <3>2, <1>5, <2>4 DEF ProtectsAllMods
      <4>2. a.ref \in References(run)
        BY <4>1, <2>1, <2>4, Zenon DEF References
      <4> QED  BY <4>2, <3>2, Zenon DEF Protected
    <3> QED  BY <3>1, <3>2
  <2> QED  BY <2>2, <2>3, <2>4, <1>3, <1>4, <1>7, <1>9 DEF Kept
<1> QED  BY <1>8, <1>9
-----------------------------------------------------------------------------
(* What TypeOK leaves out: the directory is finite, and the packages and   *)
(* archives a deploy counts on are there.                                  *)
StoreInv ==
  /\ IsFiniteSet(states)
  /\ current \in mods
  /\ op.kind = "mods_deploy" =>
       /\ op.previous \in mods
       /\ op.phase # "prepared" => op.target \in mods
  /\ op.kind = "state_deploy" =>
       /\ op.previous \in mods
       /\ op.phase # "published"
       /\ op.target \in states

Inv == TypeOK /\ StoreInv

LEMMA Kinds ==
  ASSUME TypeOK
  PROVE  /\ \A a \in states : a.kind \in StateKinds
         /\ \A p \in mods : p.kind \in ModsKinds
         /\ current.kind \in ModsKinds
  BY DEF TypeOK, StateArchives, Packages, Stamps

LEMMA OpCases ==
  ASSUME TypeOK
  PROVE  \/ op = Idle
         \/ /\ op.kind = "mods_deploy"
            /\ op.target \in Packages
            /\ op.previous \in Packages
            /\ op.predeploy \in StateArchives
            /\ op.phase \in Phases
            /\ op = [kind |-> op.kind, target |-> op.target, previous |-> op.previous,
                     predeploy |-> op.predeploy, phase |-> op.phase]
         \/ /\ op.kind = "state_deploy"
            /\ op.target \in StateArchives
            /\ op.previous \in Packages
            /\ op.predeploy \in StateArchives
            /\ op.phase \in Phases
            /\ op = [kind |-> op.kind, target |-> op.target, previous |-> op.previous,
                     predeploy |-> op.predeploy, phase |-> op.phase]
  BY DEF TypeOK, Deploys
-----------------------------------------------------------------------------
(* What every run of a command leaves of the store, when it adds at most   *)
(* newStates and newMods.                                                  *)
KeepsStore(protect, newStates, newMods) ==
  /\ states' \subseteq states \cup newStates
  /\ mods' \subseteq mods \cup newMods
  /\ states \cap protect \subseteq states'
  /\ Outlives(states, states')
  /\ current \in mods'
  /\ \A a \in states' : a.ref \in mods => a.ref \in mods'

LEMMA BeforeKeeps ==
  ASSUME Inv, NEW protect, NEW other, NEW left \in BeforeBackup(protect, other)
  PROVE  /\ left[1] \subseteq states
         /\ left[2] \subseteq mods
         /\ states \cap protect \subseteq left[1]
         /\ Outlives(states, left[1])
         /\ current \in left[2]
         /\ \A a \in states : a.ref \in mods => a.ref \in left[2]
<1>1. /\ \A a \in states : a.kind \in StateKinds
      /\ \A p \in mods : p.kind \in ModsKinds
      /\ current \in mods
      /\ states \subseteq StateArchives
      /\ IsFiniteSet(states)
  BY Kinds DEF Inv, StoreInv, TypeOK
<1>2. CASE left \in Retained(states, mods, mods, protect, other)
  <2>1. Kept(left, states, mods, mods, protect)
    BY <1>1, <1>2, RetentionKeeps
  <2>2. Outlives(states, left[1])
    <3>1. NewestOf(states) \subseteq left[1]
      BY <2>1 DEF Kept
    <3> QED  BY <1>1, <3>1, NewestOutlives
  <2> QED  BY <1>1, <2>1, <2>2 DEF Kept
<1>3. CASE left = <<states, mods>>
  <2>1. Outlives(states, left[1])
    BY <1>1, <1>3, OutlivesSubset
  <2> QED  BY <1>1, <1>3, <2>1
<1> QED  BY <1>2, <1>3, Zenon DEF BeforeBackup

LEMMA RefusedKeeps ==
  ASSUME Inv, NEW protect, NEW other, BackupRefused(protect, other)
  PROVE  KeepsStore(protect, {}, {})
<1>1. PICK left \in BeforeBackup(protect, other) :
        states' = left[1] /\ mods' = left[2]
  BY Zenon DEF BackupRefused
<1>2. /\ left[1] \subseteq states
      /\ left[2] \subseteq mods
      /\ states \cap protect \subseteq left[1]
      /\ Outlives(states, left[1])
      /\ current \in left[2]
      /\ \A a \in states : a.ref \in mods => a.ref \in left[2]
  BY BeforeKeeps
<1> QED  BY <1>1, <1>2 DEF KeepsStore

LEMMA NewArchive ==
  ASSUME Inv, NEW sort \in StateKinds, NEW new \in NewStates(sort)
  PROVE  new \in StateArchives /\ new.kind = sort /\ new.ref = current
<1>1. PICK c \in 0..Cardinality(states) :
        new = [kind |-> sort, time |-> now, coll |-> c, ref |-> current]
  BY DEF NewStates
<1>2. c \in Nat
  <2>1. Cardinality(states) \in Nat
    BY FS_CardinalityType DEF Inv, StoreInv
  <2> QED  BY <1>1, <2>1
<1>3. now \in 0..(Horizon + ImportAhead) /\ current \in Packages
  <2>1. Horizon \in Nat /\ ImportAhead \in Nat
    BY BackupStoreAssumption
  <2> QED  BY <2>1 DEF Inv, TypeOK
<1> QED  BY <1>1, <1>2, <1>3 DEF StateArchives

LEMMA MadeKeeps ==
  ASSUME Inv, NEW sort \in StateKinds, NEW protect, NEW other,
         NEW new \in NewStates(sort), BackupMade(sort, protect, other, new)
  PROVE  KeepsStore(protect, {new}, {})
<1>1. PICK left \in BeforeBackup(protect, other) :
        \E kept \in Retained(left[1] \cup {new}, left[2], {}, protect, other) :
          states' = kept[1] /\ mods' = kept[2]
  BY Zenon DEF BackupMade
<1>2. PICK kept \in Retained(left[1] \cup {new}, left[2], {}, protect, other) :
        states' = kept[1] /\ mods' = kept[2]
  BY <1>1, Zenon
<1>3. /\ left[1] \subseteq states
      /\ left[2] \subseteq mods
      /\ states \cap protect \subseteq left[1]
      /\ Outlives(states, left[1])
      /\ current \in left[2]
      /\ \A a \in states : a.ref \in mods => a.ref \in left[2]
  BY BeforeKeeps
<1>4. new.kind \in StateKinds /\ new.ref = current /\ new \in StateArchives
  BY NewArchive
<1>5. /\ \A a \in left[1] \cup {new} : a.kind \in StateKinds
      /\ \A p \in left[2] : p.kind \in ModsKinds
  BY <1>3, <1>4, Kinds DEF Inv
<1>6. /\ kept[1] \subseteq left[1] \cup {new}
      /\ (left[1] \cup {new}) \cap protect \subseteq kept[1]
      /\ NewestOf(left[1] \cup {new}) \subseteq kept[1]
      /\ kept[2] = left[2]
  <2>1. Kept(kept, left[1] \cup {new}, left[2], {}, protect)
    BY <1>5, RetentionKeeps
  <2> QED  BY <2>1 DEF Kept
<1>7. Outlives(states, kept[1])
  <2>1. /\ states \subseteq StateArchives
        /\ left[1] \cup {new} \subseteq StateArchives
        /\ kept[1] \subseteq StateArchives
    BY <1>3, <1>4, <1>6 DEF Inv, TypeOK
  <2>2. IsFiniteSet(left[1] \cup {new})
    BY <1>3, FS_Subset, FS_AddElement DEF Inv, StoreInv
  <2>3. Outlives(left[1] \cup {new}, kept[1])
    BY <1>6, <2>1, <2>2, NewestOutlives
  <2>4. Outlives(left[1], kept[1])
    BY <2>3 DEF Outlives
  <2> QED  BY <1>3, <2>1, <2>4, OutlivesTransitive
<1> QED  BY <1>2, <1>3, <1>4, <1>6, <1>7 DEF KeepsStore

LEMMA FullKeeps ==
  ASSUME Inv, NEW other, NEW package, package.kind \in ModsKinds,
         NEW m, m = mods \cup {package} \/ m = mods,
         NEW protect,
         \E kept \in Retained(states, m, m, protect, other) :
            states' = kept[1] /\ mods' = kept[2]
  PROVE  KeepsStore(protect, {}, m)
<1>1. PICK kept \in Retained(states, m, m, protect, other) :
        states' = kept[1] /\ mods' = kept[2]
  BY Zenon
<1>2. /\ \A a \in states : a.kind \in StateKinds
      /\ \A p \in m : p.kind \in ModsKinds
      /\ current \in m
      /\ mods \subseteq m
  BY Kinds DEF Inv, StoreInv
<1>3. /\ kept[1] \subseteq states
      /\ kept[2] \subseteq m
      /\ states \cap protect \subseteq kept[1]
      /\ NewestOf(states) \subseteq kept[1]
      /\ current \in m => current \in kept[2]
      /\ \A a \in states : a.ref \in m => a.ref \in kept[2]
  <2>1. Kept(kept, states, m, m, protect)
    BY <1>2, RetentionKeeps
  <2> QED  BY <2>1 DEF Kept
<1>4. Outlives(states, kept[1])
  <2>1. states \subseteq StateArchives /\ IsFiniteSet(states)
    BY DEF Inv, StoreInv, TypeOK
  <2> QED  BY <1>3, <2>1, NewestOutlives
<1> QED  BY <1>1, <1>2, <1>3, <1>4 DEF KeepsStore

(* A kept store is well typed and finite.                                  *)
LEMMA StoreTyped ==
  ASSUME Inv, NEW protect, NEW newStates, NEW newMods,
         newStates \subseteq StateArchives, IsFiniteSet(newStates),
         newMods \subseteq Packages,
         KeepsStore(protect, newStates, newMods)
  PROVE  /\ states' \subseteq StateArchives
         /\ mods' \subseteq Packages
         /\ IsFiniteSet(states')
         /\ current \in mods'
<1>1. states' \subseteq states \cup newStates /\ mods' \subseteq mods \cup newMods /\ current \in mods'
  BY DEF KeepsStore
<1>2. states \subseteq StateArchives /\ mods \subseteq Packages
  BY DEF Inv, TypeOK
<1>3. IsFiniteSet(states \cup newStates)
  BY FS_Union DEF Inv, StoreInv
<1>4. IsFiniteSet(states')
  BY <1>1, <1>3, FS_Subset
<1> QED  BY <1>1, <1>2, <1>4
-----------------------------------------------------------------------------
(* What a step may not take: the package of a remaining archive, and an    *)
(* archive without a newer one to show for it.                             *)
NothingLost ==
  /\ \A a \in states' : a.ref \in mods => a.ref \in mods'
  /\ Outlives(states, states')

LEMMA SameStates ==
  ASSUME Inv, states' = states
  PROVE  Outlives(states, states')
<1>1. states \in SUBSET StateArchives
  BY DEF Inv, TypeOK
<1> QED  BY <1>1, OutlivesSubset

LEMMA NoTimeLost == Horizon \in Nat /\ ImportAhead \in Nat
BY BackupStoreAssumption

LEMMA InitInv == Init => Inv
<1> SUFFICES ASSUME Init  PROVE Inv
  OBVIOUS
<1>1. Bootstrap \in Packages
  BY NoTimeLost DEF Bootstrap, Packages, Stamps, ModsKinds
<1>2. now \in 0..Horizon /\ imports \in 0..MaxImports
  BY BackupStoreAssumption DEF Init
<1>3. TypeOK
  BY <1>1, <1>2 DEF Init, TypeOK
<1>4. StoreInv
  BY FS_EmptySet DEF Init, StoreInv, Idle
<1> QED  BY <1>3, <1>4 DEF Inv

(* A command that ends leaving no deploy under way.                        *)
LEMMA CommandKeeps ==
  ASSUME Inv, NEW protect, NEW newStates, NEW newMods,
         newStates \subseteq StateArchives, IsFiniteSet(newStates),
         newMods \subseteq Packages,
         KeepsStore(protect, newStates, newMods),
         op' = Idle, imports' \in 0..MaxImports,
         UNCHANGED <<current, damaged, currentDamaged, now>>
  PROVE  Inv' /\ NothingLost
<1>1. /\ states' \subseteq StateArchives
      /\ mods' \subseteq Packages
      /\ IsFiniteSet(states')
      /\ current \in mods'
  BY StoreTyped
<1>2. TypeOK'
  BY <1>1 DEF Inv, TypeOK
<1>3. StoreInv'
  BY <1>1 DEF StoreInv, Idle
<1> QED  BY <1>2, <1>3 DEF Inv, NothingLost, KeepsStore

(* The first half of a deploy, when what it chose is what it protects.     *)
LEMMA PrepareKeeps ==
  ASSUME Inv, NEW sort, NEW target, NEW protect, NEW other,
         Prepare(sort, target, protect, other),
         \/ sort = "mods_deploy" /\ target \in Packages
         \/ sort = "state_deploy" /\ target \in states /\ protect = {target}
  PROVE  Inv' /\ NothingLost
<1>1. UNCHANGED <<current, damaged, currentDamaged, now, imports>>
  BY Zenon DEF Prepare
<1>2. imports' \in 0..MaxImports
  BY <1>1 DEF Inv, TypeOK
<1>3. CASE BackupRefused(protect, other) /\ op' = Idle
  <2>1. KeepsStore(protect, {}, {})
    BY <1>3, RefusedKeeps
  <2> QED  BY <1>1, <1>2, <1>3, <2>1, CommandKeeps, FS_EmptySet
<1>4. CASE \E new \in NewStates("predeploy") :
             /\ BackupMade("predeploy", protect, other, new)
             /\ op' = [kind |-> sort, target |-> target, previous |-> current,
                       predeploy |-> new, phase |-> "prepared"]
  <2>1. PICK new \in NewStates("predeploy") :
          /\ BackupMade("predeploy", protect, other, new)
          /\ op' = [kind |-> sort, target |-> target, previous |-> current,
                    predeploy |-> new, phase |-> "prepared"]
    BY <1>4
  <2>2. "predeploy" \in StateKinds
    BY DEF StateKinds
  <2>3. KeepsStore(protect, {new}, {})
    BY <2>1, <2>2, MadeKeeps
  <2>4. new \in StateArchives
    BY <2>2, NewArchive
  <2>5. IsFiniteSet({new})
    BY FS_Singleton
  <2>6. /\ states' \subseteq StateArchives
        /\ mods' \subseteq Packages
        /\ IsFiniteSet(states')
        /\ current \in mods'
    BY <2>3, <2>4, <2>5, StoreTyped
  <2>7. current \in Packages /\ states \subseteq StateArchives
    BY DEF Inv, TypeOK
  <2>8. op' \in Deploys
    BY <2>1, <2>4, <2>7 DEF Deploys, Phases
  <2>9. TypeOK'
    BY <1>1, <2>6, <2>8 DEF Inv, TypeOK
  <2>10. sort = "state_deploy" => target \in states'
    BY <2>3 DEF KeepsStore
  <2>11. StoreInv'
    BY <1>1, <2>1, <2>6, <2>10 DEF StoreInv
  <2> QED  BY <2>3, <2>9, <2>11 DEF Inv, NothingLost, KeepsStore
<1> QED  BY <1>3, <1>4, Zenon DEF Prepare

LEMMA Imported ==
  ASSUME Inv
  PROVE  /\ Importable(ModsKinds) \subseteq Packages
         /\ ImportableStates \subseteq StateArchives
<1>1. 0..(now + ImportAhead) \subseteq 0..(Horizon + ImportAhead)
  BY NoTimeLost DEF Inv, TypeOK
<1>2. Importable(ModsKinds) \subseteq Packages
  BY <1>1 DEF Importable, Packages, Stamps
<1>3. mods \cup {Foreign} \subseteq Packages
  BY NoTimeLost DEF Inv, TypeOK, Foreign, Packages, Stamps, ModsKinds
<1>4. ASSUME NEW a \in ImportableStates  PROVE a \in StateArchives
  <2>1. PICK n \in Importable(StateKinds), r \in mods \cup {Foreign} :
          a = [kind |-> n.kind, time |-> n.time, coll |-> n.coll, ref |-> r]
    BY DEF ImportableStates
  <2>2. n.kind \in StateKinds /\ n.time \in 0..(Horizon + ImportAhead) /\ n.coll \in Nat
    BY <1>1 DEF Importable
  <2> QED  BY <1>3, <2>1, <2>2 DEF StateArchives
<1> QED  BY <1>2, <1>4

LEMMA ImportStateStore ==
  ASSUME Inv, NEW archive \in StateArchives, NEW keepMods, NEW other,
         ImportState(archive, keepMods, other)
  PROVE  KeepsStore({}, {archive}, {})
<1>1. PICK kept \in Retained(states \cup {archive}, mods, {}, {archive}, other) :
        states' = kept[1] /\ mods' = kept[2]
  BY Zenon DEF ImportState
<1>2. /\ \A a \in states \cup {archive} : a.kind \in StateKinds
      /\ \A p \in mods : p.kind \in ModsKinds
      /\ current \in mods
  BY Kinds DEF Inv, StoreInv, StateArchives
<1>3. Kept(kept, states \cup {archive}, mods, {}, {archive})
  BY <1>2, RetentionKeeps
<1>4. Outlives(states, kept[1])
  <2>1. /\ states \in SUBSET StateArchives
        /\ states \cup {archive} \subseteq StateArchives
        /\ IsFiniteSet(states \cup {archive})
    BY FS_AddElement DEF Inv, StoreInv, TypeOK
  <2>2. Outlives(states \cup {archive}, kept[1])
    BY <1>3, <2>1, NewestOutlives DEF Kept
  <2> QED  BY <2>2 DEF Outlives
<1> QED  BY <1>1, <1>2, <1>3, <1>4 DEF Kept, KeepsStore

LEMMA ImportStateKeeps ==
  ASSUME Inv, NEW archive \in StateArchives, NEW keepMods, NEW other,
         ImportState(archive, keepMods, other)
  PROVE  Inv' /\ NothingLost
<1>1. KeepsStore({}, {archive}, {})
  BY ImportStateStore
<1>2. imports' \in 0..MaxImports
  BY BackupStoreAssumption DEF ImportState, Inv, TypeOK
<1>3. op' = Idle /\ UNCHANGED <<current, damaged, currentDamaged, now>>
  BY DEF ImportState
<1>4. IsFiniteSet({archive})
  BY FS_Singleton
<1> QED  BY <1>1, <1>2, <1>3, <1>4, CommandKeeps
-----------------------------------------------------------------------------
(* Inv is inductive, and no step takes what it may not.                    *)
LEMMA StepInv ==
  ASSUME Inv, [Next]_vars
  PROVE  Inv' /\ NothingLost
<1>0. states' = states => Outlives(states, states')
  BY SameStates
<1> USE DEF Inv
<1>1. CASE UNCHANGED vars
  BY <1>0, <1>1 DEF vars, TypeOK, StoreInv, NothingLost
<1>2. CASE Tick
  <2>1. now' \in 0..Horizon
    BY <1>2, NoTimeLost DEF Tick, TypeOK
  <2> QED  BY <1>0, <1>2, <2>1 DEF Tick, TypeOK, StoreInv, NothingLost
<1>3. CASE Damage
  <2>1. damaged' \subseteq StateArchives /\ currentDamaged' \in BOOLEAN
    BY <1>3 DEF Damage, TypeOK
  <2> QED  BY <1>0, <1>3, <2>1 DEF Damage, TypeOK, StoreInv, NothingLost
<1>4. CASE Stage
  <2>1. /\ UNCHANGED <<states, mods, current, damaged, currentDamaged, now, imports>>
        /\ op # Idle
        /\ op' = [op EXCEPT !.phase = "staged"]
        /\ op.target \in (IF op.kind = "mods_deploy" THEN mods ELSE states)
    BY <1>4 DEF Stage
  <2>2. op' \in Deploys /\ op'.kind = op.kind /\ op'.target = op.target
        /\ op'.previous = op.previous /\ op'.phase = "staged"
    BY <2>1 DEF TypeOK, Deploys, Phases
  <2>3. TypeOK'
    BY <2>1, <2>2 DEF TypeOK
  <2>4. StoreInv'
    BY <2>1, <2>2 DEF StoreInv
  <2> QED  BY <1>0, <2>1, <2>3, <2>4 DEF NothingLost
<1>5. CASE PublishMods
  <2>1. /\ UNCHANGED <<states, mods, damaged, now, imports>>
        /\ op # Idle
        /\ op.kind = "mods_deploy"
        /\ op.phase = "staged"
        /\ current' = op.target
        /\ currentDamaged' = FALSE
        /\ op' = [op EXCEPT !.phase = "published"]
    BY <1>5 DEF PublishMods
  <2>2. op' \in Deploys /\ op'.kind = "mods_deploy" /\ op'.target = op.target
        /\ op'.previous = op.previous /\ op.target \in Packages
    BY <2>1 DEF TypeOK, Deploys, Phases
  <2>3. TypeOK'
    BY <2>1, <2>2 DEF TypeOK
  <2>4. StoreInv'
    BY <2>1, <2>2 DEF StoreInv
  <2> QED  BY <1>0, <2>1, <2>3, <2>4 DEF NothingLost
<1>6. CASE UnpublishMods
  <2>1. /\ UNCHANGED <<states, mods, damaged, currentDamaged, now, imports>>
        /\ op # Idle
        /\ op.phase = "published"
        /\ current' = op.previous
        /\ op' = Idle
    BY <1>6 DEF UnpublishMods
  <2>2. op.kind = "mods_deploy" /\ op.previous \in Packages /\ op.previous \in mods
    BY <2>1, OpCases DEF StoreInv
  <2>3. TypeOK'
    BY <2>1, <2>2 DEF TypeOK
  <2>4. StoreInv'
    BY <2>1, <2>2 DEF StoreInv, Idle
  <2> QED  BY <1>0, <2>1, <2>3, <2>4 DEF NothingLost
<1>7. CASE Leave
  BY <1>0, <1>7 DEF Leave, TypeOK, StoreInv, Idle, NothingLost
<1>8. ASSUME NEW other \in Others, NEW sort \in {"auto", "manual"},
             CreateBackup(sort, other)
      PROVE  Inv' /\ NothingLost
  <2>1. /\ op' = Idle
        /\ UNCHANGED <<current, damaged, currentDamaged, now>>
        /\ imports' \in 0..MaxImports
    BY <1>8 DEF CreateBackup, TypeOK
  <2>2. CASE BackupRefused({}, other)
    <3>1. KeepsStore({}, {}, {})
      BY <2>2, RefusedKeeps
    <3> QED  BY <2>1, <3>1, CommandKeeps, FS_EmptySet
  <2>3. CASE \E new \in NewStates(sort) : BackupMade(sort, {}, other, new)
    <3>1. PICK new \in NewStates(sort) : BackupMade(sort, {}, other, new)
      BY <2>3
    <3>2. sort \in StateKinds
      BY DEF StateKinds
    <3>3. KeepsStore({}, {new}, {}) /\ new \in StateArchives
      BY <3>1, <3>2, MadeKeeps, NewArchive
    <3>4. IsFiniteSet({new})
      BY FS_Singleton
    <3> QED  BY <2>1, <3>3, <3>4, CommandKeeps
  <2> QED  BY <1>8, <2>2, <2>3 DEF CreateBackup
<1>9. ASSUME NEW other \in Others, PruneBackups(other)
      PROVE  Inv' /\ NothingLost
  <2>1. /\ op' = Idle
        /\ UNCHANGED <<current, damaged, currentDamaged, now>>
        /\ imports' \in 0..MaxImports
        /\ current.kind \in ModsKinds /\ mods \subseteq Packages
    BY <1>9, Kinds DEF PruneBackups, TypeOK
  <2>2. \E kept \in Retained(states, mods, mods, {}, other) :
          states' = kept[1] /\ mods' = kept[2]
    BY <1>9, Zenon DEF PruneBackups
  <2>3. KeepsStore({}, {}, mods)
    BY <2>1, <2>2, FullKeeps
  <2> QED  BY <2>1, <2>3, CommandKeeps, FS_EmptySet
<1>10. ASSUME NEW other \in Others, FinishModsDeploy(other)
       PROVE  Inv' /\ NothingLost
  <2>1. /\ op' = Idle
        /\ UNCHANGED <<current, damaged, currentDamaged, now>>
        /\ imports' \in 0..MaxImports
        /\ current.kind \in ModsKinds /\ mods \subseteq Packages
    BY <1>10, Kinds DEF FinishModsDeploy, TypeOK
  <2>2. \E kept \in Retained(states, mods, mods, {}, other) :
          states' = kept[1] /\ mods' = kept[2]
    BY <1>10, Zenon DEF FinishModsDeploy
  <2>3. KeepsStore({}, {}, mods)
    BY <2>1, <2>2, FullKeeps
  <2> QED  BY <2>1, <2>3, CommandKeeps, FS_EmptySet
<1>11. ASSUME NEW other \in Others, NEW package \in Importable(ModsKinds),
              ImportMods(package, other)
       PROVE  Inv' /\ NothingLost
  <2> DEFINE m == mods \cup {package}
  <2>1. /\ op' = Idle
        /\ UNCHANGED <<current, damaged, currentDamaged, now>>
    BY <1>11 DEF ImportMods
  <2>2. imports' \in 0..MaxImports
    BY <1>11, BackupStoreAssumption DEF ImportMods, TypeOK
  <2>3. package \in Packages
    BY <1>11, Imported
  <2>4. package.kind \in ModsKinds
    BY <2>3 DEF Packages, Stamps
  <2>5. m \subseteq Packages
    BY <2>3 DEF TypeOK
  <2>6. \E kept \in Retained(states, m, m, {package}, other) :
          states' = kept[1] /\ mods' = kept[2]
    BY <1>11, Zenon DEF ImportMods
  <2>7. KeepsStore({package}, {}, m)
    <3> HIDE DEF m
    <3>1. m = mods \cup {package}
      BY DEF m
    <3> QED  BY <2>4, <2>6, <3>1, FullKeeps
  <2> QED  BY <2>1, <2>2, <2>5, <2>7, CommandKeeps, FS_EmptySet
<1>12. ASSUME NEW other \in Others, NEW archive \in ImportableStates,
              NEW keepMods \in BOOLEAN, ImportState(archive, keepMods, other)
       PROVE  Inv' /\ NothingLost
  <2>1. archive \in StateArchives
    BY Imported
  <2> QED  BY <1>12, <2>1, ImportStateKeeps
<1>13. ASSUME NEW other \in Others, NEW target \in mods, BeginModsDeploy(target, other)
       PROVE  Inv' /\ NothingLost
  <2>1. target \in Packages
    BY DEF TypeOK
  <2>2. Prepare("mods_deploy", target, {}, other)
    BY <1>13 DEF BeginModsDeploy
  <2> QED  BY <2>1, <2>2, PrepareKeeps
<1>14. ASSUME NEW other \in Others, NEW target \in states, NEW keepMods \in BOOLEAN,
              BeginStateDeploy(target, keepMods, other)
       PROVE  Inv' /\ NothingLost
  <2>1. Prepare("state_deploy", target, {target}, other)
    BY <1>14 DEF BeginStateDeploy
  <2> QED  BY <2>1, PrepareKeeps
<1> QED
  BY <1>1, <1>2, <1>3, <1>4, <1>5, <1>6, <1>7, <1>8, <1>9, <1>10, <1>11, <1>12,
     <1>13, <1>14, Zenon DEF Next

(* With names that do not lie ahead of the clock, and no two archives of   *)
(* one second, the archive a command makes is the newest there is.         *)
NamesInTime == ImportAhead = 0 /\ MaxPerTick = 1

DatedInv ==
  /\ \A s \in states : s.time <= now
  /\ WayBackKept

LEMMA MadeIsKept ==
  ASSUME Inv, NamesInTime, DatedInv, NEW sort \in StateKinds, NEW protect, NEW other,
         NEW new \in NewStates(sort), BackupMade(sort, protect, other, new)
  PROVE  new.time = now /\ new \in states'
<1>1. /\ Cardinality({f \in states : f.time = now}) < MaxPerTick
      /\ \E left \in BeforeBackup(protect, other) :
           \E kept \in Retained(left[1] \cup {new}, left[2], {}, protect, other) :
             states' = kept[1] /\ mods' = kept[2]
  BY Zenon DEF BackupMade
<1>2. PICK left \in BeforeBackup(protect, other) :
        \E kept \in Retained(left[1] \cup {new}, left[2], {}, protect, other) :
          states' = kept[1] /\ mods' = kept[2]
  BY <1>1, Zenon
<1>3. PICK kept \in Retained(left[1] \cup {new}, left[2], {}, protect, other) :
        states' = kept[1] /\ mods' = kept[2]
  BY <1>2, Zenon
<1>4. left[1] \subseteq states /\ left[2] \subseteq mods
  BY BeforeKeeps
<1>5. new.time = now
  BY DEF NewStates
<1>6. new \in StateArchives
  BY NewArchive
<1>7. ASSUME NEW f \in states  PROVE f.time < now
  <2> DEFINE sameTime == {g \in states : g.time = now}
  <2>1. IsFiniteSet(sameTime)
    BY FS_Subset DEF Inv, StoreInv
  <2>2. Cardinality(sameTime) < 1
    BY <1>1 DEF NamesInTime
  <2>3. sameTime = {}
    <3> HIDE DEF sameTime
    <3>1. Cardinality(sameTime) \in Nat
      BY <2>1, FS_CardinalityType
    <3> QED  BY <2>1, <2>2, <3>1, FS_EmptySet
  <2>4. f.time \in Nat
    BY ArchiveFields DEF Inv, TypeOK
  <2>5. f.time # now
    BY <2>3
  <2>6. now \in Nat
    BY DEF Inv, TypeOK
  <2> QED  BY <2>4, <2>5, <2>6 DEF DatedInv
<1>8. new \in NewestOf(left[1] \cup {new})
  <2>1. ASSUME NEW g \in left[1]  PROVE ~Newer(g, new)
    <3>1. g \in StateArchives /\ g.time < now
      BY <1>4, <1>7 DEF Inv, TypeOK
    <3>2. g.time \in Nat /\ now \in Nat
      BY <3>1, ArchiveFields DEF Inv, TypeOK
    <3> QED  BY <1>5, <3>1, <3>2 DEF Newer
  <2>2. ~Newer(new, new)
    BY <1>6, NewerOrders
  <2> QED  BY <2>1, <2>2 DEF NewestOf
<1>9. Kept(kept, left[1] \cup {new}, left[2], {}, protect)
  <2>1. /\ \A a \in left[1] \cup {new} : a.kind \in StateKinds
        /\ \A p \in left[2] : p.kind \in ModsKinds
    BY <1>4, <1>6, ArchiveFields, Kinds DEF Inv
  <2> QED  BY <1>3, <2>1, RetentionKeeps
<1> QED  BY <1>3, <1>5, <1>8, <1>9 DEF Kept

(* A command that leaves no deploy under way adds only dated archives.     *)
LEMMA CommandDated ==
  ASSUME DatedInv, NEW protect, NEW newStates, NEW newMods,
         KeepsStore(protect, newStates, newMods),
         \A s \in newStates : s.time <= now,
         op' = Idle, now' = now
  PROVE  DatedInv'
<1>1. states' \subseteq states \cup newStates
  BY DEF KeepsStore
<1> QED  BY <1>1 DEF DatedInv, WayBackKept

LEMMA PrepareDated ==
  ASSUME Inv, NamesInTime, DatedInv, NEW sort, NEW target, NEW protect, NEW other,
         Prepare(sort, target, protect, other)
  PROVE  DatedInv'
<1>1. now' = now
  BY Zenon DEF Prepare
<1>2. CASE BackupRefused(protect, other) /\ op' = Idle
  <2>1. KeepsStore(protect, {}, {})
    BY <1>2, RefusedKeeps
  <2> QED  BY <1>1, <1>2, <2>1, CommandDated
<1>3. CASE \E new \in NewStates("predeploy") :
             /\ BackupMade("predeploy", protect, other, new)
             /\ op' = [kind |-> sort, target |-> target, previous |-> current,
                       predeploy |-> new, phase |-> "prepared"]
  <2>1. PICK new \in NewStates("predeploy") :
          /\ BackupMade("predeploy", protect, other, new)
          /\ op' = [kind |-> sort, target |-> target, previous |-> current,
                    predeploy |-> new, phase |-> "prepared"]
    BY <1>3
  <2>2. "predeploy" \in StateKinds
    BY DEF StateKinds
  <2>3. new.time = now /\ new \in states'
    BY <2>1, <2>2, MadeIsKept
  <2>4. states' \subseteq states \cup {new}
    BY <2>1, <2>2, MadeKeeps DEF KeepsStore
  <2>5. op'.predeploy = new
    BY <2>1
  <2>6. now \in Nat
    BY DEF Inv, TypeOK
  <2> QED  BY <1>1, <2>3, <2>4, <2>5, <2>6 DEF DatedInv, WayBackKept
<1> QED  BY <1>2, <1>3, Zenon DEF Prepare

LEMMA InitDated == Init => DatedInv
BY DEF Init, DatedInv, WayBackKept

(* No step leaves an archive from the future or a deploy without its way   *)
(* back.                                                                   *)
LEMMA StepDated ==
  ASSUME Inv, NamesInTime, DatedInv, [Next]_vars
  PROVE  DatedInv'
<1>0. now \in Nat /\ \A s \in states : s.time \in Nat
  BY ArchiveFields DEF Inv, TypeOK
<1>1. CASE UNCHANGED vars
  BY <1>1 DEF vars, DatedInv, WayBackKept
<1>2. CASE Tick
  BY <1>0, <1>2 DEF Tick, DatedInv, WayBackKept
<1>3. CASE Damage
  BY <1>3 DEF Damage, DatedInv, WayBackKept
<1>4. CASE Stage
  <2>1. /\ UNCHANGED <<states, now>>
        /\ op # Idle
        /\ op' = [op EXCEPT !.phase = "staged"]
    BY <1>4 DEF Stage
  <2>2. op'.predeploy = op.predeploy
    BY <2>1 DEF Inv, TypeOK, Deploys
  <2> QED  BY <2>1, <2>2 DEF DatedInv, WayBackKept
<1>5. CASE PublishMods
  <2>1. /\ UNCHANGED <<states, now>>
        /\ op # Idle
        /\ op' = [op EXCEPT !.phase = "published"]
    BY <1>5 DEF PublishMods
  <2>2. op'.predeploy = op.predeploy
    BY <2>1 DEF Inv, TypeOK, Deploys
  <2> QED  BY <2>1, <2>2 DEF DatedInv, WayBackKept
<1>6. CASE UnpublishMods
  BY <1>6 DEF UnpublishMods, DatedInv, WayBackKept
<1>7. CASE Leave
  BY <1>7 DEF Leave, DatedInv, WayBackKept
<1>8. ASSUME NEW other \in Others, NEW sort \in {"auto", "manual"},
             CreateBackup(sort, other)
      PROVE  DatedInv'
  <2>1. op = Idle /\ op' = op /\ now' = now
    BY <1>8, Zenon DEF CreateBackup
  <2>2. CASE BackupRefused({}, other)
    <3>1. KeepsStore({}, {}, {})
      BY <2>2, RefusedKeeps
    <3> QED  BY <2>1, <3>1, CommandDated
  <2>3. CASE \E new \in NewStates(sort) : BackupMade(sort, {}, other, new)
    <3>1. PICK new \in NewStates(sort) : BackupMade(sort, {}, other, new)
      BY <2>3
    <3>2. sort \in StateKinds
      BY DEF StateKinds
    <3>3. KeepsStore({}, {new}, {}) /\ new.time = now
      BY <3>1, <3>2, MadeKeeps, MadeIsKept
    <3> QED  BY <1>0, <2>1, <3>3, CommandDated
  <2> QED  BY <1>8, <2>2, <2>3, Zenon DEF CreateBackup
<1>9. ASSUME NEW other \in Others, PruneBackups(other) \/ FinishModsDeploy(other)
      PROVE  DatedInv'
  <2>1. /\ op' = Idle /\ now' = now
        /\ \E kept \in Retained(states, mods, mods, {}, other) :
             states' = kept[1] /\ mods' = kept[2]
    BY <1>9, Zenon DEF PruneBackups, FinishModsDeploy
  <2>2. current.kind \in ModsKinds
    BY Kinds DEF Inv
  <2>3. KeepsStore({}, {}, mods)
    BY <2>1, <2>2, FullKeeps
  <2> QED  BY <2>1, <2>3, CommandDated
<1>10. ASSUME NEW other \in Others, NEW package \in Importable(ModsKinds),
              ImportMods(package, other)
       PROVE  DatedInv'
  <2> DEFINE m == mods \cup {package}
  <2>1. op = Idle /\ op' = op /\ now' = now
    BY <1>10, Zenon DEF ImportMods
  <2>2. package.kind \in ModsKinds
    BY Imported DEF Packages, Stamps
  <2>3. \E kept \in Retained(states, m, m, {package}, other) :
          states' = kept[1] /\ mods' = kept[2]
    BY <1>10, Zenon DEF ImportMods
  <2>4. KeepsStore({package}, {}, m)
    <3> HIDE DEF m
    <3>1. m = mods \cup {package}
      BY DEF m
    <3> QED  BY <2>2, <2>3, <3>1, FullKeeps
  <2> QED  BY <2>1, <2>4, CommandDated
<1>11. ASSUME NEW other \in Others, NEW archive \in ImportableStates,
              NEW keepMods \in BOOLEAN, ImportState(archive, keepMods, other)
       PROVE  DatedInv'
  <2>1. op = Idle /\ op' = op /\ now' = now
    BY <1>11, Zenon DEF ImportState
  <2>2. archive.time <= now
    <3>1. PICK n \in Importable(StateKinds), r \in mods \cup {Foreign} :
            archive = [kind |-> n.kind, time |-> n.time, coll |-> n.coll, ref |-> r]
      BY DEF ImportableStates
    <3>2. n.time \in 0..(now + 0)
      BY DEF Importable, NamesInTime
    <3> QED  BY <1>0, <3>1, <3>2
  <2>3. KeepsStore({}, {archive}, {})
    BY <1>11, Imported, ImportStateStore
  <2> QED  BY <2>1, <2>2, <2>3, CommandDated
<1>12. ASSUME NEW other \in Others, NEW target \in mods, BeginModsDeploy(target, other)
       PROVE  DatedInv'
  BY <1>12, PrepareDated DEF BeginModsDeploy
<1>13. ASSUME NEW other \in Others, NEW target \in states, NEW keepMods \in BOOLEAN,
              BeginStateDeploy(target, keepMods, other)
       PROVE  DatedInv'
  BY <1>13, PrepareDated DEF BeginStateDeploy
<1> QED
  BY <1>1, <1>2, <1>3, <1>4, <1>5, <1>6, <1>7, <1>8, <1>9, <1>10, <1>11, <1>12,
     <1>13, Zenon DEF Next

(* The invariant every theorem below is read off.                          *)
THEOREM StoreInvariant == Spec => []Inv
<1>1. Init => Inv
  BY InitInv
<1>2. Inv /\ [Next]_vars => Inv'
  BY StepInv
<1> QED  BY <1>1, <1>2, PTL DEF Spec

(* Every variable keeps its type, whatever is imported, deployed, damaged  *)
(* or pruned (backups.go, mods.go, state_import.go).                       *)
THEOREM StoreTypes == Spec => []TypeOK
<1>1. Inv => TypeOK
  BY DEF Inv
<1> QED  BY <1>1, StoreInvariant, PTL

(* The package current.txt names is never missing from backups/mods: not   *)
(* after retention under pressure, a failed or rolled-back deploy, or a    *)
(* crash between any two steps, and for any keep counts and windows.       *)
THEOREM CurrentSafe == Spec => []CurrentExists
<1>1. Inv => CurrentExists
  BY DEF Inv, StoreInv, CurrentExists
<1> QED  BY <1>1, StoreInvariant, PTL

(* The archive a state deploy was asked to restore survives the retention  *)
(* that its own predeploy backup runs, however full the disk is            *)
(* (retention.Options.ProtectedState).                                     *)
THEOREM StateTargetSafe == Spec => []StateTargetKept
<1>1. Inv => StateTargetKept
  BY DEF Inv, StoreInv, StateTargetKept
<1> QED  BY <1>1, StoreInvariant, PTL

(* Both at once: neither pointer of the store is ever left without its     *)
(* archive.                                                                *)
THEOREM TargetsSafe == Spec => []TargetsKept
<1>1. CurrentExists /\ StateTargetKept => TargetsKept
  BY DEF TargetsKept
<1> QED  BY <1>1, CurrentSafe, StateTargetSafe, PTL

(* No command deletes the package that a remaining state archive was taken *)
(* with, also when that archive's metadata is unreadable.                  *)
THEOREM ReferencesSafe == Spec => ReferencedKept
<1>1. Inv /\ [Next]_vars =>
        [\A s \in states' : s.ref \in mods => s.ref \in mods']_vars
  BY StepInv DEF NothingLost
<1> QED  BY <1>1, StoreInvariant, PTL DEF Spec, ReferencedKept

(* The newest state archive is never deleted without a newer one in its    *)
(* place, for every keep count, window and budget, with names that lie     *)
(* ahead of the clock and with deletions that fail: the planner protects   *)
(* the newest file of the directory (plan.go:84-88), and a backup that     *)
(* first runs full retention chains two such runs.                         *)
THEOREM NewestSafe == Spec => [][NewestStays]_vars
<1>1. Inv /\ [Next]_vars => [NewestStays]_vars
  BY StepInv DEF NothingLost, Outlives, NewestStays
<1> QED  BY <1>1, StoreInvariant, PTL DEF Spec

(* While no name lies ahead of the clock, also the predeploy archive of a  *)
(* deploy outlasts every step of that deploy: it is the newest archive     *)
(* when retention first sees it.  (createStateBackupLocked does not        *)
(* protect it, so names from the future take this away: WayBackKept.)      *)
THEOREM NewestKeptSafe == NamesInTime => (Spec => NewestKept)
<1> SUFFICES ASSUME NamesInTime  PROVE Spec => NewestKept
  OBVIOUS
<1>1. Init => Inv /\ DatedInv
  BY InitInv, InitDated
<1>2. (Inv /\ DatedInv) /\ [Next]_vars => (Inv /\ DatedInv)'
  BY StepInv, StepDated
<1>3. Inv /\ DatedInv /\ [Next]_vars => [NewestStays /\ WayBackKept']_vars
  BY StepInv, StepDated DEF NothingLost, Outlives, NewestStays, DatedInv
<1> QED  BY <1>1, <1>2, <1>3, PTL DEF Spec, NewestKept

(***************************************************************************)
(* RetentionRuns: the walk of the planner and the policy it follows, for   *)
(* every window, every period and every number of archives.                *)
(***************************************************************************)

(* Every set of natural numbers has a least element.                       *)
LEMMA Least ==
  ASSUME NEW T, T \subseteq Nat, T # {}
  PROVE  \E m \in T : \A k \in T : m <= k
<1> DEFINE Below == OpToRel(<, Nat)
<1>1. IsWellFoundedOn(Below, Nat)
  BY NatLessThanWellFounded
<1>2. \A x, y \in Nat : y < x => <<y, x>> \in Below
  BY DEF OpToRel
<1> HIDE DEF Below
<1>3. PICK m \in T : \A y \in T : ~(<<y, m>> \in Below)
  BY <1>1, WFMin
<1>4. ASSUME NEW k \in T PROVE m <= k
  <2>1. ~(k < m)
    BY <1>2, <1>3
  <2> QED
    BY <2>1
<1> QED
  BY <1>4

(* The planner's Cardinality is that of FiniteSets.                        *)
LEMMA RunsCardinality ==
  ASSUME NEW S
  PROVE  R!Cardinality(S) = Cardinality(S)
BY DEF R!Cardinality, Cardinality

(* The walk of classifyAutomatic is defined for every list of archives.    *)
Walks(w, n, list, at) ==
  w = [i \in 0..n |-> IF i = 0 THEN R!NoBuckets ELSE R!Visit(w[i - 1], list[i], at)]

(* A walk of any length exists: otherwise there is a shortest length       *)
(* without one.                                                            *)
LEMMA WalkExists ==
  ASSUME NEW n \in Nat, NEW list, NEW at
  PROVE  \E w : Walks(w, n, list, at)
<1> SUFFICES ASSUME ~\E w : Walks(w, n, list, at) PROVE FALSE
  OBVIOUS
<1> DEFINE Bad == {m \in Nat : ~\E w : Walks(w, m, list, at)}
<1>1. PICK m \in Bad : \A k \in Bad : m <= k
  <2>1. Bad \subseteq Nat /\ Bad # {}
    OBVIOUS
  <2> HIDE DEF Bad
  <2> QED
    BY <2>1, Least
<1>2. m # 0
  <2> DEFINE w == [i \in 0..0 |-> R!NoBuckets]
  <2>1. Walks(w, 0, list, at)
    BY DEF Walks
  <2> QED
    BY <2>1
<1>3. m - 1 \in Nat /\ m - 1 \notin Bad
  BY <1>1, <1>2
<1>4. PICK v : Walks(v, m - 1, list, at)
  BY <1>3
<1> DEFINE w == [i \in 0..m |-> IF i < m THEN v[i] ELSE R!Visit(v[m - 1], list[m], at)]
           step(x, i) == IF i = 0 THEN R!NoBuckets ELSE R!Visit(x[i - 1], list[i], at)
<1>5. \A i \in 0..(m - 1) : v[i] = step(v, i)
  BY <1>4 DEF Walks
<1>6. \A i \in 0..(m - 1) : w[i] = v[i]
  BY <1>1
<1>7. w[m] = R!Visit(v[m - 1], list[m], at)
  BY <1>1
<1>8. ASSUME NEW i \in 0..m PROVE w[i] = step(w, i)
  <2>1. CASE i = 0
    BY <1>3, <1>5, <1>6, <2>1
  <2>2. CASE i # 0 /\ i < m
    <3>1. i \in 0..(m - 1) /\ i - 1 \in 0..(m - 1)
      BY <1>1, <2>2
    <3>2. w[i] = step(v, i) /\ w[i - 1] = v[i - 1]
      BY <1>5, <1>6, <3>1
    <3> QED
      BY <2>2, <3>2
  <2>3. CASE i = m
    <3>1. m - 1 \in 0..(m - 1)
      BY <1>3
    <3>2. w[m - 1] = v[m - 1]
      BY <1>6, <3>1
    <3> QED
      BY <1>2, <1>7, <2>3, <3>2
  <2> QED
    BY <1>1, <2>1, <2>2, <2>3
<1>9. w = [i \in 0..m |-> w[i]]
  OBVIOUS
<1> HIDE DEF w
<1>10. Walks(w, m, list, at)
  BY <1>8, <1>9 DEF Walks
<1> QED
  BY <1>1, <1>10

(* Classify ends such a walk over the newest archives first.               *)
LEMMA ClassifyWalks ==
  ASSUME NEW S, NEW at, IsFiniteSet(S), \A f \in S : f.kind = "auto"
  PROVE  \E w : Walks(w, Cardinality(S), R!NewestFirst(S), at)
                /\ R!Classify(S, at) = w[Cardinality(S)]
<1> DEFINE autos == R!OfKind(S, "auto")
           n == R!Cardinality(autos)
           w == CHOOSE walk : walk = [i \in 0..n |->
                  IF i = 0 THEN R!NoBuckets
                  ELSE R!Visit(walk[i - 1], R!NewestFirst(autos)[i], at)]
<1>1. R!Classify(S, at) = w[n]
  BY DEF R!Classify
<1>2. autos = S
  BY DEF R!OfKind
<1>3. n = Cardinality(S) /\ n \in Nat
  BY <1>2, RunsCardinality, FS_CardinalityType
<1>4. w = CHOOSE walk : Walks(walk, n, R!NewestFirst(autos), at)
  BY DEF Walks
<1> HIDE DEF w, n
<1>5. Walks(w, n, R!NewestFirst(autos), at)
  BY <1>3, <1>4, WalkExists
<1> HIDE DEF autos
<1> QED
  BY <1>1, <1>2, <1>3, <1>5

(* The archives of the runs differ in their times, which order them.       *)
LEMMA RunsNewer ==
  ASSUME NEW a \in R!MCFiles, NEW b \in R!MCFiles
  PROVE  /\ a.kind = "auto" /\ a.time \in Nat
         /\ R!Newer(a, b) <=> a.time > b.time
         /\ a.time = b.time => a = b
<1>1. PICK s \in 0..RunsHorizon : a = [kind |-> "auto", time |-> s, coll |-> 0, ref |-> "none"]
  BY DEF R!MCFiles
<1>2. PICK t \in 0..RunsHorizon : b = [kind |-> "auto", time |-> t, coll |-> 0, ref |-> "none"]
  BY DEF R!MCFiles
<1>3. /\ a.kind = "auto" /\ a.time = s /\ a.coll = 0
      /\ b.kind = "auto" /\ b.time = t /\ b.coll = 0
  BY <1>1, <1>2
<1>4. s \in Nat /\ t \in Nat
  BY MCStoreAssumption
<1>5. R!Rank["auto"] = 0
  BY DEF R!Rank
<1>6. R!Newer(a, b) <=> a.time > b.time
  BY <1>3, <1>4, <1>5 DEF R!Newer
<1>7. a.time = b.time => a = b
  BY <1>1, <1>2, <1>3
<1> QED
  BY <1>3, <1>4, <1>6, <1>7

(* Places in a list, for any order of a finite set.                        *)
Orders(Rel, S) ==
  /\ \A a, b \in S : a # b => <<a, b>> \in Rel \/ <<b, a>> \in Rel
  /\ \A a \in S : <<a, a>> \notin Rel
  /\ \A a, b, c \in S : <<a, b>> \in Rel /\ <<b, c>> \in Rel => <<a, c>> \in Rel

AheadIn(Rel, S, a) == {b \in S : <<b, a>> \in Rel}
PlaceIn(Rel, S, a) == Cardinality(AheadIn(Rel, S, a))

(* Who is ahead in the order has the smaller place.                        *)
LEMMA PlacesInGrow ==
  ASSUME NEW Rel, NEW S, IsFiniteSet(S), Orders(Rel, S),
         NEW a \in S, NEW b \in S, <<b, a>> \in Rel
  PROVE  PlaceIn(Rel, S, b) < PlaceIn(Rel, S, a)
<1> DEFINE F == AheadIn(Rel, S, a)
           G == AheadIn(Rel, S, b)
<1>1. IsFiniteSet(F) /\ IsFiniteSet(G)
  BY FS_Subset DEF AheadIn
<1>2. b \in F /\ b \notin G
  BY DEF AheadIn, Orders
<1>3. G \subseteq F
  BY DEF AheadIn, Orders
<1> HIDE DEF F, G
<1>4. Cardinality(G) <= Cardinality(F) /\ Cardinality(G) # Cardinality(F)
  BY <1>1, <1>2, <1>3, FS_Subset
<1>5. Cardinality(G) \in Nat /\ Cardinality(F) \in Nat
  BY <1>1, FS_CardinalityType
<1>6. Cardinality(G) < Cardinality(F)
  BY <1>4, <1>5
<1> QED
  BY <1>6 DEF F, G, PlaceIn

(* Places count from zero to one less than the size of the set.            *)
LEMMA PlaceInRange ==
  ASSUME NEW Rel, NEW S, IsFiniteSet(S), Orders(Rel, S), NEW a \in S
  PROVE  PlaceIn(Rel, S, a) \in 0..(Cardinality(S) - 1)
<1> DEFINE F == AheadIn(Rel, S, a)
<1>1. F \in SUBSET S /\ a \notin F
  BY DEF AheadIn, Orders
<1> HIDE DEF F
<1>2. /\ IsFiniteSet(F) /\ Cardinality(F) <= Cardinality(S)
      /\ Cardinality(F) # Cardinality(S)
  BY <1>1, FS_Subset
<1>3. Cardinality(F) \in Nat /\ Cardinality(S) \in Nat
  BY <1>2, FS_CardinalityType
<1>4. Cardinality(F) \in 0..(Cardinality(S) - 1)
  BY <1>2, <1>3
<1> QED
  BY <1>4 DEF F, PlaceIn

(* Every place is taken: places are an injection into a range as large as  *)
(* the set.                                                                *)
LEMMA EveryPlaceInTaken ==
  ASSUME NEW Rel, NEW S, IsFiniteSet(S), Orders(Rel, S), NEW i \in 0..(Cardinality(S) - 1)
  PROVE  \E a \in S : PlaceIn(Rel, S, a) = i
<1> DEFINE n == Cardinality(S)
           place == [a \in S |-> PlaceIn(Rel, S, a)]
<1>1. n \in Nat
  BY FS_CardinalityType
<1>2. IsFiniteSet(0..(n - 1)) /\ Cardinality(0..(n - 1)) = n
  <2>1. n - 1 \in Int
    BY <1>1
  <2> HIDE DEF n
  <2> QED
    BY <1>1, <2>1, FS_Interval
<1>3. place \in [S -> 0..(n - 1)]
  BY PlaceInRange
<1>4. ASSUME NEW a \in S, NEW b \in S, a # b PROVE place[a] # place[b]
  <2>1. \A x \in S : PlaceIn(Rel, S, x) \in Nat
    BY PlaceInRange
  <2>2. CASE <<a, b>> \in Rel
    BY <2>1, <2>2, PlacesInGrow
  <2>3. CASE <<b, a>> \in Rel
    BY <2>1, <2>3, PlacesInGrow
  <2> QED
    BY <1>4, <2>2, <2>3 DEF Orders
<1> HIDE DEF place
<1>5. place \in Injection(S, 0..(n - 1))
  BY <1>3, <1>4 DEF Injection, IsInjective
<1> HIDE DEF n
<1>6. place \in Surjection(S, 0..(n - 1))
  BY <1>2, <1>5, FS_Injection DEF n
<1>7. PICK a \in S : place[a] = i
  BY <1>6 DEF Surjection, n
<1> QED
  BY <1>7 DEF place

(* How many archives are newer than f: its place in the list.              *)
Ahead(S, f) == {g \in S : R!Newer(g, f)}
Place(S, f) == Cardinality(Ahead(S, f))

RunsRel(S) == {p \in S \X S : R!Newer(p[1], p[2])}

(* The order of the planner is one of those.                               *)
LEMMA RunsOrder ==
  ASSUME NEW S, S \subseteq R!MCFiles
  PROVE  /\ Orders(RunsRel(S), S)
         /\ \A f \in S : Place(S, f) = PlaceIn(RunsRel(S), S, f)
         /\ \A f, g \in S : R!Newer(g, f) => <<g, f>> \in RunsRel(S)
<1>1. \A f, g \in S : R!Newer(g, f) <=> <<g, f>> \in RunsRel(S)
  BY DEF RunsRel
<1>2. \A f \in S : Ahead(S, f) = AheadIn(RunsRel(S), S, f)
  BY <1>1 DEF Ahead, AheadIn
<1>3. \A f, g \in S : f # g => R!Newer(f, g) \/ R!Newer(g, f)
  BY RunsNewer
<1>4. \A f \in S : ~R!Newer(f, f)
  BY RunsNewer
<1>5. \A f, g, h \in S : R!Newer(f, g) /\ R!Newer(g, h) => R!Newer(f, h)
  BY RunsNewer
<1> QED
  BY <1>1, <1>2, <1>3, <1>4, <1>5 DEF Orders, Place, PlaceIn

(* A newer archive has the smaller place.                                  *)
LEMMA PlacesGrow ==
  ASSUME NEW S, S \subseteq R!MCFiles, IsFiniteSet(S),
         NEW f \in S, NEW g \in S, R!Newer(g, f)
  PROVE  Place(S, g) < Place(S, f)
BY RunsOrder, PlacesInGrow

(* The place of an archive lies in the range of the list.                  *)
LEMMA PlaceRange ==
  ASSUME NEW S, S \subseteq R!MCFiles, IsFiniteSet(S), NEW f \in S
  PROVE  Place(S, f) \in 0..(Cardinality(S) - 1)
BY RunsOrder, PlaceInRange

(* Every index of the list has its archive.                                *)
LEMMA EveryPlaceTaken ==
  ASSUME NEW S, S \subseteq R!MCFiles, IsFiniteSet(S), NEW i \in 0..(Cardinality(S) - 1)
  PROVE  \E f \in S : Place(S, f) = i
BY RunsOrder, EveryPlaceInTaken

(* The list of a walk has every archive at its place, newest first.        *)
LEMMA NewestFirstPlaces ==
  ASSUME NEW S, S \subseteq R!MCFiles, IsFiniteSet(S), NEW i \in 1..Cardinality(S)
  PROVE  R!NewestFirst(S)[i] \in S /\ Place(S, R!NewestFirst(S)[i]) = i - 1
<1>1. Cardinality(S) \in Nat
  BY FS_CardinalityType
<1>2. i - 1 \in 0..(Cardinality(S) - 1)
  BY <1>1
<1>3. \E f \in S : Place(S, f) = i - 1
  BY <1>2, EveryPlaceTaken
<1>4. R!NewestFirst(S) = [j \in 1..R!Cardinality(S) |->
        CHOOSE f \in S : R!Cardinality({g \in S : R!Newer(g, f)}) = j - 1]
  BY DEF R!NewestFirst, R!InOrder
<1>5. R!Cardinality(S) = Cardinality(S)
  BY RunsCardinality
<1>6. \A f \in S : R!Cardinality({g \in S : R!Newer(g, f)}) = Place(S, f)
  BY RunsCardinality DEF Place, Ahead
<1>7. R!NewestFirst(S)[i] =
        CHOOSE f \in S : R!Cardinality({g \in S : R!Newer(g, f)}) = i - 1
  BY <1>4, <1>5
<1>8. \E f \in S : R!Cardinality({g \in S : R!Newer(g, f)}) = i - 1
  BY <1>3, <1>6
<1> QED
  BY <1>6, <1>7, <1>8

(* What the walk knows when it has seen the archives P, the newest ones:   *)
(* every day of P has a last one; every week and month of P that lies in   *)
(* its window has a representative no older than what it stands for; what  *)
(* it prunes is what the policy does not keep.                             *)
Walked(P, w) ==
  /\ w \in [daily : SUBSET P, weekly : SUBSET P, monthly : SUBSET P,
            lastOfDay : SUBSET P, prune : SUBSET P]
  /\ \A f \in P : \E g \in w.lastOfDay : R!SameDay(f, g)
  /\ \A f \in P : R!Band(f, today) = "weekly" =>
       \E g \in w.weekly : R!SamePeriod("weekly", f, g)
  /\ \A f \in P : R!Band(f, today) = "monthly" =>
       \E g \in w.monthly : R!SamePeriod("monthly", f, g) /\ ~R!Newer(f, g)
  /\ \A g \in w.weekly : R!Band(g, today) = "weekly"
  /\ \A g \in w.monthly : R!Band(g, today) = "monthly"
  /\ w.prune = {f \in P : ~R!PolicyKeeps(f)}

(* An archive falls in one of the four windows.                            *)
LEMMA BandIs ==
  ASSUME NEW f
  PROVE  R!Band(f, today) \in {"hot", "daily", "weekly", "monthly"}
BY DEF R!Band

(* Days and periods are equivalences.                                      *)
LEMMA PeriodsJoin ==
  ASSUME NEW f, NEW g, NEW h
  PROVE  /\ R!SameDay(f, f)
         /\ R!SameDay(f, g) /\ R!SameDay(g, h) => R!SameDay(f, h)
         /\ \A b \in {"daily", "weekly", "monthly"} :
              /\ R!SamePeriod(b, f, f)
              /\ R!SamePeriod(b, f, g) /\ R!SamePeriod(b, g, h) => R!SamePeriod(b, f, h)
         /\ R!SamePeriod("daily", f, g) <=> R!SameDay(f, g)
BY DEF R!SameDay, R!SamePeriod

(* The policy of f in terms of the archives ahead of it.                   *)
LEMMA PolicyAhead ==
  ASSUME NEW f \in files, NEW P, P = Ahead(files, f)
  PROVE  /\ R!Band(f, today) = "hot" => R!PolicyKeeps(f)
         /\ R!Band(f, today) = "daily" =>
              (R!PolicyKeeps(f) <=> ~\E g \in P : R!SameDay(f, g))
         /\ \A b \in {"weekly", "monthly"} : R!Band(f, today) = b =>
              (R!PolicyKeeps(f) <=>
                 ~\E g \in P : R!Band(g, today) = b /\ R!SamePeriod(b, f, g))
<1>1. R!Band(f, today) = "hot" => R!PolicyKeeps(f)
  BY DEF R!PolicyKeeps
<1>2. R!Band(f, today) = "daily" =>
        (R!PolicyKeeps(f) <=> ~\E g \in files : R!SameDay(f, g) /\ R!Newer(g, f))
  BY DEF R!PolicyKeeps
<1>3. ASSUME NEW b \in {"weekly", "monthly"}, R!Band(f, today) = b
      PROVE  R!PolicyKeeps(f) <=>
               ~\E g \in files : R!Band(g, today) = b /\ R!SamePeriod(b, f, g) /\ R!Newer(g, f)
  BY <1>3 DEF R!PolicyKeeps
<1> QED
  BY <1>1, <1>2, <1>3, Zenon DEF Ahead

(* A step of the walk: the next archive joins those it has seen.           *)
LEMMA VisitWalks ==
  ASSUME files \subseteq R!MCFiles, NEW f \in files, NEW P, P = Ahead(files, f),
         NEW w, Walked(P, w)
  PROVE  Walked(P \cup {f}, R!Visit(w, f, today))
<1> DEFINE seen == \E g \in w.lastOfDay : R!SameDay(f, g)
           c == IF seen THEN w ELSE [w EXCEPT !.lastOfDay = @ \cup {f}]
           band == R!Band(f, today)
           taken == band \in R!Buckets /\ \E g \in c[band] : R!SamePeriod(band, f, g)
           behind == band = "daily" /\ f \notin c.lastOfDay
           v == R!Visit(w, f, today)
           Q == P \cup {f}
           Types(x) == x \in [daily : SUBSET Q, weekly : SUBSET Q, monthly : SUBSET Q,
                              lastOfDay : SUBSET Q, prune : SUBSET Q]
<1>1. v = IF band = "hot" THEN c
          ELSE IF taken \/ behind THEN [c EXCEPT !.prune = @ \cup {f}]
          ELSE [c EXCEPT ![band] = @ \cup {f}]
  BY DEF R!Visit
<1>2. P \subseteq files /\ f \notin P /\ \A g \in P : R!Newer(g, f) /\ ~R!Newer(f, g)
  BY RunsNewer DEF Ahead
<1>3. /\ Types(c)
      /\ c.daily = w.daily /\ c.weekly = w.weekly /\ c.monthly = w.monthly
      /\ c.prune = w.prune
      /\ c.lastOfDay = IF seen THEN w.lastOfDay ELSE w.lastOfDay \cup {f}
      /\ c["daily"] = w.daily /\ c["weekly"] = w.weekly /\ c["monthly"] = w.monthly
  BY DEF Walked
<1>4. seen <=> \E g \in P : R!SameDay(f, g)
  <2>1. \A x, y \in P : R!SameDay(f, x) /\ R!SameDay(x, y) => R!SameDay(f, y)
    BY PeriodsJoin
  <2>2. w.lastOfDay \subseteq P /\ \A x \in P : \E g \in w.lastOfDay : R!SameDay(x, g)
    BY DEF Walked
  <2> QED
    BY <2>1, <2>2
<1>5. f \in c.lastOfDay <=> ~seen
  BY <1>2, <1>3 DEF Walked
<1>6. \A x \in Q : \E g \in c.lastOfDay : R!SameDay(x, g)
  <2>1. \A x \in P : \E g \in w.lastOfDay : R!SameDay(x, g)
    BY DEF Walked
  <2>2. R!SameDay(f, f)
    BY PeriodsJoin
  <2>3. \E g \in c.lastOfDay : R!SameDay(f, g)
    <3>1. CASE seen
      BY <1>3, <3>1
    <3>2. CASE ~seen
      BY <1>5, <2>2, <3>2
    <3> QED
      BY <3>1, <3>2
  <2>4. w.lastOfDay \subseteq c.lastOfDay
    BY <1>3
  <2> QED
    BY <2>1, <2>3, <2>4
<1>7. band \in {"hot", "daily", "weekly", "monthly"}
  BY BandIs
<1>8. /\ \A g \in w.weekly : R!Band(g, today) = "weekly"
      /\ \A g \in w.monthly : R!Band(g, today) = "monthly"
      /\ \A x \in P : R!Band(x, today) = "weekly" =>
           \E g \in w.weekly : R!SamePeriod("weekly", x, g)
      /\ \A x \in P : R!Band(x, today) = "monthly" =>
           \E g \in w.monthly : R!SamePeriod("monthly", x, g) /\ ~R!Newer(x, g)
      /\ w.daily \subseteq P /\ w.weekly \subseteq P /\ w.monthly \subseteq P
      /\ w.prune = {x \in P : ~R!PolicyKeeps(x)}
  BY DEF Walked
<1>9. /\ taken <=> /\ band # "hot"
                   /\ \E g \in c[band] : R!SamePeriod(band, f, g)
  BY <1>7 DEF R!Buckets
<1> HIDE DEF seen, c, v, taken, band, Q
<1>10. CASE band = "hot"
  <2>1. v = c
    BY <1>1, <1>10
  <2>2. R!PolicyKeeps(f)
    BY <1>10, PolicyAhead DEF band
  <2>3. v.prune = {x \in Q : ~R!PolicyKeeps(x)}
    BY <1>3, <1>8, <2>1, <2>2 DEF Q
  <2> QED
    BY <1>3, <1>6, <1>8, <1>10, <2>1, <2>3 DEF Walked, Q, v, band
<1>11. CASE band = "daily"
  <2>1. taken => seen
    BY <1>3, <1>4, <1>8, <1>9, <1>11, PeriodsJoin
  <2>2. taken \/ behind <=> seen
    BY <1>5, <1>11, <2>1
  <2>3. R!PolicyKeeps(f) <=> ~seen
    BY <1>4, <1>11, PolicyAhead DEF band
  <2>4. CASE seen
    <3>1. v = [c EXCEPT !.prune = @ \cup {f}]
      BY <1>1, <1>11, <2>2, <2>4
    <3>2. /\ Types(v) /\ v.daily = c.daily /\ v.weekly = c.weekly /\ v.monthly = c.monthly
          /\ v.lastOfDay = c.lastOfDay /\ v.prune = c.prune \cup {f}
      BY <1>3, <3>1 DEF Q
    <3>3. v.prune = {x \in Q : ~R!PolicyKeeps(x)}
      BY <1>3, <1>8, <2>3, <2>4, <3>2 DEF Q
    <3> QED
      BY <1>3, <1>6, <1>8, <1>11, <3>2, <3>3 DEF Walked, Q, v, band
  <2>5. CASE ~seen
    <3>1. v = [c EXCEPT !["daily"] = @ \cup {f}]
      BY <1>1, <1>11, <2>2, <2>5
    <3>2. /\ Types(v) /\ v.weekly = c.weekly /\ v.monthly = c.monthly
          /\ v.lastOfDay = c.lastOfDay /\ v.prune = c.prune
      BY <1>3, <3>1 DEF Q
    <3>3. v.prune = {x \in Q : ~R!PolicyKeeps(x)}
      BY <1>3, <1>8, <2>3, <2>5, <3>2 DEF Q
    <3> QED
      BY <1>3, <1>6, <1>8, <1>11, <3>2, <3>3 DEF Walked, Q, v, band
  <2> QED
    BY <2>4, <2>5
<1>12. CASE band = "weekly"
  <2> DEFINE met == \E g \in P : R!Band(g, today) = "weekly" /\ R!SamePeriod("weekly", f, g)
  <2>1. taken <=> \E g \in w.weekly : R!SamePeriod("weekly", f, g)
    BY <1>3, <1>9, <1>12
  <2>2. taken <=> met
    <3>1. taken => met
      BY <1>8, <2>1
    <3>2. ASSUME met PROVE taken
      <4>1. PICK g \in P : R!Band(g, today) = "weekly" /\ R!SamePeriod("weekly", f, g)
        BY <3>2
      <4>2. PICK h \in w.weekly : R!SamePeriod("weekly", g, h)
        BY <1>8, <4>1
      <4>3. R!SamePeriod("weekly", f, h)
        BY <4>1, <4>2, PeriodsJoin
      <4> QED
        BY <2>1, <4>3
    <3> QED
      BY <3>1, <3>2
  <2>3. R!PolicyKeeps(f) <=> ~met
    BY <1>12, PolicyAhead DEF band
  <2>4. R!SamePeriod("weekly", f, f) /\ ~behind
    BY <1>12, PeriodsJoin
  <2> HIDE DEF met
  <2>5. CASE taken
    <3>1. v = [c EXCEPT !.prune = @ \cup {f}]
      BY <1>1, <1>12, <2>5
    <3>2. /\ Types(v) /\ v.daily = c.daily /\ v.weekly = c.weekly /\ v.monthly = c.monthly
          /\ v.lastOfDay = c.lastOfDay /\ v.prune = c.prune \cup {f}
      BY <1>3, <3>1 DEF Q
    <3>3. v.prune = {x \in Q : ~R!PolicyKeeps(x)}
      BY <1>3, <1>8, <2>2, <2>3, <2>5, <3>2 DEF Q
    <3>4. \A x \in Q : R!Band(x, today) = "weekly" =>
            \E g \in v.weekly : R!SamePeriod("weekly", x, g)
      BY <1>3, <1>8, <2>1, <2>5, <3>2 DEF Q
    <3> QED
      BY <1>3, <1>6, <1>8, <1>12, <3>2, <3>3, <3>4 DEF Walked, Q, v, band
  <2>6. CASE ~taken
    <3>1. v = [c EXCEPT !["weekly"] = @ \cup {f}]
      BY <1>1, <1>12, <2>4, <2>6
    <3>2. /\ Types(v) /\ v.weekly = c.weekly \cup {f} /\ v.monthly = c.monthly
          /\ v.lastOfDay = c.lastOfDay /\ v.prune = c.prune
      BY <1>3, <3>1 DEF Q
    <3>3. v.prune = {x \in Q : ~R!PolicyKeeps(x)}
      BY <1>3, <1>8, <2>2, <2>3, <2>6, <3>2 DEF Q
    <3>4. \A x \in Q : R!Band(x, today) = "weekly" =>
            \E g \in v.weekly : R!SamePeriod("weekly", x, g)
      BY <1>3, <1>8, <2>4, <3>2 DEF Q
    <3>5. \A g \in v.weekly : R!Band(g, today) = "weekly"
      BY <1>3, <1>8, <1>12, <3>2 DEF band
    <3> QED
      BY <1>3, <1>6, <1>8, <1>12, <3>2, <3>3, <3>4, <3>5 DEF Walked, Q, v, band
  <2> QED
    BY <2>5, <2>6
<1>13. CASE band = "monthly"
  <2> DEFINE met == \E g \in P : R!Band(g, today) = "monthly" /\ R!SamePeriod("monthly", f, g)
  <2>1. taken <=> \E g \in w.monthly : R!SamePeriod("monthly", f, g)
    BY <1>3, <1>9, <1>13
  <2>2. taken <=> met
    <3>1. taken => met
      BY <1>8, <2>1
    <3>2. ASSUME met PROVE taken
      <4>1. PICK g \in P : R!Band(g, today) = "monthly" /\ R!SamePeriod("monthly", f, g)
        BY <3>2
      <4>2. PICK h \in w.monthly : R!SamePeriod("monthly", g, h)
        BY <1>8, <4>1
      <4>3. R!SamePeriod("monthly", f, h)
        BY <4>1, <4>2, PeriodsJoin
      <4> QED
        BY <2>1, <4>3
    <3> QED
      BY <3>1, <3>2
  <2>3. R!PolicyKeeps(f) <=> ~met
    BY <1>13, PolicyAhead DEF band
  <2>4. R!SamePeriod("monthly", f, f) /\ ~behind /\ ~R!Newer(f, f)
    BY <1>13, PeriodsJoin, RunsNewer
  <2> HIDE DEF met
  <2>5. CASE taken
    <3>1. v = [c EXCEPT !.prune = @ \cup {f}]
      BY <1>1, <1>13, <2>5
    <3>2. /\ Types(v) /\ v.daily = c.daily /\ v.weekly = c.weekly /\ v.monthly = c.monthly
          /\ v.lastOfDay = c.lastOfDay /\ v.prune = c.prune \cup {f}
      BY <1>3, <3>1 DEF Q
    <3>3. v.prune = {x \in Q : ~R!PolicyKeeps(x)}
      BY <1>3, <1>8, <2>2, <2>3, <2>5, <3>2 DEF Q
    <3>4. \A x \in Q : R!Band(x, today) = "monthly" =>
            \E g \in v.monthly : R!SamePeriod("monthly", x, g) /\ ~R!Newer(x, g)
      BY <1>2, <1>3, <1>8, <2>1, <2>5, <3>2 DEF Q
    <3> QED
      BY <1>3, <1>6, <1>8, <1>13, <3>2, <3>3, <3>4 DEF Walked, Q, v, band
  <2>6. CASE ~taken
    <3>1. v = [c EXCEPT !["monthly"] = @ \cup {f}]
      BY <1>1, <1>13, <2>4, <2>6
    <3>2. /\ Types(v) /\ v.monthly = c.monthly \cup {f} /\ v.weekly = c.weekly
          /\ v.lastOfDay = c.lastOfDay /\ v.prune = c.prune
      BY <1>3, <3>1 DEF Q
    <3>3. v.prune = {x \in Q : ~R!PolicyKeeps(x)}
      BY <1>3, <1>8, <2>2, <2>3, <2>6, <3>2 DEF Q
    <3>4. \A x \in Q : R!Band(x, today) = "monthly" =>
            \E g \in v.monthly : R!SamePeriod("monthly", x, g) /\ ~R!Newer(x, g)
      BY <1>3, <1>8, <2>4, <3>2 DEF Q
    <3>5. \A g \in v.monthly : R!Band(g, today) = "monthly"
      BY <1>3, <1>8, <1>13, <3>2 DEF band
    <3> QED
      BY <1>3, <1>6, <1>8, <1>13, <3>2, <3>3, <3>4, <3>5 DEF Walked, Q, v, band
  <2> QED
    BY <2>5, <2>6
<1> QED
  BY <1>7, <1>10, <1>11, <1>12, <1>13

(* The archives in the first i places.                                     *)
First(i) == {f \in files : Place(files, f) < i}

(* The first archives of the list are those ahead of the next one.         *)
LEMMA FirstIsAhead ==
  ASSUME files \subseteq R!MCFiles, IsFiniteSet(files), NEW i \in 1..Cardinality(files)
  PROVE  LET f == R!NewestFirst(files)[i]
         IN  f \in files /\ First(i - 1) = Ahead(files, f) /\ First(i) = First(i - 1) \cup {f}
<1> DEFINE f == R!NewestFirst(files)[i]
<1>1. f \in files /\ Place(files, f) = i - 1
  BY NewestFirstPlaces
<1>2. \A g \in files : Place(files, g) \in Int
  BY PlaceRange
<1>3. Cardinality(files) \in Nat
  BY FS_CardinalityType
<1>4. i \in Int
  BY <1>3
<1> HIDE DEF f
<1>5. ASSUME NEW g \in files PROVE R!Newer(g, f) <=> Place(files, g) < i - 1
  <2>1. R!Newer(g, f) => Place(files, g) < i - 1
    BY <1>1, PlacesGrow
  <2>2. R!Newer(f, g) => i - 1 < Place(files, g)
    BY <1>1, PlacesGrow
  <2>3. R!Newer(g, f) \/ R!Newer(f, g) \/ f = g
    BY <1>1, RunsNewer
  <2> QED
    BY <1>1, <1>2, <1>4, <2>1, <2>2, <2>3
<1>6. ASSUME NEW g \in files PROVE Place(files, g) < i <=> Place(files, g) < i - 1 \/ g = f
  <2>1. R!Newer(g, f) \/ R!Newer(f, g) \/ f = g
    BY <1>1, RunsNewer
  <2>2. R!Newer(f, g) => i - 1 < Place(files, g)
    BY <1>1, PlacesGrow
  <2>3. R!Newer(g, f) <=> Place(files, g) < i - 1
    BY <1>5
  <2> QED
    BY <1>1, <1>2, <1>4, <2>1, <2>2, <2>3
<1>7. First(i - 1) = Ahead(files, f)
  BY <1>5 DEF First, Ahead
<1>8. First(i) = First(i - 1) \cup {f}
  BY <1>1, <1>6 DEF First
<1> QED
  BY <1>1, <1>7, <1>8 DEF f

(* What the walk knows of all the archives in the end.                     *)
LEMMA FilesWalked ==
  ASSUME files \subseteq R!MCFiles, IsFiniteSet(files)
  PROVE  Walked(files, R!Classify(files, today))
<1> DEFINE n == Cardinality(files)
           list == R!NewestFirst(files)
<1>1. n \in Nat
  BY FS_CardinalityType
<1>2. \A f \in files : f.kind = "auto"
  BY RunsNewer
<1>3. PICK w : Walks(w, n, list, today) /\ R!Classify(files, today) = w[n]
  BY <1>2, ClassifyWalks
<1>4. \A i \in 0..n : w[i] = IF i = 0 THEN R!NoBuckets ELSE R!Visit(w[i - 1], list[i], today)
  BY <1>3 DEF Walks
<1> DEFINE Bad == {i \in 0..n : ~Walked(First(i), w[i])}
<1>5. Bad = {}
  <2> SUFFICES ASSUME Bad # {} PROVE FALSE
    OBVIOUS
  <2>1. PICK i \in Bad : \A k \in Bad : i <= k
    <3>1. Bad \subseteq Nat
      BY <1>1
    <3> HIDE DEF Bad
    <3> QED
      BY <3>1, Least
  <2>2. CASE i = 0
    <3>1. w[0] = R!NoBuckets
      BY <1>1, <1>4
    <3>2. First(0) = {}
      <4>1. \A f \in files : Place(files, f) \in Nat
        BY PlaceRange
      <4> QED
        BY <4>1 DEF First
    <3>3. Walked({}, R!NoBuckets)
      BY DEF Walked, R!NoBuckets
    <3>4. Walked(First(0), w[0])
      BY <3>1, <3>2, <3>3
    <3> QED
      BY <2>1, <2>2, <3>4
  <2>3. CASE i # 0
    <3>1. i \in 1..n /\ i - 1 \in 0..n
      BY <1>1, <2>1, <2>3
    <3>2. Walked(First(i - 1), w[i - 1])
      BY <2>1, <3>1
    <3> DEFINE f == list[i]
    <3>3. f \in files /\ First(i - 1) = Ahead(files, f) /\ First(i) = First(i - 1) \cup {f}
      BY <3>1, FirstIsAhead
    <3>4. w[i] = R!Visit(w[i - 1], f, today)
      BY <1>4, <2>3, <3>1
    <3> HIDE DEF f
    <3>5. Walked(First(i), w[i])
      BY <3>2, <3>3, <3>4, VisitWalks
    <3> QED
      BY <2>1, <3>5
  <2> QED
    BY <2>2, <2>3
<1>6. Walked(First(n), w[n])
  BY <1>1, <1>5
<1>7. First(n) = files
  <2>1. \A f \in files : Place(files, f) < n
    BY <1>1, PlaceRange
  <2> QED
    BY <2>1 DEF First
<1> QED
  BY <1>3, <1>6, <1>7

-----------------------------------------------------------------------------
(* The runs.                                                               *)
RunsInv == files \subseteq R!MCFiles

(* Times below the horizon are finitely many, and so are the archives.     *)
LEMMA RunsFinite ==
  ASSUME RunsInv
  PROVE  IsFiniteSet(files)
<1> DEFINE file == [t \in 0..RunsHorizon |-> [kind |-> "auto", time |-> t, coll |-> 0, ref |-> "none"]]
<1>1. IsFiniteSet(0..RunsHorizon)
  <2>1. 0 \in Int /\ RunsHorizon \in Int
    BY MCStoreAssumption
  <2> QED
    BY <2>1, FS_Interval
<1>2. file \in Surjection(0..RunsHorizon, R!MCFiles)
  BY DEF Surjection, R!MCFiles
<1>3. IsFiniteSet(R!MCFiles)
  BY <1>1, <1>2, FS_Surjection
<1> QED
  BY <1>3, FS_Subset DEF RunsInv

(* The inventories the runs begin with.                                    *)
LEMMA RunsInit ==
  ASSUME R!Init
  PROVE  RunsInv
BY DEF R!Init, R!kSubset, RunsInv

(* A new archive, a tick and an application of the plan keep the           *)
(* invariant.                                                              *)
LEMMA RunsStep ==
  ASSUME RunsInv, R!Next \/ RunsEnd
  PROVE  RunsInv'
BY DEF RunsInv, R!Next, R!Tick, R!Apply, RunsEnd, runsVars, R!MCFiles

(* What the walk prunes is what the policy does not keep.                  *)
LEMMA RunsFollowPolicy ==
  ASSUME RunsInv
  PROVE  R!FollowsPolicy
BY FilesWalked, RunsFinite DEF RunsInv, Walked, R!FollowsPolicy

(* The planner never deletes what it protects.                             *)
LEMMA RunsKeepMonthly ==
  ASSUME RunsInv, NEW f \in files, R!Band(f, today) = "monthly"
  PROVE  \E g \in files \ R!Prune(R!Run(files)) :
           R!SamePeriod("monthly", f, g) /\ ~R!Newer(f, g)
<1> DEFINE run == R!Run(files)
<1>1. run.auto = R!Classify(files, today)
  BY DEF R!Run
<1>2. Walked(files, run.auto)
  BY <1>1, FilesWalked, RunsFinite DEF RunsInv
<1> HIDE DEF run
<1>3. PICK g \in run.auto.monthly : R!SamePeriod("monthly", f, g) /\ ~R!Newer(f, g)
  BY <1>2 DEF Walked
<1>4. g \in files
  BY <1>2 DEF Walked
<1>5. g \in R!Protected(run)
  BY DEF R!Protected
<1>6. g \notin R!NormalPrune(run)
  BY <1>5 DEF R!NormalPrune
<1>7. g \notin R!PressurePrune(run)
  BY <1>5 DEF R!PressurePrune, R!Eligible
<1>8. g \notin R!Prune(run)
  BY <1>6, <1>7 DEF R!Prune
<1> QED
  BY <1>3, <1>4, <1>8 DEF run

(* The newest archive of a month is its representative, and the plan keeps *)
(* it.                                                                     *)
LEMMA RunsKeepMonths ==
  ASSUME RunsInv, R!Next \/ RunsEnd
  PROVE  R!KeepsMonths
<1> SUFFICES ASSUME NEW f \in files, R!Band(f, today) = "monthly"
             PROVE  \E g \in files' : R!SamePeriod("monthly", f, g) /\ ~R!Newer(f, g)
  BY DEF R!KeepsMonths
<1>1. CASE files' = files
  <2>1. R!SamePeriod("monthly", f, f) /\ ~R!Newer(f, f)
    BY PeriodsJoin, RunsNewer DEF RunsInv
  <2>2. f \in files'
    BY <1>1
  <2> QED
    BY <2>1, <2>2
<1>2. CASE files' = files \ R!Prune(R!Run(files))
  BY <1>2, RunsKeepMonthly
<1> QED
  BY <1>1, <1>2 DEF R!Next, R!Tick, R!Apply, RunsEnd, runsVars

RunsPart == part = "retention" => RunsInv

(* The archives of the runs are automatic ones of times within the         *)
(* horizon, which the clock orders (classifyAutomatic, sortNewest).        *)
THEOREM RunsInvariant == StoreSpec => []RunsPart
<1>1. StoreInit => RunsPart
  BY RunsInit DEF StoreInit, RunsPart
<1>2. RunsPart /\ [StoreNext]_storeVars => RunsPart'
  <2> SUFFICES ASSUME RunsPart, [StoreNext]_storeVars, part' = "retention" PROVE RunsInv'
    BY DEF RunsPart
  <2>1. part = "retention"
    BY DEF StoreNext, storeVars
  <2>2. CASE StoreNext
    BY <2>1, <2>2, RunsStep DEF StoreNext, RunsPart
  <2>3. CASE UNCHANGED storeVars
    BY <2>1, <2>3 DEF storeVars, runsVars, RunsPart, RunsInv, R!MCFiles
  <2> QED
    BY <2>2, <2>3
<1> QED
  BY <1>1, <1>2, PTL DEF StoreSpec

(* The one-pass walk of classifyAutomatic prunes exactly the archives the  *)
(* written policy does not keep, also when a period straddles two windows, *)
(* for any inventory, periods and windows.                                 *)
THEOREM PolicyFollowed == StoreSpec => []FollowsPolicy
<1>1. RunsPart => FollowsPolicy
  BY RunsFollowPolicy DEF RunsPart, FollowsPolicy
<1> QED
  BY <1>1, RunsInvariant, PTL

(* Once a month has an archive older than the last window, it always has   *)
(* one again, under disk pressure too.                                     *)
THEOREM MonthsAreForever == StoreSpec => MonthsForever
<1>1. ASSUME RunsPart, [StoreNext]_storeVars
      PROVE  [part = "retention" => R!KeepsMonths]_storeVars
  <2>1. CASE StoreNext /\ part = "retention"
    <3>1. RunsInv /\ (R!Next \/ RunsEnd)
      BY <1>1, <2>1 DEF StoreNext, RunsPart
    <3> QED
      BY <3>1, RunsKeepMonths
  <2> QED
    BY <1>1, <2>1
<1> QED
  BY <1>1, RunsInvariant, PTL DEF StoreSpec, MonthsForever

(***************************************************************************)
(* Archives: the passes over an archive, for every archive of any length.  *)
(***************************************************************************)

(* The records of a reading, field by field.                               *)
IsReader(r) == r = [seen |-> r.seen, read |-> r.read, err |-> r.err]

IsVal(v) ==
  v = [ok |-> v.ok, seen |-> v.seen, list |-> v.list, current |-> v.current,
       plugins |-> v.plugins, scripts |-> v.scripts]

IsExt(e) ==
  e = [ok |-> e.ok, seen |-> e.seen, list |-> e.list, current |-> e.current,
       files |-> e.files, keys |-> e.keys, size |-> e.size, taken |-> e.taken]

(* What an extraction has written is what the reader let through.          *)
KeysRead(e, r) ==
  /\ e.keys = {f.path : f \in e.files}
  /\ \A p \in e.keys : \E x \in r.seen : x.path = p

(* A header the reader takes has a path that was not written before.       *)
LEMMA ReaderTakes ==
  ASSUME NEW r, IsReader(r), NEW h, ~A!Next1(r, h).err
  PROVE  /\ h.typ \in {"file", "dir"}
         /\ \A x \in r.seen : x.path # h.path
         /\ A!Next1(r, h).seen = r.seen \cup {[path |-> h.path, typ |-> h.typ]}
         /\ IsReader(A!Next1(r, h))
<1>1. A!Accepts(r, h)
  <2> SUFFICES ASSUME ~A!Accepts(r, h) PROVE FALSE
    OBVIOUS
  <2>1. A!Next1(r, h) = [r EXCEPT !.err = TRUE]
    BY DEF A!Next1
  <2> QED
    BY <2>1 DEF IsReader
<1>2. A!Next1(r, h) = [r EXCEPT !.seen = @ \cup {[path |-> h.path, typ |-> h.typ]},
                               !.read = @ + A!Blocks(h)]
  BY <1>1 DEF A!Next1
<1>3. h.typ \in {"file", "dir"} /\ \A x \in r.seen : A!Key(x.path) # A!Key(h.path)
  BY <1>1 DEF A!Accepts
<1>4. A!Next1(r, h).seen = r.seen \cup {[path |-> h.path, typ |-> h.typ]} /\ IsReader(A!Next1(r, h))
  BY <1>2 DEF IsReader
<1> QED
  BY <1>3, <1>4

(* The reader keeps its fields.                                            *)
LEMMA ReaderShape ==
  ASSUME NEW r, IsReader(r), NEW h
  PROVE  IsReader(A!Next1(r, h))
BY DEF A!Next1, IsReader

(* An entry the reader took has a path nobody has written: writing it      *)
(* changes the files and nothing else.                                     *)
LEMMA Written ==
  ASSUME NEW e, IsExt(e), NEW r, IsReader(r), NEW h, KeysRead(e, r), ~A!Next1(r, h).err
  PROVE  LET x == A!writeExtractedFile(e, h)
         IN  /\ IsExt(x) /\ KeysRead(x, A!Next1(r, h))
             /\ x.ok = e.ok /\ x.seen = e.seen /\ x.list = e.list /\ x.current = e.current
             /\ x.files = e.files \cup {[path |-> h.path, data |-> h.data, list |-> h.list]}
             /\ \A f \in e.files : f.path # h.path
             /\ x.size = e.size /\ x.taken = e.taken
<1> DEFINE x == A!writeExtractedFile(e, h)
<1>0. /\ \A y \in r.seen : y.path # h.path
      /\ A!Next1(r, h).seen = r.seen \cup {[path |-> h.path, typ |-> h.typ]}
  BY ReaderTakes
<1>1. h.path \notin e.keys
  BY <1>0 DEF KeysRead
<1>2. x = [e EXCEPT !.files = @ \cup {[path |-> h.path, data |-> h.data, list |-> h.list]},
                    !.keys = @ \cup {h.path}]
  BY <1>1 DEF A!writeExtractedFile
<1>3. /\ IsExt(x)
      /\ x.ok = e.ok /\ x.seen = e.seen /\ x.list = e.list /\ x.current = e.current
      /\ x.files = e.files \cup {[path |-> h.path, data |-> h.data, list |-> h.list]}
      /\ x.keys = e.keys \cup {h.path}
      /\ x.size = e.size /\ x.taken = e.taken
  BY <1>2 DEF IsExt
<1> HIDE DEF x
<1>4. \A f \in e.files : f.path # h.path
  BY <1>1 DEF KeysRead
<1>5. KeysRead(x, A!Next1(r, h))
  <2> DEFINE n == [path |-> h.path, data |-> h.data, list |-> h.list]
             y == [path |-> h.path, typ |-> h.typ]
             t == A!Next1(r, h)
  <2>1. n.path = h.path /\ y.path = h.path /\ t.seen = r.seen \cup {y}
    BY <1>0
  <2>2. x.files = e.files \cup {n} /\ x.keys = e.keys \cup {h.path}
    BY <1>3
  <2> HIDE DEF n, y, t
  <2>3. x.keys = {f.path : f \in x.files}
    BY <2>1, <2>2 DEF KeysRead
  <2>4. \A p \in x.keys : \E z \in t.seen : z.path = p
    BY <2>1, <2>2 DEF KeysRead
  <2>5. KeysRead(x, t)
    BY <2>3, <2>4 DEF KeysRead
  <2> QED
    BY <2>5 DEF t
<1> QED
  BY <1>3, <1>4, <1>5 DEF x

(* A pack: what was written is what was validated.                         *)
ModsFile(f) ==
  /\ Len(f.path) = 2
  /\ \/ f.path[1] = "scripts" /\ A!validateScriptFilename(f.path[2])
     \/ f.path = <<"plugins", A!RDF>> /\ A!ParseRequiredDataFiles(f.list)
     \/ /\ f.path[1] = "plugins" /\ f.path[2] # A!RDF
        /\ A!validatePluginExtension(f.path[2]) /\ ~A!isBaseESM(f.path[2])

ModsRead(v, e, r) ==
  /\ KeysRead(e, r)
  /\ v.ok =>
       /\ e.ok
       /\ \A f \in e.files : ModsFile(f)
       /\ \A f \in e.files : f.path = <<"plugins", A!RDF>> => f.list = v.list
       /\ v.list # NoList => \E f \in e.files : f.path = <<"plugins", A!RDF>>
       /\ A!PluginsIn(e.files) = v.plugins

(* One entry of a mods pack through both passes.                           *)
LEMMA ModsEntryStep ==
  ASSUME NEW v, IsVal(v), NEW e, IsExt(e), NEW r, IsReader(r), NEW h,
         ModsRead(v, e, r), ~A!Next1(r, h).err
  PROVE  ModsRead(A!ValidateModsEntry(v, h), A!ExtractModsEntry(e, h), A!Next1(r, h))
<1> DEFINE w == A!ValidateModsEntry(v, h)
           x == A!ExtractModsEntry(e, h)
           t == A!Next1(r, h)
<1>1. h.typ \in {"file", "dir"} /\ t.seen = r.seen \cup {[path |-> h.path, typ |-> h.typ]}
  BY ReaderTakes
<1>2. KeysRead(e, t)
  BY <1>1 DEF ModsRead, KeysRead
<1>3. KeysRead(x, t)
  <2>1. CASE ~A!ModsEntryExtracted(h)
    <3>1. x = [e EXCEPT !.ok = FALSE]
      BY <2>1 DEF A!ExtractModsEntry
    <3>2. x.keys = e.keys /\ x.files = e.files
      BY <3>1 DEF IsExt
    <3> QED
      BY <1>2, <3>2 DEF KeysRead
  <2>2. CASE A!ModsEntryExtracted(h) /\ h.typ = "dir"
    BY <1>2, <2>2 DEF A!ExtractModsEntry
  <2>3. CASE A!ModsEntryExtracted(h) /\ h.typ # "dir"
    <3>1. x = A!writeExtractedFile(e, h)
      BY <2>3 DEF A!ExtractModsEntry
    <3> QED
      BY <3>1, Written DEF ModsRead
  <2> QED
    BY <2>1, <2>2, <2>3
<1>4. ASSUME w.ok
      PROVE  /\ x.ok
             /\ \A f \in x.files : ModsFile(f)
             /\ \A f \in x.files : f.path = <<"plugins", A!RDF>> => f.list = w.list
             /\ w.list # NoList => \E f \in x.files : f.path = <<"plugins", A!RDF>>
             /\ A!PluginsIn(x.files) = w.plugins
  <2>1. A!ModsEntryValid(v, h)
    <3> SUFFICES ASSUME ~A!ModsEntryValid(v, h) PROVE FALSE
      OBVIOUS
    <3>1. w = [v EXCEPT !.ok = FALSE]
      BY DEF A!ValidateModsEntry
    <3> QED
      BY <1>4, <3>1 DEF IsVal
  <2>2. A!ModsEntryExtracted(h)
    BY <2>1 DEF A!ModsEntryValid, A!ModsEntryExtracted
  <2>3. CASE h.typ = "dir"
    <3>1. w = v /\ x = e
      BY <2>1, <2>2, <2>3 DEF A!ValidateModsEntry, A!ExtractModsEntry
    <3> QED
      BY <1>4, <3>1 DEF ModsRead
  <2>4. CASE h.typ = "file"
    <3> DEFINE n == [path |-> h.path, data |-> h.data, list |-> h.list]
    <3>1. x = A!writeExtractedFile(e, h)
      BY <2>2, <2>4 DEF A!ExtractModsEntry
    <3>2. /\ x.files = e.files \cup {n} /\ x.ok = e.ok
          /\ \A f \in e.files : f.path # h.path
      BY <3>1, Written DEF ModsRead
    <3>3. n.path = h.path /\ n.data = h.data /\ n.list = h.list
      OBVIOUS
    <3> HIDE DEF n
    <3>4. A!PluginsIn(x.files) =
            A!PluginsIn(e.files) \cup
              (IF h.path[1] = "plugins" /\ h.path[2] # A!RDF
               THEN {[name |-> h.path[2], crc |-> h.data]} ELSE {})
      BY <3>2, <3>3 DEF A!PluginsIn
    <3>5. Len(h.path) = 2
      BY <2>1, <2>4 DEF A!ModsEntryValid
    <3>6. CASE h.path[1] = "scripts"
      <4>1. w = [v EXCEPT !.scripts = @ + 1]
        BY <2>1, <2>4, <3>6 DEF A!ValidateModsEntry
      <4>2. w.ok = v.ok /\ w.list = v.list /\ w.plugins = v.plugins
        BY <4>1 DEF IsVal
      <4>3. A!validateScriptFilename(h.path[2])
        BY <2>1, <2>4, <3>6 DEF A!ModsEntryValid
      <4>4. h.path # <<"plugins", A!RDF>>
        BY <3>6
      <4>5. ModsFile(n)
        BY <3>3, <3>5, <3>6, <4>3 DEF ModsFile
      <4>6. A!PluginsIn(x.files) = A!PluginsIn(e.files)
        BY <3>4, <3>6
      <4> QED
        BY <1>4, <3>2, <3>3, <4>2, <4>4, <4>5, <4>6 DEF ModsRead
    <3>7. CASE h.path = <<"plugins", A!RDF>>
      <4>1. h.path[1] = "plugins" /\ h.path[2] = A!RDF
        BY <3>7
      <4>2. w = [v EXCEPT !.list = h.list]
        BY <2>1, <2>4, <4>1 DEF A!ValidateModsEntry
      <4>3. w.ok = v.ok /\ w.list = h.list /\ w.plugins = v.plugins
        BY <4>2 DEF IsVal
      <4>4. A!ParseRequiredDataFiles(h.list)
        BY <2>1, <2>4, <4>1 DEF A!ModsEntryValid
      <4>5. ModsFile(n)
        BY <3>3, <3>5, <3>7, <4>4 DEF ModsFile
      <4>6. A!PluginsIn(x.files) = A!PluginsIn(e.files)
        BY <3>4, <4>1
      <4> QED
        BY <1>4, <3>2, <3>3, <3>7, <4>3, <4>5, <4>6 DEF ModsRead
    <3>8. CASE h.path[1] = "plugins" /\ h.path[2] # A!RDF
      <4>1. w = [v EXCEPT !.plugins = @ \cup {[name |-> h.path[2], crc |-> h.data]}]
        BY <2>1, <2>4, <3>8 DEF A!ValidateModsEntry
      <4>2. /\ w.ok = v.ok /\ w.list = v.list
            /\ w.plugins = v.plugins \cup {[name |-> h.path[2], crc |-> h.data]}
        BY <4>1 DEF IsVal
      <4>3. A!validatePluginExtension(h.path[2]) /\ ~A!isBaseESM(h.path[2])
        BY <2>1, <2>4, <3>8 DEF A!ModsEntryValid
      <4>4. h.path # <<"plugins", A!RDF>>
        BY <3>8
      <4>5. ModsFile(n)
        BY <3>3, <3>5, <3>8, <4>3 DEF ModsFile
      <4>6. A!PluginsIn(x.files) = w.plugins
        BY <1>4, <3>4, <3>8, <4>2 DEF ModsRead
      <4> QED
        BY <1>4, <3>2, <3>3, <4>2, <4>4, <4>5, <4>6 DEF ModsRead
    <3> QED
      BY <2>1, <2>4, <3>6, <3>7, <3>8 DEF A!ModsEntryValid
  <2> QED
    BY <1>1, <2>3, <2>4
<1> QED
  BY <1>3, <1>4 DEF ModsRead

(* A pack the validation accepts is unpacked, and its manifest names the   *)
(* plugins that are there.                                                 *)
LEMMA ModsWhole ==
  ASSUME NEW v, NEW e, NEW r, ModsRead(v, e, r), A!ValidateMods(v)
  PROVE  e.ok /\ A!ValidateModsDir(e.files) /\ A!PluginsIn(e.files) = v.plugins
<1>1. v.ok /\ v.list # NoList /\ A!validateModsRequirements(v.list, v.plugins)
  BY DEF A!ValidateMods
<1>2. /\ e.ok /\ A!PluginsIn(e.files) = v.plugins
      /\ \A f \in e.files : ModsFile(f)
      /\ \A f \in e.files : f.path = <<"plugins", A!RDF>> => f.list = v.list
  BY <1>1 DEF ModsRead
<1>3. PICK f \in e.files : f.path = <<"plugins", A!RDF>>
  BY <1>1 DEF ModsRead
<1>4. A!ParseRequiredDataFiles(f.list)
  <2>1. f.path[1] = "plugins" /\ f.path[2] = A!RDF
    BY <1>3
  <2> QED
    BY <1>2, <2>1 DEF ModsFile
<1>5. A!validateModsRequirements(f.list, A!PluginsIn(e.files))
  BY <1>1, <1>2, <1>3
<1>6. \A p \in A!PluginsIn(e.files) :
        A!validatePluginExtension(p.name) /\ ~A!isBaseESM(p.name)
  <2> SUFFICES ASSUME NEW g \in e.files, g.path[1] = "plugins", g.path[2] # A!RDF
               PROVE  A!validatePluginExtension(g.path[2]) /\ ~A!isBaseESM(g.path[2])
    BY DEF A!PluginsIn
  <2>1. ModsFile(g) /\ g.path # <<"plugins", A!RDF>>
    BY <1>2
  <2> QED
    BY <2>1 DEF ModsFile
<1>7. \A g \in e.files : /\ Len(g.path) = 2
                         /\ g.path[1] = "scripts" => A!validateScriptFilename(g.path[2])
  <2> SUFFICES ASSUME NEW g \in e.files
               PROVE  /\ Len(g.path) = 2
                      /\ g.path[1] = "scripts" => A!validateScriptFilename(g.path[2])
    OBVIOUS
  <2>1. ModsFile(g)
    BY <1>2
  <2>2. g.path = <<"plugins", A!RDF>> => g.path[1] = "plugins"
    OBVIOUS
  <2> QED
    BY <2>1, <2>2 DEF ModsFile
<1> QED
  BY <1>2, <1>3, <1>4, <1>5, <1>6, <1>7 DEF A!ValidateModsDir

(* A snapshot: both passes know the same, and refuse the same entries.     *)
StateRead(v, e, r) ==
  /\ KeysRead(e, r)
  /\ v.ok /\ e.ok
  /\ v.seen = e.seen
  /\ v.list # NoList <=> e.list
  /\ v.current # 0 <=> e.current
  /\ \A f \in e.files : f.path = <<"current.txt">> => f.data = v.current
  /\ e.current => \E f \in e.files : f.path = <<"current.txt">>

Metadata == {<<A!RDF>>, <<"current.txt">>}

(* The two text files of a snapshot are not part of the state.             *)
LEMMA MetadataIsNoState ==
  ASSUME NEW path \in Metadata
  PROVE  ~A!StateFile(path)
<1>1. path[1] \notin {"players", "world", "configs"}
  BY DEF Metadata, A!RDF
<1>2. A!Config[1] = "configs"
  BY DEF A!Config
<1> QED
  BY <1>1, <1>2 DEF A!StateFile

(* One entry of a snapshot through both passes: both refuse it, or both    *)
(* know the same after it.                                                 *)
LEMMA StateEntryStep ==
  ASSUME NEW v, IsVal(v), NEW e, IsExt(e), NEW r, IsReader(r), NEW h, h.list # NoList,
         StateRead(v, e, r), ~A!Next1(r, h).err
  PROVE  LET w == A!ValidateStateEntry(v, h)
             x == A!ExtractStateEntry(e, h)
         IN  \/ ~w.ok /\ ~x.ok
             \/ StateRead(w, x, A!Next1(r, h))
<1> DEFINE w == A!ValidateStateEntry(v, h)
           x == A!ExtractStateEntry(e, h)
           t == A!Next1(r, h)
           n == [path |-> h.path, data |-> h.data, list |-> h.list]
           z == A!writeExtractedFile(e, h)
<1>1. h.typ \in {"file", "dir"} /\ t.seen = r.seen \cup {[path |-> h.path, typ |-> h.typ]}
  BY ReaderTakes
<1>2. KeysRead(e, t)
  BY <1>1 DEF StateRead, KeysRead
<1>3. /\ IsExt(z) /\ KeysRead(z, t)
      /\ z.ok = e.ok /\ z.seen = e.seen /\ z.list = e.list /\ z.current = e.current
      /\ z.files = e.files \cup {n}
      /\ \A f \in e.files : f.path # h.path
  <2>1. KeysRead(e, r)
    BY DEF StateRead
  <2> HIDE DEF w, x
  <2> QED
    BY <2>1, Written
<1>4. n.path = h.path /\ n.data = h.data
  OBVIOUS
<1> HIDE DEF n, z, t
<1>5. CASE ~A!StateEntryValid(v, h)
  <2>1. w = [v EXCEPT !.ok = FALSE]
    BY <1>5 DEF A!ValidateStateEntry
  <2>2. ~w.ok
    BY <2>1 DEF IsVal
  <2>3. x = [e EXCEPT !.ok = FALSE]
    BY <1>1, <1>5 DEF A!ExtractStateEntry, A!StateEntryValid, StateRead
  <2>4. ~x.ok
    BY <2>3 DEF IsExt
  <2> QED
    BY <2>2, <2>4
<1>6. CASE h.typ = "dir" /\ h.path \in A!StateDirs
  <2>1. A!StateEntryValid(v, h)
    BY <1>6 DEF A!StateEntryValid
  <2>2. w = [v EXCEPT !.seen = A!validateStateDir(@, h.path)]
    BY <1>6, <2>1 DEF A!ValidateStateEntry
  <2>3. x = [e EXCEPT !.seen = A!validateStateDir(@, h.path)]
    BY <1>6 DEF A!ExtractStateEntry
  <2>4. /\ w.ok = v.ok /\ w.list = v.list /\ w.current = v.current
        /\ w.seen = A!validateStateDir(v.seen, h.path)
    BY <2>2 DEF IsVal
  <2>5. /\ x.ok = e.ok /\ x.list = e.list /\ x.current = e.current
        /\ x.files = e.files /\ x.keys = e.keys
        /\ x.seen = A!validateStateDir(e.seen, h.path)
    BY <2>3 DEF IsExt
  <2> HIDE DEF w, x
  <2>6. StateRead(w, x, t)
    BY <1>2, <2>4, <2>5 DEF StateRead, KeysRead
  <2> QED
    BY <2>6 DEF w, x, t
<1>7. CASE h.typ = "file" /\ h.path = <<A!RDF>> /\ A!StateEntryValid(v, h)
  <2>1. h.path \in Metadata /\ h.path # <<"current.txt">>
    BY <1>7 DEF Metadata, A!RDF
  <2>2. v.list = NoList /\ A!ParseRequiredDataFiles(h.list)
    BY <1>7, <2>1, MetadataIsNoState DEF A!StateEntryValid
  <2>3. w = [v EXCEPT !.list = h.list]
    BY <1>7 DEF A!ValidateStateEntry
  <2>4. /\ w.ok = v.ok /\ w.list = h.list /\ w.current = v.current /\ w.seen = v.seen
    BY <2>3 DEF IsVal
  <2>5. x = [z EXCEPT !.list = TRUE]
    BY <1>7, <2>2 DEF A!ExtractStateEntry, StateRead, z
  <2>6. /\ x.ok = z.ok /\ x.list = TRUE /\ x.current = z.current
        /\ x.files = z.files /\ x.keys = z.keys /\ x.seen = z.seen
    BY <1>3, <2>5 DEF IsExt
  <2> HIDE DEF w, x
  <2>7. KeysRead(x, t)
    BY <1>3, <2>6 DEF KeysRead
  <2>8. StateRead(w, x, t)
    BY <1>3, <1>4, <2>1, <2>4, <2>6, <2>7 DEF StateRead
  <2> QED
    BY <2>8 DEF w, x, t
<1>8. CASE h.typ = "file" /\ h.path = <<"current.txt">> /\ A!StateEntryValid(v, h)
  <2>1. h.path \in Metadata /\ h.path # <<A!RDF>>
    BY <1>8 DEF Metadata, A!RDF
  <2>2. v.current = 0 /\ A!ParseCurrent(h.data)
    BY <1>8, <2>1, MetadataIsNoState DEF A!StateEntryValid
  <2>3. h.data = 1
    BY <2>2 DEF A!ParseCurrent
  <2>4. w = [v EXCEPT !.current = h.data]
    BY <1>8, <2>1 DEF A!ValidateStateEntry
  <2>5. /\ w.ok = v.ok /\ w.list = v.list /\ w.current = h.data /\ w.seen = v.seen
    BY <2>4 DEF IsVal
  <2>6. x = [z EXCEPT !.current = TRUE]
    BY <1>8, <2>1, <2>2 DEF A!ExtractStateEntry, StateRead, z
  <2>7. /\ x.ok = z.ok /\ x.list = z.list /\ x.current = TRUE
        /\ x.files = z.files /\ x.keys = z.keys /\ x.seen = z.seen
    BY <1>3, <2>6 DEF IsExt
  <2> HIDE DEF w, x
  <2>8. KeysRead(x, t)
    BY <1>3, <2>7 DEF KeysRead
  <2>9. /\ \A f \in x.files : f.path = <<"current.txt">> => f.data = w.current
        /\ \E f \in x.files : f.path = <<"current.txt">>
    BY <1>3, <1>4, <1>8, <2>5, <2>7
  <2>10. StateRead(w, x, t)
    BY <1>3, <2>3, <2>5, <2>7, <2>8, <2>9 DEF StateRead
  <2> QED
    BY <2>10 DEF w, x, t
<1>9. CASE h.typ = "file" /\ h.path \notin Metadata /\ A!StateEntryValid(v, h)
  <2>1. h.path # <<A!RDF>> /\ h.path # <<"current.txt">>
    BY <1>9 DEF Metadata
  <2>2. A!StateFile(h.path)
    BY <1>9, <2>1 DEF A!StateEntryValid
  <2>3. w = [v EXCEPT !.seen = @ \cup A!ShownBy(h.path)]
    BY <1>9, <2>1 DEF A!ValidateStateEntry
  <2>4. /\ w.ok = v.ok /\ w.list = v.list /\ w.current = v.current
        /\ w.seen = v.seen \cup A!ShownBy(h.path)
    BY <2>3 DEF IsVal
  <2>5. x = [z EXCEPT !.seen = @ \cup A!ShownBy(h.path)]
    BY <1>9, <2>1, <2>2 DEF A!ExtractStateEntry, z
  <2>6. /\ x.ok = z.ok /\ x.list = z.list /\ x.current = z.current
        /\ x.files = z.files /\ x.keys = z.keys /\ x.seen = z.seen \cup A!ShownBy(h.path)
    BY <1>3, <2>5 DEF IsExt
  <2> HIDE DEF w, x
  <2>7. KeysRead(x, t)
    BY <1>3, <2>6 DEF KeysRead
  <2>8. StateRead(w, x, t)
    BY <1>3, <1>4, <2>1, <2>4, <2>6, <2>7 DEF StateRead
  <2> QED
    BY <2>8 DEF w, x, t
<1> QED
  BY <1>1, <1>5, <1>6, <1>7, <1>8, <1>9 DEF Metadata, A!StateEntryValid

(* At the end of a snapshot both passes decide alike.                      *)
LEMMA StateWhole ==
  ASSUME NEW v, NEW e, NEW r, StateRead(v, e, r)
  PROVE  /\ A!ValidateState(v) <=> A!ExtractState(e)
         /\ A!ValidateState(v) => A!ReadStateCurrent(e.files) = {v.current}
<1>1. A!ValidateState(v) <=> A!ExtractState(e)
  BY DEF StateRead, A!ValidateState, A!ExtractState
<1>2. ASSUME A!ValidateState(v)
      PROVE  A!ReadStateCurrent(e.files) = {v.current}
  BY <1>2 DEF StateRead, A!ValidateState, A!ReadStateCurrent
<1> QED
  BY <1>1, <1>2

(* A localization or a ZIP: every file has a place of its own.             *)
Apart(e, overlay) ==
  /\ \A p \in e.taken : \E f \in e.files : f.from = p
  /\ \A f, g \in e.files :
       f.path = g.path \/ (overlay /\ A!Key(f.path) = A!Key(g.path)) => f = g
  /\ overlay => \A f \in e.files : A!Key(f.path) \in e.keys
  /\ ~overlay => \A f \in e.files : f.path \in e.seen

(* One entry of the client's overlay.                                      *)
LEMMA OverlayStep ==
  ASSUME NEW e, IsExt(e), Apart(e, TRUE), NEW h
  PROVE  IsExt(A!ExtractOverlayEntry(e, h)) /\ Apart(A!ExtractOverlayEntry(e, h), TRUE)
<1> DEFINE target == Tail(h.path)
           x == A!ExtractOverlayEntry(e, h)
           n == [path |-> target, from |-> h.path]
<1>1. \/ x = e
      \/ x = [e EXCEPT !.ok = FALSE]
      \/ x = [e EXCEPT !.keys = @ \cup {A!Key(target)}]
      \/ /\ A!Key(target) \notin e.keys
         /\ x = [e EXCEPT !.keys = @ \cup {A!Key(target)}, !.files = @ \cup {n},
                          !.taken = @ \cup {h.path}]
  BY DEF A!ExtractOverlayEntry
<1>2. n.path = target /\ n.from = h.path
  OBVIOUS
<1> HIDE DEF x, n, target
<1>3. CASE x = e \/ x = [e EXCEPT !.ok = FALSE] \/ x = [e EXCEPT !.keys = @ \cup {A!Key(target)}]
  <2>1. IsExt(x) /\ x.files = e.files /\ x.taken = e.taken /\ e.keys \subseteq x.keys
    BY <1>3 DEF IsExt
  <2> QED
    BY <2>1 DEF Apart, x
<1>4. CASE /\ A!Key(target) \notin e.keys
           /\ x = [e EXCEPT !.keys = @ \cup {A!Key(target)}, !.files = @ \cup {n},
                            !.taken = @ \cup {h.path}]
  <2>1. /\ IsExt(x) /\ x.files = e.files \cup {n} /\ x.taken = e.taken \cup {h.path}
        /\ x.keys = e.keys \cup {A!Key(target)}
    BY <1>4 DEF IsExt
  <2>2. \A f \in e.files : A!Key(f.path) # A!Key(target) /\ f.path # target
    BY <1>4 DEF Apart
  <2>3. Apart(x, TRUE)
    BY <1>2, <2>1, <2>2 DEF Apart
  <2> QED
    BY <2>1, <2>3 DEF x
<1> QED
  BY <1>1, <1>3, <1>4

(* One entry of a ZIP, on a file system that folds case or not.            *)
LEMMA ZipStep ==
  ASSUME NEW e, IsExt(e), Apart(e, FALSE), NEW h, NEW folds \in BOOLEAN
  PROVE  IsExt(A!ExtractZipEntry(e, h, folds)) /\ Apart(A!ExtractZipEntry(e, h, folds), FALSE)
<1> DEFINE x == A!ExtractZipEntry(e, h, folds)
           n == [path |-> h.path, from |-> h.path]
<1>1. \/ x = [e EXCEPT !.ok = FALSE]
      \/ x = [e EXCEPT !.seen = @ \cup {h.path}]
      \/ /\ ~A!ZipConflict(e, h)
         /\ x = [e EXCEPT !.seen = @ \cup {h.path}, !.size = @ + h.size,
                          !.files = @ \cup {n}, !.taken = @ \cup {h.path}]
  BY DEF A!ExtractZipEntry
<1>2. n.path = h.path /\ n.from = h.path
  OBVIOUS
<1> HIDE DEF x, n
<1>3. CASE x = [e EXCEPT !.ok = FALSE] \/ x = [e EXCEPT !.seen = @ \cup {h.path}]
  <2>1. IsExt(x) /\ x.files = e.files /\ x.taken = e.taken /\ e.seen \subseteq x.seen
    BY <1>3 DEF IsExt
  <2> QED
    BY <2>1 DEF Apart, x
<1>4. CASE /\ ~A!ZipConflict(e, h)
           /\ x = [e EXCEPT !.seen = @ \cup {h.path}, !.size = @ + h.size,
                            !.files = @ \cup {n}, !.taken = @ \cup {h.path}]
  <2>1. /\ IsExt(x) /\ x.files = e.files \cup {n} /\ x.taken = e.taken \cup {h.path}
        /\ x.seen = e.seen \cup {h.path}
    BY <1>4 DEF IsExt
  <2>2. h.path \notin e.seen
    BY <1>4 DEF A!ZipConflict
  <2>3. \A f \in e.files : f.path # h.path
    BY <2>2 DEF Apart
  <2>4. Apart(x, FALSE)
    BY <1>2, <2>1, <2>3 DEF Apart
  <2> QED
    BY <2>1, <2>4 DEF x
<1> QED
  BY <1>1, <1>3, <1>4

(* The records of a reading, whatever the kind of the archive.             *)
Passes == IsReader(rd) /\ IsVal(val) /\ IsExt(ext)

ArchInv ==
  /\ Passes
  /\ phase = "idle" =>
       /\ kind = "mods" /\ rd = A!NewReader /\ val = A!NoVal /\ ext = A!NoExt
       /\ stats = A!NoStats
  /\ phase \in {"reading", "whole"} =>
       /\ kind = "mods" => ~rd.err /\ ModsRead(val, ext, rd)
       /\ kind = "state" => ~rd.err /\ StateRead(val, ext, rd)
       /\ kind = "overlay" => Apart(ext, TRUE)
       /\ kind = "zip" => Apart(ext, FALSE)

(* Before the first entry the passes know nothing, and the same.           *)
LEMMA FreshReading ==
  ASSUME NEW r, NEW v, NEW e, r = A!NewReader, v = A!NoVal, e = A!NoExt
  PROVE  /\ IsReader(r) /\ IsVal(v) /\ IsExt(e) /\ ~r.err
         /\ ModsRead(v, e, r) /\ StateRead(v, e, r)
         /\ Apart(e, TRUE) /\ Apart(e, FALSE)
<1>1. r.seen = {} /\ r.err = FALSE /\ IsReader(r)
  BY DEF A!NewReader, IsReader
<1>2. /\ v.ok = TRUE /\ v.seen = {} /\ v.list = NoList /\ v.current = 0
      /\ v.plugins = {} /\ IsVal(v)
  BY DEF A!NoVal, IsVal
<1>3. /\ e.ok = TRUE /\ e.seen = {} /\ e.list = FALSE /\ e.current = FALSE
      /\ e.files = {} /\ e.keys = {} /\ e.taken = {} /\ IsExt(e)
  BY DEF A!NoExt, IsExt
<1>4. KeysRead(e, r)
  BY <1>3 DEF KeysRead
<1>5. A!PluginsIn(e.files) = {}
  BY <1>3 DEF A!PluginsIn
<1> QED
  BY <1>1, <1>2, <1>3, <1>4, <1>5 DEF ModsRead, StateRead, Apart

(* The invariant at the start of a reading or a backup.                    *)
LEMMA ArchInit ==
  ASSUME A!Init PROVE ArchInv
BY FreshReading DEF A!Init, ArchInv, Passes

(* The passes keep their fields.                                           *)
LEMMA PassesShape ==
  ASSUME NEW r, IsReader(r), NEW v, IsVal(v), NEW e, IsExt(e), NEW h
  PROVE  /\ IsReader(A!Next1(r, h))
         /\ IsVal(A!ValidateModsEntry(v, h)) /\ IsVal(A!ValidateStateEntry(v, h))
         /\ IsExt(A!ExtractModsEntry(e, h)) /\ IsExt(A!ExtractStateEntry(e, h))
<1>1. IsReader(A!Next1(r, h))
  BY ReaderShape
<1>2. IsVal(A!ValidateModsEntry(v, h))
  BY DEF A!ValidateModsEntry, IsVal
<1>3. IsVal(A!ValidateStateEntry(v, h))
  BY DEF A!ValidateStateEntry, IsVal
<1>4. IsExt(A!writeExtractedFile(e, h))
  BY DEF A!writeExtractedFile, IsExt
<1>5. IsExt(A!ExtractModsEntry(e, h))
  BY <1>4 DEF A!ExtractModsEntry, IsExt
<1>6. IsExt(A!ExtractStateEntry(e, h))
  <2> DEFINE z == A!writeExtractedFile(e, h)
  <2>1. IsExt(z)
    BY <1>4
  <2>2. \/ A!ExtractStateEntry(e, h) = [e EXCEPT !.seen = A!validateStateDir(@, h.path)]
        \/ A!ExtractStateEntry(e, h) = [e EXCEPT !.ok = FALSE]
        \/ A!ExtractStateEntry(e, h) = [z EXCEPT !.list = TRUE]
        \/ A!ExtractStateEntry(e, h) = [z EXCEPT !.current = TRUE]
        \/ A!ExtractStateEntry(e, h) = [z EXCEPT !.seen = @ \cup A!ShownBy(h.path)]
    BY DEF A!ExtractStateEntry
  <2> HIDE DEF z
  <2> QED
    BY <2>1, <2>2 DEF IsExt
<1> QED
  BY <1>1, <1>2, <1>3, <1>5, <1>6

(* An entry that is taken leaves records of the same shape.                *)
LEMMA TakeShape ==
  ASSUME Passes, NEW h, A!Take(h)
  PROVE  Passes'
<1>1. IsReader(rd) /\ IsVal(val) /\ IsExt(ext)
  BY DEF Passes
<1>2. IsReader(rd')
  BY <1>1, PassesShape DEF A!Take
<1>3. IsVal(val')
  BY <1>1, PassesShape DEF A!Take
<1>4. IsExt(A!ExtractOverlayEntry(ext, h))
  BY <1>1 DEF A!ExtractOverlayEntry, IsExt
<1>5. \A folds \in BOOLEAN : IsExt(A!ExtractZipEntry(ext, h, folds))
  BY <1>1 DEF A!ExtractZipEntry, IsExt
<1>6. IsExt(ext')
  BY <1>1, <1>4, <1>5, PassesShape DEF A!Take
<1> QED
  BY <1>2, <1>3, <1>6 DEF Passes, IsReader, IsVal, IsExt

IsHeader(h) ==
  h = [path |-> h.path, typ |-> h.typ, safe |-> h.safe, size |-> h.size,
       long |-> h.long, data |-> h.data, list |-> h.list]

(* The headers of files, lists and directories.                            *)
LEMMA HeaderShapes ==
  ASSUME NEW path, NEW data, NEW list
  PROVE  /\ IsHeader(A!File(path, data)) /\ A!File(path, data).list = <<>>
         /\ IsHeader(A!ListFile(path, list)) /\ A!ListFile(path, list).list = list
         /\ IsHeader(A!Dir(path)) /\ A!Dir(path).list = <<>>
<1>1. IsHeader(A!File(path, data)) /\ A!File(path, data).list = <<>>
  BY DEF A!File, IsHeader
<1>2. IsHeader(A!ListFile(path, list)) /\ A!ListFile(path, list).list = list
  <2> DEFINE f == A!File(path, 0)
  <2>1. IsHeader(f)
    BY DEF A!File, IsHeader
  <2>2. A!ListFile(path, list) = [f EXCEPT !.list = list]
    BY DEF A!ListFile
  <2> HIDE DEF f
  <2> QED
    BY <2>1, <2>2 DEF IsHeader
<1>3. IsHeader(A!Dir(path)) /\ A!Dir(path).list = <<>>
  <2> DEFINE f == A!File(path, 0)
  <2>1. IsHeader(f) /\ f.list = <<>>
    BY DEF A!File, IsHeader
  <2>2. A!Dir(path) = [f EXCEPT !.typ = "dir", !.size = 0]
    BY DEF A!Dir
  <2> HIDE DEF f
  <2> QED
    BY <2>1, <2>2 DEF IsHeader
<1> QED
  BY <1>1, <1>2, <1>3

(* Headers of a snapshot carry a list, if an empty one.                    *)
LEMMA StateLists ==
  ASSUME NEW h \in A!StateHeaders
  PROVE  IsHeader(h) /\ h.list # NoList
<1>1. <<>> # NoList /\ A!BadList # NoList
  BY NoListAssumption DEF A!Lists
<1>2. \/ \E d : h = A!Dir(d)
      \/ \E p, c : h = A!File(p, c)
      \/ \E p : \E l \in {<<>>, A!BadList} : h = A!ListFile(p, l)
  BY DEF A!StateHeaders
<1>3. CASE \E d : h = A!Dir(d)
  BY <1>1, <1>3, HeaderShapes
<1>4. CASE \E p, c : h = A!File(p, c)
  BY <1>1, <1>4, HeaderShapes
<1>5. CASE \E p : \E l \in {<<>>, A!BadList} : h = A!ListFile(p, l)
  BY <1>1, <1>5, HeaderShapes
<1> QED
  BY <1>2, <1>3, <1>4, <1>5

(* An entry keeps the invariant.                                           *)
LEMMA ArchEntry ==
  ASSUME ArchInv, A!Entry PROVE ArchInv'
<1>1. phase = "reading" /\ kind # "backup" /\ kind' = kind /\ stats' = stats
  BY DEF A!Entry
<1>2. PICK h \in A!Headers, bad \in {"none", "unsafe", "link"} :
        A!Take(CASE bad = "none" -> h
                 [] bad = "unsafe" -> [h EXCEPT !.safe = FALSE]
                 [] OTHER -> [h EXCEPT !.typ = "link"])
  BY DEF A!Entry
<1> DEFINE g == CASE bad = "none" -> h
                  [] bad = "unsafe" -> [h EXCEPT !.safe = FALSE]
                  [] OTHER -> [h EXCEPT !.typ = "link"]
<1>3. kind = "state" => g.list # NoList
  <2> SUFFICES ASSUME kind = "state" PROVE g.list # NoList
    OBVIOUS
  <2>1. h \in A!StateHeaders
    BY DEF A!Headers
  <2>2. g.list = h.list
    <3>1. IsHeader(h)
      BY <2>1, StateLists
    <3> QED
      BY <3>1 DEF IsHeader
  <2> QED
    BY <2>1, <2>2, StateLists
<1>4. A!Take(g)
  BY <1>2
<1> HIDE DEF g
<1>5. phase' \in {"reading", "refused"}
  BY <1>1 DEF A!Entry
<1>6. /\ phase' # "refused" => ~rd'.err
      /\ phase' # "refused" => val'.ok \/ ext'.ok
  BY DEF A!Entry
<1>7. Passes'
  BY <1>4, TakeShape DEF ArchInv
<1>8. IsReader(rd) /\ IsVal(val) /\ IsExt(ext)
  BY DEF ArchInv, Passes
<1>9. ASSUME phase' = "reading", kind = "mods"
      PROVE  ~rd'.err /\ ModsRead(val, ext, rd)'
  <2>1. ~rd'.err /\ rd' = A!Next1(rd, g)
    BY <1>4, <1>6, <1>9 DEF A!Take
  <2>2. val' = A!ValidateModsEntry(val, g) /\ ext' = A!ExtractModsEntry(ext, g)
    BY <1>4, <1>9 DEF A!Take
  <2>3. ModsRead(val, ext, rd)
    BY <1>1, <1>9 DEF ArchInv
  <2>4. ModsRead(A!ValidateModsEntry(val, g), A!ExtractModsEntry(ext, g), A!Next1(rd, g))
    BY <1>8, <2>1, <2>3, ModsEntryStep
  <2>5. ModsRead(val', ext', rd')
    BY <2>1, <2>2, <2>4
  <2> QED
    BY <2>1, <2>5 DEF ModsRead, KeysRead
<1>10. ASSUME phase' = "reading", kind = "state"
       PROVE  ~rd'.err /\ StateRead(val, ext, rd)'
  <2>1. ~rd'.err /\ rd' = A!Next1(rd, g)
    BY <1>4, <1>6, <1>10 DEF A!Take
  <2>2. val' = A!ValidateStateEntry(val, g) /\ ext' = A!ExtractStateEntry(ext, g)
    BY <1>4, <1>10 DEF A!Take
  <2>3. StateRead(val, ext, rd)
    BY <1>1, <1>10 DEF ArchInv
  <2>4. \/ ~val'.ok /\ ~ext'.ok
        \/ StateRead(val', ext', rd')
    BY <1>3, <1>8, <1>10, <2>1, <2>2, <2>3, StateEntryStep
  <2>5. StateRead(val', ext', rd')
    BY <1>6, <1>10, <2>4
  <2> QED
    BY <2>1, <2>5 DEF StateRead, KeysRead
<1>11. ASSUME phase' = "reading", kind = "overlay"
       PROVE  Apart(ext, TRUE)'
  <2>1. ext' = A!ExtractOverlayEntry(ext, g)
    BY <1>4, <1>11 DEF A!Take
  <2>2. Apart(ext, TRUE)
    BY <1>1, <1>11 DEF ArchInv
  <2>3. Apart(ext', TRUE)
    BY <1>8, <2>1, <2>2, OverlayStep
  <2> QED
    BY <2>3 DEF Apart
<1>12. ASSUME phase' = "reading", kind = "zip"
       PROVE  Apart(ext, FALSE)'
  <2>1. PICK folds \in BOOLEAN : ext' = A!ExtractZipEntry(ext, g, folds)
    BY <1>4, <1>12 DEF A!Take
  <2>2. Apart(ext, FALSE)
    BY <1>1, <1>12 DEF ArchInv
  <2>3. Apart(ext', FALSE)
    BY <1>8, <2>1, <2>2, ZipStep
  <2> QED
    BY <2>3 DEF Apart
<1> QED
  BY <1>1, <1>5, <1>7, <1>9, <1>10, <1>11, <1>12 DEF ArchInv

(* Every step keeps the invariant.                                         *)
LEMMA ArchStep ==
  ASSUME ArchInv, A!Next \/ UNCHANGED archiveVars PROVE ArchInv'
<1>1. ASSUME A!Open PROVE ArchInv'
  <2>1. /\ phase = "idle" /\ phase' = "reading" /\ rd' = rd /\ val' = val /\ ext' = ext
        /\ kind' \in {"mods", "state", "overlay", "zip"}
    BY <1>1 DEF A!Open
  <2>2. rd' = A!NewReader /\ val' = A!NoVal /\ ext' = A!NoExt
    BY <2>1 DEF ArchInv
  <2>3. /\ IsReader(rd') /\ IsVal(val') /\ IsExt(ext') /\ ~rd'.err
        /\ ModsRead(val', ext', rd') /\ StateRead(val', ext', rd')
        /\ Apart(ext', TRUE) /\ Apart(ext', FALSE)
    BY <2>2, FreshReading
  <2> QED
    BY <2>1, <2>3 DEF ArchInv, Passes, IsReader, IsVal, IsExt, ModsRead, StateRead, KeysRead, Apart
<1>2. ASSUME A!EndOfStream PROVE ArchInv'
  <2>1. /\ phase = "reading" /\ phase' \in {"whole", "refused"}
        /\ kind' = kind /\ rd' = rd /\ val' = val /\ ext' = ext /\ stats' = stats
    BY <1>2 DEF A!EndOfStream
  <2> QED
    BY <2>1 DEF ArchInv, Passes, IsReader, IsVal, IsExt, ModsRead, StateRead, KeysRead, Apart
<1>3. ASSUME A!Close PROVE ArchInv'
  <2>1. /\ phase' = "idle" /\ kind' = "mods" /\ stats' = A!NoStats
        /\ rd' = A!NewReader /\ val' = A!NoVal /\ ext' = A!NoExt
    BY <1>3 DEF A!Close
  <2>2. IsReader(rd') /\ IsVal(val') /\ IsExt(ext')
    BY <2>1, FreshReading
  <2> QED
    BY <2>1, <2>2 DEF ArchInv, Passes, IsReader, IsVal, IsExt
<1>4. ASSUME A!WriteState PROVE ArchInv'
  <2>1. /\ phase' = "reading" /\ kind' = "backup"
        /\ rd' = rd /\ val' = val /\ ext' = ext
    BY <1>4 DEF A!WriteState
  <2> QED
    BY <2>1 DEF ArchInv, Passes, IsReader, IsVal, IsExt
<1>5. ASSUME A!WriteEntry PROVE ArchInv'
  <2>1. kind = "backup" /\ kind' = kind /\ phase = "reading" /\ phase' \in {"reading", "refused"}
    BY <1>5 DEF A!WriteEntry
  <2>2. \/ rd' = rd /\ val' = val /\ ext' = ext
        \/ A!Take(A!HeaderOf(Head(todo)))
    BY <1>5 DEF A!WriteEntry
  <2>3. Passes'
    BY <2>2, TakeShape DEF ArchInv, Passes, IsReader, IsVal, IsExt
  <2> QED
    BY <2>1, <2>3 DEF ArchInv
<1>6. ASSUME A!WriteEnd PROVE ArchInv'
  <2>1. /\ kind = "backup" /\ kind' = kind /\ phase' \in {"whole", "refused"}
        /\ rd' = rd /\ val' = val /\ ext' = ext
    BY <1>6 DEF A!WriteEnd
  <2> QED
    BY <2>1 DEF ArchInv, Passes, IsReader, IsVal, IsExt
<1>7. ASSUME A!GameSaves PROVE ArchInv'
  <2>1. /\ kind = "backup" /\ kind' = kind /\ phase = "reading" /\ phase' = phase
        /\ rd' = rd /\ val' = val /\ ext' = ext
    BY <1>7 DEF A!GameSaves
  <2> QED
    BY <2>1 DEF ArchInv, Passes, IsReader, IsVal, IsExt
<1>8. ASSUME UNCHANGED archiveVars PROVE ArchInv'
  <2>1. /\ kind' = kind /\ phase' = phase /\ stats' = stats
        /\ rd' = rd /\ val' = val /\ ext' = ext
    BY <1>8 DEF archiveVars
  <2> QED
    BY <2>1 DEF ArchInv, Passes, IsReader, IsVal, IsExt, ModsRead, StateRead, KeysRead, Apart
<1> QED
  BY ArchEntry, <1>1, <1>2, <1>3, <1>4, <1>5, <1>6, <1>7, <1>8 DEF A!Next

(* From what the passes know follows that they agree.                      *)
LEMMA ArchReads ==
  ASSUME ArchInv PROVE A!PassesAgree /\ A!UnpackedApart
<1>1. A!PassesAgree
  <2> SUFFICES ASSUME phase = "whole"
               PROVE  /\ (kind = "mods" /\ A!ValidateMods(val)) =>
                          /\ ext.ok /\ A!ValidateModsDir(ext.files)
                          /\ A!PluginsIn(ext.files) = val.plugins
                      /\ kind = "state" =>
                          /\ A!ValidateState(val) <=> A!ExtractState(ext)
                          /\ A!ValidateState(val) => A!ReadStateCurrent(ext.files) = {val.current}
    BY DEF A!PassesAgree
  <2>1. kind = "mods" => ModsRead(val, ext, rd)
    BY DEF ArchInv
  <2>2. kind = "state" => StateRead(val, ext, rd)
    BY DEF ArchInv
  <2> QED
    BY <2>1, <2>2, ModsWhole, StateWhole
<1>2. A!UnpackedApart
  BY DEF ArchInv, Apart, A!UnpackedApart
<1> QED
  BY <1>1, <1>2

ArchPart == part = "archives" => ArchInv

(* After every entry the passes over an archive know the same of it, and   *)
(* every file unpacked by a client has a path of its own (ValidateMods,    *)
(* ExtractMods, ValidateState, ExtractState, ExtractOverlay, ExtractZip).  *)
THEOREM ArchivesInvariant == StoreSpec => []ArchPart
<1>1. StoreInit => ArchPart
  BY ArchInit DEF StoreInit, ArchPart
<1>2. ArchPart /\ [StoreNext]_storeVars => ArchPart'
  <2> SUFFICES ASSUME ArchPart, [StoreNext]_storeVars, part' = "archives" PROVE ArchInv'
    BY DEF ArchPart
  <2>1. part = "archives"
    BY DEF StoreNext, storeVars
  <2>2. A!Next \/ UNCHANGED archiveVars
    BY <2>1 DEF StoreNext, storeVars
  <2> QED
    BY <2>1, <2>2, ArchStep DEF ArchPart
<1> QED
  BY <1>1, <1>2, PTL DEF StoreSpec

(* Validating and unpacking agree on every archive of every length,        *)
(* whatever the limits, and no file unpacked on the client takes the place *)
(* of another.                                                             *)
THEOREM PassesReadAlike == StoreSpec => []ArchiveReads
<1>1. ArchPart => ArchiveReads
  BY ArchReads DEF ArchPart, ArchiveReads
<1> QED
  BY <1>1, ArchivesInvariant, PTL

(***************************************************************************)
(* Archives: the listing of what a backup is to write.                     *)
(***************************************************************************)

(* The names a backup may write, and those without which it is no snapshot. *)
Dirs == {<<"configs">>, <<"players">>, <<"world">>, <<"world", "cell">>, <<"world", "custom">>}
Required == Dirs \cup Metadata \cup {A!Config}
Names == Required \cup A!LivePaths

Elements(s) == {s[i] : i \in DOMAIN s}

(* A sequence of names that holds each of them once.                       *)
IsListing(s) ==
  /\ s \in Seq(Names)
  /\ \A i, j \in DOMAIN s : s[i] = s[j] => i = j

(* Two listings that share no name make one.                               *)
LEMMA Joined ==
  ASSUME NEW s, NEW t, IsListing(s), IsListing(t), Elements(s) \cap Elements(t) = {}
  PROVE  IsListing(s \o t) /\ Elements(s \o t) = Elements(s) \cup Elements(t)
<1> DEFINE u == s \o t
<1>1. s \in Seq(Names) /\ t \in Seq(Names)
  BY DEF IsListing
<1>2. u \in Seq(Names) /\ Len(u) = Len(s) + Len(t) /\ Len(s) \in Nat /\ Len(t) \in Nat
  BY <1>1
<1>3. \A i \in 1..Len(s) : u[i] = s[i]
  BY <1>1
<1>4. \A i \in 1..Len(t) : u[i + Len(s)] = t[i]
  BY <1>1
<1>5. \A i \in (Len(s) + 1)..Len(u) : i - Len(s) \in 1..Len(t) /\ u[i] = t[i - Len(s)]
  BY <1>1, <1>2
<1>6. DOMAIN u = 1..Len(u) /\ DOMAIN s = 1..Len(s) /\ DOMAIN t = 1..Len(t)
  BY <1>1, <1>2
<1> HIDE DEF u
<1>7. \A i \in DOMAIN u : i \in 1..Len(s) \/ i \in (Len(s) + 1)..Len(u)
  BY <1>2, <1>6
<1>8. \A i \in DOMAIN s : s[i] \in Elements(s)
  BY DEF Elements
<1>9. \A i \in DOMAIN t : t[i] \in Elements(t)
  BY DEF Elements
<1>10. ASSUME NEW i \in DOMAIN u, NEW j \in DOMAIN u, u[i] = u[j] PROVE i = j
  <2>1. CASE i \in 1..Len(s) /\ j \in 1..Len(s)
    BY <1>3, <1>6, <1>10, <2>1 DEF IsListing
  <2>2. CASE i \in (Len(s) + 1)..Len(u) /\ j \in (Len(s) + 1)..Len(u)
    <3>1. i - Len(s) = j - Len(s)
      BY <1>5, <1>6, <1>10, <2>2 DEF IsListing
    <3> QED
      BY <1>2, <2>2, <3>1
  <2>3. CASE i \in 1..Len(s) /\ j \in (Len(s) + 1)..Len(u)
    <3>1. u[i] \in Elements(s) /\ u[j] \in Elements(t)
      BY <1>3, <1>5, <1>6, <1>8, <1>9, <2>3
    <3> QED
      BY <1>10, <3>1
  <2>4. CASE j \in 1..Len(s) /\ i \in (Len(s) + 1)..Len(u)
    <3>1. u[j] \in Elements(s) /\ u[i] \in Elements(t)
      BY <1>3, <1>5, <1>6, <1>8, <1>9, <2>4
    <3> QED
      BY <1>10, <3>1
  <2> QED
    BY <1>7, <2>1, <2>2, <2>3, <2>4
<1>11. Elements(u) \subseteq Elements(s) \cup Elements(t)
  BY <1>3, <1>5, <1>6, <1>7 DEF Elements
<1>12. Elements(s) \subseteq Elements(u)
  <2>1. \A i \in DOMAIN s : i \in DOMAIN u
    BY <1>2, <1>6
  <2> QED
    BY <1>3, <1>6, <2>1 DEF Elements
<1>13. Elements(t) \subseteq Elements(u)
  <2>1. \A i \in DOMAIN t : i + Len(s) \in DOMAIN u
    BY <1>2, <1>6
  <2> QED
    BY <1>4, <1>6, <2>1 DEF Elements
<1> QED
  BY <1>2, <1>10, <1>11, <1>12, <1>13 DEF IsListing, u

(* Nothing is a listing.                                                   *)
LEMMA EmptyListing == IsListing(<<>>) /\ Elements(<<>>) = {}
BY DEF IsListing, Elements

(* A single name is a listing.                                             *)
LEMMA OneListing ==
  ASSUME NEW p \in Names
  PROVE  IsListing(<<p>>) /\ Elements(<<p>>) = {p}
<1>1. DOMAIN <<p>> = 1..1 /\ <<p>>[1] = p /\ <<p>> \in Seq(Names)
  OBVIOUS
<1>2. DOMAIN <<p>> = {1}
  BY <1>1
<1> HIDE DEF Names
<1> QED
  BY <1>1, <1>2 DEF IsListing, Elements

(* The world directories are walked in the order of the code.              *)
World(i) == <<"world", <<"cell", "custom">>[i]>>

WorldWalk(w, f) ==
  w = [i \in 0..2 |->
         IF i = 0 THEN <<>> ELSE w[i - 1] \o <<World(i)>> \o A!FilesIn(f, World(i))]

(* The directories in the order in which collectStateDirectories visits    *)
(* them.                                                                   *)
LEMMA CollectedInOrder ==
  ASSUME NEW f
  PROVE  A!collectStateDirectories(f) =
           <<<<"players">>>> \o A!FilesIn(f, <<"players">>) \o <<<<"world">>>>
             \o (<<>> \o <<World(1)>> \o A!FilesIn(f, World(1))
                   \o <<World(2)>> \o A!FilesIn(f, World(2)))
<1> DEFINE one == <<>> \o <<World(1)>> \o A!FilesIn(f, World(1))
           two == one \o <<World(2)>> \o A!FilesIn(f, World(2))
           worlds == CHOOSE w : WorldWalk(w, f)
<1>1. Len(<<"cell", "custom">>) = 2
  OBVIOUS
<1>2. A!collectStateDirectories(f) =
        <<<<"players">>>> \o A!FilesIn(f, <<"players">>) \o <<<<"world">>>> \o worlds[2]
  BY <1>1 DEF A!collectStateDirectories, WorldWalk, World
<1>3. \E w : WorldWalk(w, f)
  <2> DEFINE v == [i \in 0..2 |-> IF i = 0 THEN <<>> ELSE IF i = 1 THEN one ELSE two]
             step(x, i) == IF i = 0 THEN <<>>
                           ELSE x[i - 1] \o <<World(i)>> \o A!FilesIn(f, World(i))
  <2>1. v[0] = <<>> /\ v[1] = one /\ v[2] = two /\ v = [i \in 0..2 |-> v[i]]
    OBVIOUS
  <2>2. \A i \in 0..2 : i = 0 \/ i = 1 \/ i = 2
    OBVIOUS
  <2>3. step(v, 2) = two
    BY <2>1
  <2>4. step(v, 1) = one
    BY <2>1
  <2>5. step(v, 0) = <<>>
    OBVIOUS
  <2> HIDE DEF v, one, two, step
  <2>6. \A i \in 0..2 : v[i] = step(v, i)
    BY <2>1, <2>2, <2>3, <2>4, <2>5
  <2>7. v = [i \in 0..2 |-> step(v, i)]
    BY <2>1, <2>6
  <2>8. WorldWalk(v, f)
    BY <2>7 DEF WorldWalk, step
  <2> QED
    BY <2>8
<1>4. WorldWalk(worlds, f)
  BY <1>3
<1> HIDE DEF worlds
<1> DEFINE step(i) == IF i = 0 THEN <<>>
                      ELSE worlds[i - 1] \o <<World(i)>> \o A!FilesIn(f, World(i))
<1>5. worlds = [i \in 0..2 |-> step(i)]
  BY <1>4 DEF WorldWalk
<1>6. step(0) = <<>>
  OBVIOUS
<1>7. step(1) = worlds[0] \o <<World(1)>> \o A!FilesIn(f, World(1))
  OBVIOUS
<1>8. step(2) = worlds[1] \o <<World(2)>> \o A!FilesIn(f, World(2))
  OBVIOUS
<1> HIDE DEF step
<1>9. worlds[0] = step(0) /\ worlds[1] = step(1) /\ worlds[2] = step(2)
  BY <1>5
<1> QED
  BY <1>2, <1>6, <1>7, <1>8, <1>9

(* The components of a path, and what lies above it.                       *)
LEMMA Prefix ==
  ASSUME NEW S, NEW s \in Seq(S), NEW t \in Seq(S), Len(t) <= Len(s),
         \A i \in 1..Len(t) : t[i] = s[i]
  PROVE  SubSeq(s, 1, Len(t)) = t
<1> DEFINE k == Len(t)
<1>1. k \in 0..Len(s)
  OBVIOUS
<1>2. /\ SubSeq(s, 1, k) \in Seq(S) /\ Len(SubSeq(s, 1, k)) = k
      /\ \A i \in 1..k : SubSeq(s, 1, k)[i] = s[i]
  BY <1>1, SubSeqProperties
<1>3. \A i \in 1..Len(SubSeq(s, 1, k)) : SubSeq(s, 1, k)[i] = t[i]
  BY <1>2
<1> QED
  BY <1>2, <1>3, SeqEqual

(* What is above a path of two names.                                      *)
LEMMA Above2 ==
  ASSUME NEW S, NEW a \in S, NEW b \in S
  PROVE  A!Front(<<a, b>>) = <<a>> /\ A!Parents(<<a, b>>) = {<<a>>}
<1> DEFINE s == <<a, b>>
           t == <<a>>
<1>1. s \in Seq(S) /\ t \in Seq(S)
  OBVIOUS
<1>2. Len(s) = 2 /\ Len(t) = 1 /\ t[1] = a /\ s[1] = a
  OBVIOUS
<1> HIDE DEF s, t
<1>3. SubSeq(s, 1, 1) = t
  <2>1. \A i \in 1..1 : t[i] = s[i]
    BY <1>2
  <2> QED
    BY <1>1, <1>2, <2>1, Prefix
<1>4. A!Front(s) = t
  BY <1>2, <1>3 DEF A!Front
<1>5. \A k \in 1..(Len(s) - 1) : k = 1
  BY <1>2
<1>6. A!Parents(s) = {t}
  BY <1>2, <1>3, <1>5 DEF A!Parents
<1> QED
  BY <1>4, <1>6 DEF s, t

(* What is above a path of three names.                                    *)
LEMMA Above3 ==
  ASSUME NEW S, NEW a \in S, NEW b \in S, NEW c \in S
  PROVE  A!Front(<<a, b, c>>) = <<a, b>> /\ A!Parents(<<a, b, c>>) = {<<a>>, <<a, b>>}
<1> DEFINE s == <<a, b, c>>
           t == <<a>>
           u == <<a, b>>
<1>1. s \in Seq(S) /\ t \in Seq(S) /\ u \in Seq(S)
  OBVIOUS
<1>2. /\ Len(s) = 3 /\ Len(t) = 1 /\ Len(u) = 2
      /\ t[1] = a /\ u[1] = a /\ u[2] = b /\ s[1] = a /\ s[2] = b
  OBVIOUS
<1> HIDE DEF s, t, u
<1>3. SubSeq(s, 1, 1) = t
  <2>1. \A i \in 1..1 : t[i] = s[i]
    BY <1>2
  <2> QED
    BY <1>1, <1>2, <2>1, Prefix
<1>4. SubSeq(s, 1, 2) = u
  <2>1. \A i \in 1..2 : u[i] = s[i]
    BY <1>2
  <2> QED
    BY <1>1, <1>2, <2>1, Prefix
<1>5. A!Front(s) = u
  BY <1>2, <1>4 DEF A!Front
<1>6. \A k \in 1..(Len(s) - 1) : k = 1 \/ k = 2
  BY <1>2
<1>7. A!Parents(s) = {t, u}
  BY <1>2, <1>3, <1>4, <1>6 DEF A!Parents
<1> QED
  BY <1>5, <1>7 DEF s, t, u

(* Nothing is above a single name.                                         *)
LEMMA Above1 ==
  ASSUME NEW a
  PROVE  A!Parents(<<a>>) = {}
<1>1. Len(<<a>>) = 1
  OBVIOUS
<1> QED
  BY <1>1 DEF A!Parents

(* The components the names are made of.                                   *)
Parts == {"players", "bob", "Bob", "world", "cell", "custom", "x", "configs",
          "config.lua"}

(* The walk lists every directory, and what the game has is in them.       *)
Found(f, dir, p) == IF f[p] # 0 /\ A!Front(p) = dir THEN <<p>> ELSE <<>>

(* The files of a directory found under one name: that name or none.       *)
LEMMA FoundListing ==
  ASSUME NEW f, NEW dir, NEW p \in Names
  PROVE  /\ IsListing(Found(f, dir, p))
         /\ Elements(Found(f, dir, p)) = IF f[p] # 0 /\ A!Front(p) = dir THEN {p} ELSE {}
<1>1. CASE f[p] # 0 /\ A!Front(p) = dir
  BY <1>1, OneListing DEF Found
<1>2. CASE ~(f[p] # 0 /\ A!Front(p) = dir)
  BY <1>2, EmptyListing DEF Found
<1> QED
  BY <1>1, <1>2

(* Where the files of the game lie.                                        *)
LEMMA FrontsOf ==
  /\ A!Front(A!Bob) = <<"players">> /\ A!Front(A!BobUpper) = <<"players">>
  /\ A!Front(A!Cell) = <<"world", "cell">>
<1>1. A!Cell = <<"world", "cell", "x">>
  BY DEF A!Cell
<1>2. /\ "players" \in Parts /\ "bob" \in Parts /\ "Bob" \in Parts
      /\ "world" \in Parts /\ "cell" \in Parts /\ "x" \in Parts
  BY DEF Parts
<1>3. A!Front(<<"players", "bob">>) = <<"players">>
  BY <1>2, Above2
<1>4. A!Front(<<"players", "Bob">>) = <<"players">>
  BY <1>2, Above2
<1>5. A!Front(<<"world", "cell", "x">>) = <<"world", "cell">>
  BY <1>2, Above3
<1> QED
  BY <1>1, <1>3, <1>4, <1>5 DEF A!Bob, A!BobUpper

(* What readStateFiles finds in a directory.                               *)
LEMMA FilesInListing ==
  ASSUME NEW f, NEW dir
  PROVE  /\ IsListing(A!FilesIn(f, dir))
         /\ Elements(A!FilesIn(f, dir)) =
              {p \in {A!BobUpper, A!Bob, A!Cell} : f[p] # 0 /\ A!Front(p) = dir}
<1>1. A!BobUpper \in Names /\ A!Bob \in Names /\ A!Cell \in Names
  BY DEF Names, A!LivePaths
<1>2. A!BobUpper # A!Bob /\ A!BobUpper # A!Cell /\ A!Bob # A!Cell
  BY DEF A!Bob, A!BobUpper, A!Cell
<1> DEFINE x == Found(f, dir, A!BobUpper)
           y == Found(f, dir, A!Bob)
           z == Found(f, dir, A!Cell)
           X == IF f[A!BobUpper] # 0 /\ A!Front(A!BobUpper) = dir THEN {A!BobUpper} ELSE {}
           Y == IF f[A!Bob] # 0 /\ A!Front(A!Bob) = dir THEN {A!Bob} ELSE {}
           Z == IF f[A!Cell] # 0 /\ A!Front(A!Cell) = dir THEN {A!Cell} ELSE {}
<1>3. /\ IsListing(x) /\ Elements(x) = X
      /\ IsListing(y) /\ Elements(y) = Y
      /\ IsListing(z) /\ Elements(z) = Z
  BY <1>1, FoundListing
<1>4. X \cap Y = {} /\ (X \cup Y) \cap Z = {}
  BY <1>2
<1>5. X \cup Y \cup Z = {p \in {A!BobUpper, A!Bob, A!Cell} : f[p] # 0 /\ A!Front(p) = dir}
  OBVIOUS
<1>6. A!FilesIn(f, dir) = x \o y \o z
  BY DEF A!FilesIn, Found
<1> HIDE DEF x, y, z, X, Y, Z
<1>7. IsListing(x \o y) /\ Elements(x \o y) = X \cup Y
  BY <1>3, <1>4, Joined
<1>8. IsListing((x \o y) \o z) /\ Elements((x \o y) \o z) = X \cup Y \cup Z
  BY <1>3, <1>4, <1>7, Joined
<1> QED
  BY <1>5, <1>6, <1>8

(* What backups create will write: everything a snapshot needs, once, and   *)
(* nothing that is not of a snapshot.                                       *)
TodoOf(f) ==
  <<<<"current.txt">>>> \o A!collectStateConfigs \o <<<<A!RDF>>>>
    \o A!collectStateDirectories(f)

(* The names of a snapshot differ.                                         *)
LEMMA NamesDiffer ==
  /\ <<"current.txt">> # <<A!RDF>>
  /\ Metadata \cap Dirs = {}
  /\ A!LivePaths \cap (Dirs \cup Metadata) = {}
  /\ A!Config \notin {A!Bob, A!BobUpper, A!Cell}
<1>1. A!Cell = <<"world", "cell", "x">>
  BY DEF A!Cell
<1>2. <<"current.txt">> # <<A!RDF>>
  BY DEF A!RDF
<1>3. Metadata \cap Dirs = {}
  BY DEF Metadata, Dirs, A!RDF
<1>4. A!LivePaths \cap (Dirs \cup Metadata) = {}
  BY <1>1 DEF A!LivePaths, A!Bob, A!BobUpper, A!Config, Metadata, Dirs
<1>5. A!Config \notin {A!Bob, A!BobUpper, A!Cell}
  BY <1>1 DEF A!Bob, A!BobUpper, A!Config
<1> QED
  BY <1>2, <1>3, <1>4, <1>5

(* What is collected of the configs.                                       *)
LEMMA ConfigsListing ==
  /\ IsListing(A!collectStateConfigs)
  /\ Elements(A!collectStateConfigs) = {<<"configs">>, A!Config}
<1> DEFINE p == <<"configs">>
           q == A!Config
<1>1. p \in Names /\ q \in Names /\ p # q
  BY NamesDiffer DEF Names, Required, Dirs, A!LivePaths
<1>2. A!collectStateConfigs = <<p, q>>
  BY DEF A!collectStateConfigs
<1> HIDE DEF p, q, Names
<1>3. /\ <<p, q>> \in Seq(Names) /\ Len(<<p, q>>) = 2
      /\ <<p, q>>[1] = p /\ <<p, q>>[2] = q
  BY <1>1
<1>4. DOMAIN <<p, q>> = {1, 2}
  BY <1>3
<1>5. IsListing(<<p, q>>)
  BY <1>1, <1>3, <1>4 DEF IsListing
<1>6. Elements(<<p, q>>) = {p, q}
  BY <1>3, <1>4 DEF Elements
<1> QED
  BY <1>2, <1>5, <1>6 DEF p, q

(* What is collected of players and world: the directories, and files the  *)
(* game may have.                                                          *)
LEMMA DirectoriesListing ==
  ASSUME NEW f
  PROVE  LET s == A!collectStateDirectories(f)
         IN  /\ IsListing(s)
             /\ {<<"players">>, <<"world">>, World(1), World(2)} \subseteq Elements(s)
             /\ Elements(s) \subseteq {<<"players">>, <<"world">>, World(1), World(2)}
                                        \cup {A!BobUpper, A!Bob, A!Cell}
<1> DEFINE Game == {A!BobUpper, A!Bob, A!Cell}
           Held(dir) == {p \in Game : f[p] # 0 /\ A!Front(p) = dir}
           D1 == <<"players">>
           D2 == <<"world">>
           W1 == World(1)
           W2 == World(2)
           FI(dir) == A!FilesIn(f, dir)
           E(s) == Elements(s)
<1>1. \A dir : IsListing(FI(dir)) /\ E(FI(dir)) = Held(dir)
  BY FilesInListing
<1>2. \A dir : Held(dir) \subseteq Game
  OBVIOUS
<1>3. /\ W1 = <<"world", "cell">> /\ W2 = <<"world", "custom">>
  BY DEF World
<1>4. /\ D1 # W1 /\ D1 # W2 /\ W1 # W2 /\ D1 # D2 /\ D2 # W1 /\ D2 # W2
  BY <1>3
<1>5. \A dir, other : dir # other => Held(dir) \cap Held(other) = {}
  OBVIOUS
<1>6. D1 \in Dirs /\ D2 \in Dirs /\ W1 \in Dirs /\ W2 \in Dirs
  BY <1>3 DEF Dirs
<1>7. Game \cap Dirs = {}
  BY NamesDiffer DEF A!LivePaths
<1>8. D1 \notin Game /\ D2 \notin Game /\ W1 \notin Game /\ W2 \notin Game
  BY <1>6, <1>7
<1>9. \A p \in Dirs : IsListing(<<p>>) /\ E(<<p>>) = {p}
  BY OneListing DEF Names, Required
<1>10. A!collectStateDirectories(f) =
         <<D1>> \o FI(D1) \o <<D2>> \o (<<>> \o <<W1>> \o FI(W1) \o <<W2>> \o FI(W2))
  BY CollectedInOrder
<1>11. IsListing(<<>>) /\ E(<<>>) = {}
  BY EmptyListing
<1>12. \A s, t : IsListing(s) /\ IsListing(t) /\ E(s) \cap E(t) = {}
                  => IsListing(s \o t) /\ E(s \o t) = E(s) \cup E(t)
  BY Joined
<1> HIDE DEF Game, Held, D1, D2, W1, W2, FI, E
<1>13. IsListing(<<D1>> \o FI(D1)) /\ E(<<D1>> \o FI(D1)) = {D1} \cup Held(D1)
  BY <1>1, <1>2, <1>6, <1>8, <1>9, <1>12
<1> DEFINE s1 == <<D1>> \o FI(D1)
<1>14. IsListing(s1) /\ E(s1) = {D1} \cup Held(D1)
  BY <1>13
<1> HIDE DEF s1
<1> DEFINE s2 == s1 \o <<D2>>
<1>15. IsListing(s2) /\ E(s2) = {D1, D2} \cup Held(D1)
  <2>1. E(s1) \cap E(<<D2>>) = {}
    BY <1>2, <1>4, <1>6, <1>8, <1>9, <1>14
  <2> QED
    BY <1>6, <1>9, <1>12, <1>14, <2>1
<1> HIDE DEF s2
<1> DEFINE t1 == <<>> \o <<W1>>
<1>16. IsListing(t1) /\ E(t1) = {W1}
  BY <1>6, <1>9, <1>11, <1>12
<1> HIDE DEF t1
<1> DEFINE t2 == t1 \o FI(W1)
<1>17. IsListing(t2) /\ E(t2) = {W1} \cup Held(W1)
  <2>1. E(t1) \cap E(FI(W1)) = {}
    BY <1>1, <1>2, <1>8, <1>16
  <2> QED
    BY <1>1, <1>12, <1>16, <2>1
<1> HIDE DEF t2
<1> DEFINE t3 == t2 \o <<W2>>
<1>18. IsListing(t3) /\ E(t3) = {W1, W2} \cup Held(W1)
  <2>1. E(t2) \cap E(<<W2>>) = {}
    BY <1>2, <1>4, <1>6, <1>8, <1>9, <1>17
  <2> QED
    BY <1>6, <1>9, <1>12, <1>17, <2>1
<1> HIDE DEF t3
<1> DEFINE t4 == t3 \o FI(W2)
<1>19. IsListing(t4) /\ E(t4) = {W1, W2} \cup Held(W1) \cup Held(W2)
  <2>1. E(t3) \cap E(FI(W2)) = {}
    BY <1>1, <1>2, <1>4, <1>5, <1>8, <1>18
  <2> QED
    BY <1>1, <1>12, <1>18, <2>1
<1> HIDE DEF t4
<1>20. /\ IsListing(s2 \o t4)
       /\ E(s2 \o t4) = {D1, D2, W1, W2} \cup Held(D1) \cup Held(W1) \cup Held(W2)
  <2>1. E(s2) \cap E(t4) = {}
    BY <1>2, <1>4, <1>5, <1>8, <1>15, <1>19
  <2> QED
    BY <1>12, <1>15, <1>19, <2>1
<1>21. A!collectStateDirectories(f) = s2 \o t4
  BY <1>10 DEF s1, s2, t1, t2, t3, t4
<1>22. /\ IsListing(A!collectStateDirectories(f))
       /\ {D1, D2, W1, W2} \subseteq E(A!collectStateDirectories(f))
       /\ E(A!collectStateDirectories(f)) \subseteq {D1, D2, W1, W2} \cup Game
  BY <1>2, <1>20, <1>21
<1> QED
  BY <1>22 DEF D1, D2, W1, W2, E, Game

(* A backup has every required name to write, each once, whatever the game *)
(* has saved.                                                              *)
LEMMA TodoListing ==
  ASSUME NEW f
  PROVE  IsListing(TodoOf(f)) /\ Required \subseteq Elements(TodoOf(f))
<1> DEFINE cur == <<"current.txt">>
           rdf == <<A!RDF>>
           configs == A!collectStateConfigs
           rest == A!collectStateDirectories(f)
           Worlds == {<<"players">>, <<"world">>, World(1), World(2)}
           Game == {A!BobUpper, A!Bob, A!Cell}
<1>1. World(1) = <<"world", "cell">> /\ World(2) = <<"world", "custom">>
  BY DEF World
<1>2. Dirs = {<<"configs">>} \cup Worlds /\ <<"configs">> \notin Worlds
  BY <1>1 DEF Dirs
<1>3. Metadata = {cur, rdf} /\ cur # rdf /\ Metadata \cap Dirs = {}
  BY NamesDiffer DEF Metadata
<1>4. /\ A!Config \notin Game /\ A!Config \notin Dirs /\ A!Config \notin Metadata
      /\ Game \cap Dirs = {} /\ Game \cap Metadata = {}
  BY NamesDiffer DEF A!LivePaths
<1>5. IsListing(configs) /\ Elements(configs) = {<<"configs">>, A!Config}
  BY ConfigsListing
<1>6. IsListing(rest) /\ Worlds \subseteq Elements(rest) /\ Elements(rest) \subseteq Worlds \cup Game
  BY DirectoriesListing
<1>7. IsListing(<<cur>>) /\ Elements(<<cur>>) = {cur}
  BY <1>3, OneListing DEF Names, Required
<1>8. IsListing(<<rdf>>) /\ Elements(<<rdf>>) = {rdf}
  BY <1>3, OneListing DEF Names, Required
<1>9. TodoOf(f) = <<cur>> \o configs \o <<rdf>> \o rest
  BY DEF TodoOf
<1>10. Required = Dirs \cup Metadata \cup {A!Config}
  BY DEF Required
<1> HIDE DEF cur, rdf, configs, rest, Worlds, Game
<1> DEFINE s1 == <<cur>> \o configs
<1>11. IsListing(s1) /\ Elements(s1) = {cur, <<"configs">>, A!Config}
  <2>1. Elements(<<cur>>) \cap Elements(configs) = {}
    BY <1>2, <1>3, <1>4, <1>5, <1>7
  <2> QED
    BY <1>5, <1>7, <2>1, Joined
<1> HIDE DEF s1
<1> DEFINE s2 == s1 \o <<rdf>>
<1>12. IsListing(s2) /\ Elements(s2) = {cur, <<"configs">>, A!Config, rdf}
  <2>1. Elements(s1) \cap Elements(<<rdf>>) = {}
    BY <1>2, <1>3, <1>4, <1>8, <1>11
  <2> QED
    BY <1>8, <1>11, <2>1, Joined
<1> HIDE DEF s2
<1>13. Elements(s2) \cap Elements(rest) = {}
  BY <1>2, <1>3, <1>4, <1>6, <1>12
<1>14. IsListing(s2 \o rest) /\ Elements(s2 \o rest) = Elements(s2) \cup Elements(rest)
  BY <1>6, <1>12, <1>13, Joined
<1>15. TodoOf(f) = s2 \o rest
  BY <1>9 DEF s1, s2
<1> QED
  BY <1>2, <1>3, <1>6, <1>10, <1>12, <1>14, <1>15

(* What is left of a listing after its first name.                         *)
LEMMA ListingTail ==
  ASSUME NEW s, IsListing(s), s # <<>>
  PROVE  /\ IsListing(Tail(s)) /\ Head(s) \in Names
         /\ Head(s) \notin Elements(Tail(s))
         /\ Elements(s) = {Head(s)} \cup Elements(Tail(s))
<1> DEFINE t == Tail(s)
           n == Len(s)
<1>1. s \in Seq(Names) /\ n \in Nat /\ DOMAIN s = 1..n
  BY DEF IsListing
<1>2. n # 0 /\ Head(s) = s[1]
  BY <1>1
<1>3. t \in Seq(Names) /\ Len(t) = n - 1 /\ \A i \in 1..(n - 1) : t[i] = s[i + 1]
  BY <1>1, <1>2
<1>4. DOMAIN t = 1..(n - 1)
  BY <1>1, <1>2, <1>3
<1>5. \A i, j \in 1..n : s[i] = s[j] => i = j
  BY <1>1 DEF IsListing
<1> HIDE DEF t, n
<1>6. \A i \in 1..(n - 1) : i + 1 \in 1..n
  BY <1>1
<1>7. \A i, j \in DOMAIN t : t[i] = t[j] => i = j
  BY <1>3, <1>4, <1>5, <1>6
<1>8. IsListing(t)
  BY <1>3, <1>7 DEF IsListing
<1>9. 1 \in 1..n
  BY <1>1, <1>2
<1>10. s[1] \in Names
  BY <1>1, <1>9
<1>11. s[1] \notin Elements(t)
  BY <1>3, <1>4, <1>5, <1>6, <1>9 DEF Elements
<1>12. \A i \in 1..n : i = 1 \/ (i - 1 \in 1..(n - 1) /\ s[i] = t[i - 1])
  BY <1>1, <1>3
<1>13. Elements(s) \subseteq {s[1]} \cup Elements(t)
  BY <1>1, <1>4, <1>12 DEF Elements
<1>14. {s[1]} \cup Elements(t) \subseteq Elements(s)
  BY <1>1, <1>3, <1>4, <1>6, <1>9 DEF Elements
<1> QED
  BY <1>2, <1>8, <1>10, <1>11, <1>13, <1>14 DEF t

(* The components no file system takes for another one.                    *)
Lowered == {"players", "bob", "world", "cell", "custom", "x", "configs", "config.lua",
            "current.txt", A!RDF}

(* Names in lower case are their own keys.                                 *)
LEMMA LoweredKeys ==
  ASSUME NEW p \in Seq(Lowered)
  PROVE  A!Key(p) = p
<1>1. \A c \in Lowered : A!Lower(c) = c
  BY DEF Lowered, A!Lower, A!RDF
<1>2. \A i \in DOMAIN p : p[i] \in Lowered
  OBVIOUS
<1>3. p = [i \in DOMAIN p |-> p[i]]
  OBVIOUS
<1>4. A!Key(p) = [i \in DOMAIN p |-> p[i]]
  BY <1>1, <1>2 DEF A!Key
<1> QED
  BY <1>3, <1>4

(* Short paths are sequences.                                              *)
LEMMA Tuples ==
  ASSUME NEW S, NEW a \in S, NEW b \in S, NEW c \in S
  PROVE  <<a>> \in Seq(S) /\ <<a, b>> \in Seq(S) /\ <<a, b, c>> \in Seq(S)
OBVIOUS

(* The file of the world.                                                  *)
LEMMA CellIs == A!Cell = <<"world", "cell", "x">>
BY DEF A!Cell

(* Of the names of a backup only the upper-case player differs from its    *)
(* key.                                                                    *)
LEMMA NameKeys ==
  ASSUME NEW p \in Names
  PROVE  /\ p # A!BobUpper => A!Key(p) = p
         /\ A!Key(A!BobUpper) = A!Bob
<1>1. ASSUME p # A!BobUpper PROVE p \in Seq(Lowered)
  <2>1. /\ "players" \in Lowered /\ "bob" \in Lowered /\ "world" \in Lowered
        /\ "cell" \in Lowered /\ "custom" \in Lowered /\ "x" \in Lowered
        /\ "configs" \in Lowered /\ "config.lua" \in Lowered
        /\ "current.txt" \in Lowered /\ A!RDF \in Lowered
    BY DEF Lowered
  <2>2. Dirs \subseteq Seq(Lowered)
    BY <2>1, Tuples DEF Dirs
  <2>3. Metadata \subseteq Seq(Lowered)
    BY <2>1, Tuples DEF Metadata
  <2>4. A!Config \in Seq(Lowered) /\ A!Bob \in Seq(Lowered) /\ A!Cell \in Seq(Lowered)
    BY <2>1, Tuples, CellIs DEF A!Config, A!Bob
  <2> QED
    BY <1>1, <2>2, <2>3, <2>4 DEF Names, Required, A!LivePaths
<1>2. A!Key(A!BobUpper) = A!Bob
  <2> DEFINE k == A!Key(A!BobUpper)
             q == A!BobUpper
  <2>1. DOMAIN q = 1..2 /\ q[1] = "players" /\ q[2] = "Bob"
    BY DEF A!BobUpper
  <2>2. A!Lower("players") = "players" /\ A!Lower("Bob") = "bob"
    BY DEF A!Lower
  <2>3. k = [i \in DOMAIN q |-> A!Lower(q[i])]
    BY DEF A!Key
  <2> HIDE DEF k, q
  <2>4. k = [i \in 1..2 |-> k[i]] /\ k[1] = "players" /\ k[2] = "bob"
    BY <2>1, <2>2, <2>3
  <2>5. A!Bob = [i \in 1..2 |-> A!Bob[i]] /\ A!Bob[1] = "players" /\ A!Bob[2] = "bob"
    BY DEF A!Bob
  <2>6. \A i \in 1..2 : k[i] = A!Bob[i]
    BY <2>4, <2>5
  <2> QED
    BY <2>4, <2>5, <2>6 DEF k
<1> QED
  BY <1>1, <1>2, LoweredKeys

(* Above every name of a backup are directories of the backup.             *)
LEMMA NameParents ==
  ASSUME NEW p \in Names
  PROVE  A!Parents(p) \subseteq Dirs
<1>1. /\ "players" \in Parts /\ "bob" \in Parts /\ "Bob" \in Parts /\ "world" \in Parts
      /\ "cell" \in Parts /\ "custom" \in Parts /\ "x" \in Parts
      /\ "configs" \in Parts /\ "config.lua" \in Parts
  BY DEF Parts
<1>2. /\ <<"players">> \in Dirs /\ <<"world">> \in Dirs /\ <<"world", "cell">> \in Dirs
      /\ <<"configs">> \in Dirs
  BY DEF Dirs
<1>3. CASE p \in {<<"configs">>, <<"players">>, <<"world">>, <<A!RDF>>, <<"current.txt">>}
  BY <1>3, Above1
<1>4. CASE p \in {<<"world", "cell">>, <<"world", "custom">>}
  <2>1. A!Parents(<<"world", "cell">>) = {<<"world">>} /\ A!Parents(<<"world", "custom">>) = {<<"world">>}
    BY <1>1, Above2
  <2> QED
    BY <1>2, <1>4, <2>1
<1>5. CASE p \in {A!Bob, A!BobUpper, A!Config}
  <2>1. A!Parents(<<"players", "bob">>) = {<<"players">>} /\ A!Parents(<<"players", "Bob">>) = {<<"players">>}
    BY <1>1, Above2
  <2>2. A!Parents(<<"configs", "config.lua">>) = {<<"configs">>}
    BY <1>1, Above2
  <2> QED
    BY <1>2, <1>5, <2>1, <2>2 DEF A!Bob, A!BobUpper, A!Config
<1>6. CASE p = A!Cell
  <2>1. A!Parents(<<"world", "cell", "x">>) = {<<"world">>, <<"world", "cell">>}
    BY <1>1, Above3
  <2> QED
    BY <1>2, <1>6, <2>1, CellIs
<1> QED
  BY <1>3, <1>4, <1>5, <1>6 DEF Names, Required, Dirs, Metadata, A!LivePaths

(* The header written for a name.                                          *)
LEMMA HeaderIs ==
  ASSUME NEW p \in Names
  PROVE  LET h == A!HeaderOf(p)
         IN  /\ h.path = p /\ h.safe = TRUE /\ h.list = <<>> /\ h.size \in {0, 1}
             /\ h.typ = IF p \in Dirs THEN "dir" ELSE "file"
             /\ h.long <=> p = A!Cell
             /\ p = <<"current.txt">> => h.data = 1
             /\ p \in A!LivePaths => h.data = live[p]
<1> DEFINE h == A!HeaderOf(p)
<1>1. CASE p = <<"current.txt">>
  <2>1. h = A!File(p, 1)
    <3>1. p # <<A!RDF>> /\ p \notin A!LivePaths
      BY <1>1, NamesDiffer DEF Metadata
    <3> QED
      BY <1>1, <3>1 DEF A!HeaderOf
  <2>2. p \notin Dirs /\ p # A!Cell /\ p \notin A!LivePaths
    BY <1>1, NamesDiffer DEF Metadata, A!LivePaths
  <2>3. /\ h.path = p /\ h.safe = TRUE /\ h.list = <<>> /\ h.size = 1 /\ h.typ = "file"
        /\ h.long = FALSE /\ h.data = 1
    BY <2>1 DEF A!File
  <2> QED
    BY <2>2, <2>3
<1>2. CASE p = <<A!RDF>>
  <2>1. h = A!ListFile(p, <<>>)
    <3>1. p # <<"current.txt">> /\ p \notin A!LivePaths
      BY <1>2, NamesDiffer DEF Metadata
    <3> QED
      BY <1>2, <3>1 DEF A!HeaderOf
  <2>2. p \notin Dirs /\ p # A!Cell /\ p \notin A!LivePaths /\ p # <<"current.txt">>
    BY <1>2, NamesDiffer DEF Metadata, A!LivePaths
  <2>3. /\ h.path = p /\ h.safe = TRUE /\ h.list = <<>> /\ h.size = 1 /\ h.typ = "file"
        /\ h.long = FALSE
    <3> DEFINE f == A!File(p, 0)
    <3>1. /\ f.path = p /\ f.safe = TRUE /\ f.size = 1 /\ f.typ = "file" /\ f.long = FALSE
          /\ IsHeader(f)
      BY DEF A!File, IsHeader
    <3>2. h = [f EXCEPT !.list = <<>>]
      BY <2>1 DEF A!ListFile
    <3> HIDE DEF f, h
    <3> QED
      BY <3>1, <3>2 DEF IsHeader
  <2> QED
    BY <2>2, <2>3
<1>3. CASE p \in A!LivePaths
  <2>1. p \notin Metadata /\ p \notin Dirs
    BY <1>3, NamesDiffer
  <2>2. h = [A!File(p, live[p]) EXCEPT !.long = A!IsLong(p)]
    BY <1>3, <2>1 DEF A!HeaderOf, Metadata
  <2>3. /\ h.path = p /\ h.safe = TRUE /\ h.list = <<>> /\ h.size = 1 /\ h.typ = "file"
        /\ h.long = A!IsLong(p) /\ h.data = live[p]
    <3> DEFINE f == A!File(p, live[p])
    <3>1. /\ f.path = p /\ f.safe = TRUE /\ f.size = 1 /\ f.typ = "file" /\ f.list = <<>>
          /\ f.data = live[p] /\ IsHeader(f)
      BY DEF A!File, IsHeader
    <3>2. h = [f EXCEPT !.long = A!IsLong(p)]
      BY <2>2
    <3> HIDE DEF f, h
    <3> QED
      BY <3>1, <3>2 DEF IsHeader
  <2>4. p # <<"current.txt">>
    BY <2>1 DEF Metadata
  <2> QED
    BY <2>1, <2>3, <2>4 DEF A!IsLong
<1>4. CASE p \in Dirs
  <2>1. p \notin Metadata /\ p \notin A!LivePaths
    BY <1>4, NamesDiffer
  <2>2. h = A!Dir(p)
    BY <2>1 DEF A!HeaderOf, Metadata
  <2>3. /\ h.path = p /\ h.safe = TRUE /\ h.list = <<>> /\ h.size = 0 /\ h.typ = "dir"
        /\ h.long = FALSE
    <3> DEFINE f == A!File(p, 0)
    <3>1. /\ f.path = p /\ f.safe = TRUE /\ f.list = <<>> /\ f.long = FALSE
          /\ IsHeader(f)
      BY DEF A!File, IsHeader
    <3>2. h = [f EXCEPT !.typ = "dir", !.size = 0]
      BY <2>2 DEF A!Dir
    <3> HIDE DEF f, h
    <3> QED
      BY <3>1, <3>2 DEF IsHeader
  <2>4. p # <<"current.txt">> /\ p # A!Cell
    BY <2>1 DEF Metadata, A!LivePaths
  <2> QED
    BY <1>4, <2>1, <2>3, <2>4
<1> QED
  BY <1>1, <1>2, <1>3, <1>4 DEF Names, Required, Metadata, A!LivePaths

(***************************************************************************)
(* Archives: what a reader knows of a backup.                              *)
(***************************************************************************)

Done(r) == {x.path : x \in r.seen}

(* What the reader has seen of a backup.                                   *)
SeenOf(r) ==
  \A x \in r.seen : x.path \in Names /\ x.typ = IF x.path \in Dirs THEN "dir" ELSE "file"

Pair(p, q) == p \in {A!Bob, A!BobUpper} /\ q \in {A!Bob, A!BobUpper}

(* Two names of a backup with one key are the case twins.                  *)
LEMMA KeysDiffer ==
  ASSUME NEW p \in Names, NEW q \in Names, p # q, ~Pair(p, q)
  PROVE  A!Key(p) # A!Key(q)
<1>1. A!Bob \in Names /\ A!BobUpper \in Names
  BY DEF Names, A!LivePaths
<1> QED
  BY <1>1, NameKeys DEF Pair

(* No file of a backup is above another name of it.                        *)
LEMMA FilesAboveNothing ==
  ASSUME NEW p \in Names, NEW q \in Names, q \notin Dirs
  PROVE  A!Key(q) \notin {A!Key(m) : m \in A!Parents(p)}
<1>1. \A m \in A!Parents(p) : m \in Dirs /\ m \in Names
  BY NameParents DEF Names, Required
<1>2. \A m \in Dirs : m # A!BobUpper /\ m # A!Bob
  BY NamesDiffer DEF A!LivePaths
<1>3. \A m \in A!Parents(p) : A!Key(m) # A!Key(q)
  BY <1>1, <1>2, KeysDiffer DEF Pair
<1> QED
  BY <1>3

(* The Cardinality of the archives is that of FiniteSets.                  *)
LEMMA ArchCardinality ==
  ASSUME NEW S
  PROVE  A!Cardinality(S) = Cardinality(S)
BY DEF A!Cardinality, Cardinality

(* The reader refuses a name of a backup only for the limits, or because    *)
(* one that differs in case came before.                                    *)
LEMMA BackupAccepted ==
  ASSUME NEW r, SeenOf(r), NEW p \in Names, p \notin Done(r),
         \A q \in Done(r) : ~Pair(p, q),
         r.read + A!Blocks(A!HeaderOf(p)) <= MaxBlocks,
         Cardinality(r.seen) < MaxEntries
  PROVE  A!Accepts(r, A!HeaderOf(p))
<1> DEFINE h == A!HeaderOf(p)
<1>1. h.path = p /\ h.safe = TRUE /\ h.typ = IF p \in Dirs THEN "dir" ELSE "file"
  BY HeaderIs
<1> HIDE DEF h
<1>2. \A x \in r.seen : x.path \in Names /\ x.path # p /\ ~Pair(p, x.path)
  BY DEF SeenOf, Done
<1>3. \A x \in r.seen : A!Key(x.path) # A!Key(h.path)
  BY <1>1, <1>2, KeysDiffer
<1>4. \A x \in r.seen : x.typ = "file" =>
         A!Key(x.path) \notin {A!Key(m) : m \in A!Parents(h.path)}
  BY <1>1, <1>2, FilesAboveNothing DEF SeenOf
<1>5. h.typ = "file" => A!Key(h.path) \notin A!implied(r)
  <2> SUFFICES ASSUME h.typ = "file", NEW x \in r.seen,
                      A!Key(p) \in {A!Key(m) : m \in A!Parents(x.path)}
               PROVE  FALSE
    BY <1>1 DEF A!implied
  <2>1. p \notin Dirs
    BY <1>1
  <2> QED
    BY <1>2, <2>1, FilesAboveNothing
<1>6. A!Cardinality(r.seen) < MaxEntries /\ r.read + A!Blocks(h) <= MaxBlocks
  BY ArchCardinality DEF h
<1> QED
  BY <1>1, <1>3, <1>4, <1>5, <1>6 DEF A!Accepts, h

(* The directories of a snapshot are those a backup writes.                *)
LEMMA StateDirsAre == A!StateDirs = Dirs
<1>1. A!WorldSet = {"cell", "custom"}
  <2> DEFINE s == <<"cell", "custom">>
  <2>1. DOMAIN s = {1, 2} /\ s[1] = "cell" /\ s[2] = "custom"
    OBVIOUS
  <2>2. A!WorldSet = {s[i] : i \in DOMAIN s}
    BY DEF A!WorldSet, A!ToSet
  <2> HIDE DEF s
  <2> QED
    BY <2>1, <2>2
<1> QED
  BY <1>1 DEF A!StateDirs, A!stateRequiredDirs, Dirs

(* What the game saves is state.                                           *)
LEMMA LiveIsState ==
  ASSUME NEW p \in A!LivePaths
  PROVE  A!StateFile(p)
<1>1. CASE p \in {A!Bob, A!BobUpper}
  <2>1. p[1] = "players" /\ Len(p) = 2
    BY <1>1 DEF A!Bob, A!BobUpper
  <2> QED
    BY <2>1 DEF A!StateFile
<1>2. CASE p = A!Cell
  <2>1. p[1] = "world" /\ Len(p) = 3 /\ p[2] = "cell"
    BY <1>2, CellIs
  <2>2. "cell" \in A!WorldSet
    <3> DEFINE s == <<"cell", "custom">>
    <3>1. 1 \in DOMAIN s /\ s[1] = "cell"
      OBVIOUS
    <3>2. A!WorldSet = {s[i] : i \in DOMAIN s}
      BY DEF A!WorldSet, A!ToSet
    <3> HIDE DEF s
    <3> QED
      BY <3>1, <3>2
  <2> QED
    BY <2>1, <2>2 DEF A!StateFile
<1>3. CASE p = A!Config
  BY <1>3 DEF A!StateFile
<1> QED
  BY <1>1, <1>2, <1>3 DEF A!LivePaths

(* Both passes take the entry, and know it afterwards.                      *)
LEMMA BackupEntryRead ==
  ASSUME NEW v, IsVal(v), NEW e, IsExt(e), NEW r, IsReader(r), StateRead(v, e, r),
         NEW p \in Names, ~A!Next1(r, A!HeaderOf(p)).err,
         p = <<A!RDF>> => v.list = NoList,
         p = <<"current.txt">> => v.current = 0
  PROVE  LET h == A!HeaderOf(p)
             w == A!ValidateStateEntry(v, h)
             x == A!ExtractStateEntry(e, h)
         IN  /\ StateRead(w, x, A!Next1(r, h))
             /\ w.list # NoList <=> v.list # NoList \/ p = <<A!RDF>>
             /\ w.current # 0 <=> v.current # 0 \/ p = <<"current.txt">>
             /\ v.seen \subseteq w.seen
             /\ p \in Dirs \cup {A!Config} => p \in w.seen
             /\ e.files \subseteq x.files
             /\ p \in A!LivePaths => \E f \in x.files : f.path = p /\ f.data = h.data
<1> DEFINE h == A!HeaderOf(p)
           w == A!ValidateStateEntry(v, h)
           x == A!ExtractStateEntry(e, h)
           z == A!writeExtractedFile(e, h)
<1>1. /\ h.path = p /\ h.list = <<>> /\ h.typ = IF p \in Dirs THEN "dir" ELSE "file"
      /\ p = <<"current.txt">> => h.data = 1
  BY HeaderIs
<1>2. <<>> # NoList
  BY NoListAssumption DEF A!Lists
<1>3. p \in Dirs \/ p = <<A!RDF>> \/ p = <<"current.txt">> \/ p \in A!LivePaths
  BY DEF Names, Required, Metadata, A!LivePaths
<1>4. /\ p \in Dirs => p \notin Metadata /\ p \notin A!LivePaths
      /\ p \in A!LivePaths => p \notin Metadata
  BY NamesDiffer
<1> HIDE DEF h
<1>5. A!StateEntryValid(v, h)
  <2>1. CASE p \in Dirs
    BY <1>1, <2>1, StateDirsAre DEF A!StateEntryValid
  <2>2. CASE p = <<A!RDF>>
    <3>1. A!ParseRequiredDataFiles(<<>>)
      BY DEF A!ParseRequiredDataFiles
    <3>2. p \notin Dirs
      BY <1>4, <2>2 DEF Metadata
    <3> QED
      BY <1>1, <2>2, <3>1, <3>2 DEF A!StateEntryValid
  <2>3. CASE p = <<"current.txt">>
    <3>1. p \notin Dirs
      BY <1>4, <2>3 DEF Metadata
    <3> QED
      BY <1>1, <2>3, <3>1 DEF A!StateEntryValid, A!ParseCurrent
  <2>4. CASE p \in A!LivePaths
    BY <1>1, <1>4, <2>4, LiveIsState DEF A!StateEntryValid
  <2> QED
    BY <1>3, <2>1, <2>2, <2>3, <2>4
<1>6. w = IF h.typ = "dir" THEN [v EXCEPT !.seen = A!validateStateDir(@, h.path)]
          ELSE IF h.path = <<A!RDF>> THEN [v EXCEPT !.list = h.list]
          ELSE IF h.path = <<"current.txt">> THEN [v EXCEPT !.current = h.data]
          ELSE [v EXCEPT !.seen = @ \cup A!ShownBy(h.path)]
  BY <1>5 DEF A!ValidateStateEntry
<1>7. /\ w.ok = v.ok /\ v.seen \subseteq w.seen
      /\ w.list # NoList <=> v.list # NoList \/ p = <<A!RDF>>
      /\ w.current # 0 <=> v.current # 0 \/ p = <<"current.txt">>
      /\ p \in Dirs \cup {A!Config} => p \in w.seen
  <2>1. CASE p \in Dirs
    <3>1. w = [v EXCEPT !.seen = A!validateStateDir(@, p)]
      BY <1>1, <1>6, <2>1
    <3>2. /\ w.ok = v.ok /\ w.list = v.list /\ w.current = v.current
          /\ w.seen = A!validateStateDir(v.seen, p)
      BY <3>1 DEF IsVal
    <3> QED
      BY <1>4, <2>1, <3>2 DEF A!validateStateDir, Metadata
  <2>2. CASE p = <<A!RDF>>
    <3>1. p \notin Dirs /\ p # <<"current.txt">> /\ p # A!Config
      BY <1>4, <2>2, NamesDiffer DEF Metadata, A!LivePaths
    <3>2. w = [v EXCEPT !.list = h.list]
      BY <1>1, <1>6, <2>2, <3>1
    <3>3. w.ok = v.ok /\ w.list = <<>> /\ w.current = v.current /\ w.seen = v.seen
      BY <1>1, <3>2 DEF IsVal
    <3> QED
      BY <1>2, <2>2, <3>1, <3>3
  <2>3. CASE p = <<"current.txt">>
    <3>1. p \notin Dirs /\ p # <<A!RDF>> /\ p # A!Config
      BY <1>4, <2>3, NamesDiffer DEF Metadata, A!LivePaths
    <3>2. w = [v EXCEPT !.current = h.data]
      BY <1>1, <1>6, <2>3, <3>1
    <3>3. w.ok = v.ok /\ w.list = v.list /\ w.current = 1 /\ w.seen = v.seen
      BY <1>1, <2>3, <3>2 DEF IsVal
    <3> QED
      BY <2>3, <3>1, <3>3
  <2>4. CASE p \in A!LivePaths
    <3>1. p \notin Dirs /\ p # <<A!RDF>> /\ p # <<"current.txt">>
      BY <1>4, <2>4 DEF Metadata
    <3>2. w = [v EXCEPT !.seen = @ \cup A!ShownBy(h.path)]
      BY <1>1, <1>6, <3>1
    <3>3. /\ w.ok = v.ok /\ w.list = v.list /\ w.current = v.current
          /\ w.seen = v.seen \cup A!ShownBy(p)
      BY <1>1, <3>2 DEF IsVal
    <3> QED
      BY <3>1, <3>3 DEF A!ShownBy
  <2> QED
    BY <1>3, <2>1, <2>2, <2>3, <2>4
<1>8. StateRead(w, x, A!Next1(r, h))
  <2>1. h.list # NoList /\ ~A!Next1(r, h).err
    BY <1>1, <1>2 DEF h
  <2>2. (~w.ok /\ ~x.ok) \/ StateRead(w, x, A!Next1(r, h))
    BY <2>1, StateEntryStep
  <2>3. v.ok
    BY DEF StateRead
  <2> QED
    BY <1>7, <2>2, <2>3
<1>9. /\ z.files = e.files \cup {[path |-> h.path, data |-> h.data, list |-> h.list]}
      /\ IsExt(z)
  <2>1. ~A!Next1(r, h).err /\ KeysRead(e, r)
    BY DEF h, StateRead
  <2> QED
    BY <2>1, Written
<1>10. /\ e.files \subseteq x.files
       /\ p \in A!LivePaths => \E f \in x.files : f.path = p /\ f.data = h.data
  <2>1. x.ok
    BY <1>8 DEF StateRead
  <2>2. \/ /\ x = [e EXCEPT !.seen = A!validateStateDir(@, h.path)]
           /\ h.typ = "dir"
        \/ x = [e EXCEPT !.ok = FALSE]
        \/ x = [z EXCEPT !.list = TRUE]
        \/ x = [z EXCEPT !.current = TRUE]
        \/ x = [z EXCEPT !.seen = @ \cup A!ShownBy(h.path)]
    BY DEF A!ExtractStateEntry
  <2>3. \/ (x.files = e.files /\ h.typ = "dir")
        \/ x.files = z.files
    <3> HIDE DEF x, z
    <3> QED
      BY <1>9, <2>1, <2>2 DEF IsExt
  <2>4. h.typ = "dir" => p \notin A!LivePaths
    BY <1>1, <1>4
  <2> DEFINE n == [path |-> h.path, data |-> h.data, list |-> h.list]
  <2>5. n.path = p /\ n.data = h.data /\ z.files = e.files \cup {n}
    BY <1>1, <1>9
  <2> HIDE DEF x, z, n
  <2> QED
    BY <2>3, <2>4, <2>5
<1> HIDE DEF w, x
<1>11. /\ StateRead(w, x, A!Next1(r, h))
       /\ w.list # NoList <=> v.list # NoList \/ p = <<A!RDF>>
       /\ w.current # 0 <=> v.current # 0 \/ p = <<"current.txt">>
       /\ v.seen \subseteq w.seen
       /\ p \in Dirs \cup {A!Config} => p \in w.seen
       /\ e.files \subseteq x.files
       /\ p \in A!LivePaths => \E f \in x.files : f.path = p /\ f.data = h.data
  BY <1>7, <1>8, <1>10
<1> QED
  BY <1>11 DEF h, w, x

(***************************************************************************)
(* Archives: a backup while it is written, next to the reading of what was *)
(* written so far.                                                         *)
(***************************************************************************)

(* What a backup has copied: the blocks of the long names, which the writer *)
(* does not count, and two names a reader takes for one.                    *)
LongOf(s) == {c \in s.copied : A!IsLong(c.path)}
HiddenOf(s) == 2 * Cardinality(LongOf(s))
TwinsOf(s) == \E c, d \in s.copied : c # d /\ A!Key(c.path) = A!Key(d.path)

IsStats(s) ==
  /\ s = [entries |-> s.entries, blocks |-> s.blocks, copied |-> s.copied]
  /\ s.entries \in Nat /\ s.blocks \in Nat /\ IsFiniteSet(s.copied)

(* The reader, the two passes and the writer's counts agree on what was    *)
(* written, and what is still to be written is what is missing.             *)
Copying(list, s, r, v, e) ==
  /\ r.read = s.blocks + HiddenOf(s)
  /\ IsFiniteSet(r.seen) /\ Cardinality(r.seen) = s.entries
  /\ SeenOf(r)
  /\ Elements(list) \cap Done(r) = {}
  /\ Required \subseteq Elements(list) \cup Done(r)
  /\ \A c \in s.copied : c.path \in Done(r) \cap A!LivePaths
  /\ \A p \in Done(r) \cap A!LivePaths : \E c \in s.copied : c.path = p
  /\ StateRead(v, e, r)
  /\ v.list # NoList <=> <<A!RDF>> \in Done(r)
  /\ v.current # 0 <=> <<"current.txt">> \in Done(r)
  /\ Done(r) \cap (Dirs \cup {A!Config}) \subseteq v.seen
  /\ \A c \in s.copied : \E f \in e.files : f.path = c.path /\ f.data = c.data

Writing(list, s, r, v, e) ==
  /\ IsListing(list)
  /\ IsStats(s)
  /\ ~TwinsOf(s) /\ s.blocks + HiddenOf(s) <= MaxBlocks => ~r.err
  /\ ~r.err => Copying(list, s, r, v, e)

(* Before the first entry the backup has all its names to write.           *)
LEMMA WritingStarts ==
  ASSUME NEW f, NEW s, s = A!NoStats, NEW r, r = A!NewReader, NEW v, v = A!NoVal,
         NEW e, e = A!NoExt
  PROVE  Writing(TodoOf(f), s, r, v, e)
<1>1. IsListing(TodoOf(f)) /\ Required \subseteq Elements(TodoOf(f))
  BY TodoListing
<1>2. s.entries = 0 /\ s.blocks = 0 /\ s.copied = {} /\ IsStats(s)
  <2>1. s.entries = 0 /\ s.blocks = 0 /\ s.copied = {}
    BY DEF A!NoStats
  <2> QED
    BY <2>1, FS_EmptySet DEF A!NoStats, IsStats
<1>3. LongOf(s) = {}
  BY <1>2 DEF LongOf
<1>4. HiddenOf(s) = 0
  BY <1>3, FS_EmptySet DEF HiddenOf
<1>5. /\ IsReader(r) /\ IsVal(v) /\ IsExt(e) /\ ~r.err /\ StateRead(v, e, r)
  BY FreshReading
<1>6. r.seen = {} /\ r.read = 0 /\ v.list = NoList /\ v.current = 0
  BY DEF A!NewReader, A!NoVal
<1>7. Done(r) = {} /\ SeenOf(r) /\ IsFiniteSet(r.seen) /\ Cardinality(r.seen) = 0
  BY <1>6, FS_EmptySet DEF Done, SeenOf
<1> HIDE DEF TodoOf
<1>8. Copying(TodoOf(f), s, r, v, e)
  BY <1>1, <1>2, <1>4, <1>5, <1>6, <1>7 DEF Copying
<1> QED
  BY <1>1, <1>2, <1>5, <1>8 DEF Writing

(* The counts after an entry.                                              *)
AddedTo(s, h) ==
  [s EXCEPT !.entries = @ + 1, !.blocks = @ + 1 + h.size,
            !.copied = IF h.path \in A!LivePaths
                       THEN @ \cup {[path |-> h.path, data |-> h.data]} ELSE @]

(* An entry more in the counters of the writer.                            *)
LEMMA AddedGrows ==
  ASSUME NEW s, IsStats(s), NEW p \in Names
  PROVE  LET h == A!HeaderOf(p)
             t == AddedTo(s, h)
         IN  /\ IsStats(t)
             /\ t.entries = s.entries + 1 /\ t.blocks = s.blocks + 1 + h.size
             /\ t.copied = IF p \in A!LivePaths
                           THEN s.copied \cup {[path |-> p, data |-> h.data]} ELSE s.copied
             /\ h.size \in {0, 1} /\ HiddenOf(s) \in Nat /\ HiddenOf(t) \in Nat
             /\ HiddenOf(s) <= HiddenOf(t)
<1> DEFINE h == A!HeaderOf(p)
           t == AddedTo(s, h)
           n == [path |-> p, data |-> h.data]
           c == IF p \in A!LivePaths THEN s.copied \cup {n} ELSE s.copied
<1>1. h.path = p /\ h.size \in {0, 1}
  BY HeaderIs
<1> HIDE DEF h
<1>2. t = [s EXCEPT !.entries = s.entries + 1, !.blocks = s.blocks + 1 + h.size, !.copied = c]
  BY <1>1 DEF AddedTo
<1> HIDE DEF n, c, t
<1>3. /\ t = [entries |-> t.entries, blocks |-> t.blocks, copied |-> t.copied]
      /\ t.entries = s.entries + 1 /\ t.blocks = s.blocks + 1 + h.size /\ t.copied = c
  BY <1>2 DEF IsStats
<1>4. IsFiniteSet(s.copied) /\ s.entries \in Nat /\ s.blocks \in Nat
  BY DEF IsStats
<1>5. IsFiniteSet(t.copied) /\ s.copied \subseteq t.copied
  BY <1>3, <1>4, FS_AddElement DEF c
<1>6. IsStats(t)
  BY <1>1, <1>3, <1>4, <1>5 DEF IsStats
<1>7. LongOf(s) \subseteq LongOf(t) /\ LongOf(t) \subseteq t.copied
  BY <1>5 DEF LongOf
<1>8. IsFiniteSet(LongOf(t))
  BY <1>5, <1>7, FS_Subset
<1>9. /\ Cardinality(LongOf(s)) \in Nat /\ Cardinality(LongOf(t)) \in Nat
      /\ Cardinality(LongOf(s)) <= Cardinality(LongOf(t))
  BY <1>7, <1>8, FS_Subset, FS_CardinalityType
<1>10. /\ HiddenOf(s) \in Nat /\ HiddenOf(t) \in Nat /\ HiddenOf(s) <= HiddenOf(t)
  BY <1>9 DEF HiddenOf
<1>11. t.copied = IF p \in A!LivePaths THEN s.copied \cup {n} ELSE s.copied
  BY <1>3 DEF c
<1> QED
  BY <1>1, <1>3, <1>6, <1>10, <1>11 DEF h, t, n

(* The writer's counter and the hidden blocks together grow by the blocks  *)
(* a reader will see.                                                      *)
LEMMA AddedCounts ==
  ASSUME NEW s, IsStats(s), NEW p \in Names, \A c \in s.copied : c.path # p
  PROVE  LET h == A!HeaderOf(p)
             t == AddedTo(s, h)
         IN  /\ t.blocks + HiddenOf(t) = s.blocks + HiddenOf(s) + A!Blocks(h)
             /\ A!Blocks(h) \in Nat
<1> DEFINE h == A!HeaderOf(p)
           t == AddedTo(s, h)
           n == [path |-> p, data |-> h.data]
<1>1. h.path = p /\ h.size \in {0, 1} /\ (h.long <=> p = A!Cell)
  BY HeaderIs
<1>2. A!Blocks(h) = 1 + h.size + (IF p = A!Cell THEN 2 ELSE 0)
  BY <1>1 DEF A!Blocks
<1>3. n.path = p
  OBVIOUS
<1>4. /\ t.blocks = s.blocks + 1 + h.size
      /\ t.copied = IF p \in A!LivePaths THEN s.copied \cup {n} ELSE s.copied
  BY AddedGrows
<1> HIDE DEF h, n, t
<1>5. IsFiniteSet(s.copied) /\ s.entries \in Nat /\ s.blocks \in Nat
  BY DEF IsStats
<1>6. LongOf(s) \subseteq s.copied
  BY DEF LongOf
<1>7. IsFiniteSet(LongOf(s))
  BY <1>5, <1>6, FS_Subset
<1>8. Cardinality(LongOf(s)) \in Nat
  BY <1>7, FS_CardinalityType
<1>9. CASE p = A!Cell
  <2>1. p \in A!LivePaths
    BY <1>9 DEF A!LivePaths
  <2>2. LongOf(t) = LongOf(s) \cup {n}
    BY <1>3, <1>4, <1>9, <2>1 DEF LongOf, A!IsLong
  <2>3. n \notin LongOf(s)
    BY <1>3 DEF LongOf
  <2>4. Cardinality(LongOf(t)) = Cardinality(LongOf(s)) + 1
    BY <1>7, <2>2, <2>3, FS_AddElement
  <2>5. t.blocks + HiddenOf(t) = s.blocks + HiddenOf(s) + A!Blocks(h)
    BY <1>1, <1>2, <1>4, <1>5, <1>8, <1>9, <2>4 DEF HiddenOf
  <2> QED
    BY <1>1, <1>2, <1>9, <2>5 DEF h, t
<1>10. CASE p # A!Cell
  <2>1. LongOf(t) = LongOf(s)
    BY <1>3, <1>4, <1>10 DEF LongOf, A!IsLong
  <2>2. t.blocks + HiddenOf(t) = s.blocks + HiddenOf(s) + A!Blocks(h)
    BY <1>1, <1>2, <1>4, <1>5, <1>8, <1>10, <2>1 DEF HiddenOf
  <2> QED
    BY <1>1, <1>2, <1>10, <2>2 DEF h, t
<1> QED
  BY <1>9, <1>10

(* One entry written: what the model does when nothing fails.              *)
LEMMA WritingGoesOn ==
  ASSUME NEW list, NEW s, NEW r, IsReader(r), NEW v, IsVal(v), NEW e, IsExt(e),
         Writing(list, s, r, v, e), list # <<>>,
         AddedTo(s, A!HeaderOf(Head(list))).entries <= MaxEntries
  PROVE  LET h == A!HeaderOf(Head(list))
         IN  Writing(Tail(list), AddedTo(s, h), A!Next1(r, h), A!ValidateStateEntry(v, h),
                     A!ExtractStateEntry(e, h))
<1> DEFINE p == Head(list)
           h == A!HeaderOf(p)
           rest == Tail(list)
           t == AddedTo(s, h)
           q == A!Next1(r, h)
           w == A!ValidateStateEntry(v, h)
           x == A!ExtractStateEntry(e, h)
           n == [path |-> p, data |-> h.data]
           y == [path |-> p, typ |-> h.typ]
<1>1. IsListing(list) /\ IsStats(s)
  BY DEF Writing
<1>2. /\ IsListing(rest) /\ p \in Names /\ p \notin Elements(rest)
      /\ Elements(list) = {p} \cup Elements(rest)
  BY <1>1, ListingTail
<1>3. h.path = p /\ h.typ = IF p \in Dirs THEN "dir" ELSE "file"
  BY <1>2, HeaderIs
<1>4. t.entries <= MaxEntries
  OBVIOUS
<1>5. /\ IsStats(t)
      /\ t.entries = s.entries + 1 /\ t.blocks = s.blocks + 1 + h.size
      /\ t.copied = IF p \in A!LivePaths THEN s.copied \cup {n} ELSE s.copied
      /\ h.size \in {0, 1} /\ HiddenOf(s) \in Nat /\ HiddenOf(t) \in Nat
      /\ HiddenOf(s) <= HiddenOf(t)
  <2> HIDE DEF p
  <2> QED
    BY <1>1, <1>2, AddedGrows
<1>6. (\A c \in s.copied : c.path # p) =>
        /\ t.blocks + HiddenOf(t) = s.blocks + HiddenOf(s) + A!Blocks(h)
        /\ A!Blocks(h) \in Nat
  <2> HIDE DEF p
  <2> QED
    BY <1>1, <1>2, AddedCounts
<1>7. q = IF A!Accepts(r, h)
          THEN [r EXCEPT !.seen = @ \cup {y}, !.read = @ + A!Blocks(h)]
          ELSE [r EXCEPT !.err = TRUE]
  BY <1>3 DEF A!Next1
<1>8. n.path = p /\ n.data = h.data /\ y.path = p /\ y.typ = h.typ
  OBVIOUS
<1>9. MaxBlocks \in Nat /\ MaxEntries \in Nat
  BY MCStoreAssumption
<1>10. s.entries \in Nat /\ s.blocks \in Nat
  BY <1>1 DEF IsStats
<1>11. r.err = TRUE => q.err = TRUE
  BY <1>7 DEF IsReader
<1> HIDE DEF p, h, rest, t, q, w, x, n, y
<1>12. s.copied \subseteq t.copied
  BY <1>5
<1>13. TwinsOf(s) => TwinsOf(t)
  BY <1>12 DEF TwinsOf
<1>14. ASSUME ~TwinsOf(t), t.blocks + HiddenOf(t) <= MaxBlocks
       PROVE  ~q.err
  <2>1. s.blocks + HiddenOf(s) <= MaxBlocks
    BY <1>5, <1>9, <1>10, <1>14
  <2>2. ~r.err /\ Copying(list, s, r, v, e)
    BY <1>13, <1>14, <2>1 DEF Writing
  <2>3. p \notin Done(r)
    BY <1>2, <2>2 DEF Copying
  <2>4. \A c \in s.copied : c.path # p
    BY <2>2, <2>3 DEF Copying
  <2>5. r.read + A!Blocks(h) <= MaxBlocks
    BY <1>6, <1>14, <2>2, <2>4 DEF Copying
  <2>6. Cardinality(r.seen) < MaxEntries
    BY <1>4, <1>5, <1>9, <1>10, <2>2 DEF Copying
  <2>7. ASSUME NEW o \in Done(r), Pair(p, o) PROVE FALSE
    <3>1. p \in A!LivePaths /\ o \in A!LivePaths /\ o # p
      BY <2>3, <2>7 DEF Pair, A!LivePaths
    <3>2. PICK c \in s.copied : c.path = o
      BY <2>2, <2>7, <3>1 DEF Copying
    <3>3. A!Key(o) = A!Key(p)
      <4>1. /\ A!Key(A!Bob) = A!Bob \/ A!Bob = A!BobUpper
            /\ A!Key(A!BobUpper) = A!Bob
        BY NameKeys DEF Names, A!LivePaths
      <4> QED
        BY <2>7, <4>1 DEF Pair
    <3>4. n \in t.copied /\ c \in t.copied /\ c # n
      BY <1>5, <1>8, <1>12, <3>1, <3>2
    <3> QED
      BY <1>8, <1>14, <3>2, <3>3, <3>4 DEF TwinsOf
  <2>8. A!Accepts(r, h)
    BY <1>2, <2>2, <2>3, <2>5, <2>6, <2>7, BackupAccepted DEF Copying, h
  <2> QED
    BY <1>7, <2>2, <2>8 DEF IsReader
<1>15. ASSUME ~q.err
       PROVE  Copying(rest, t, q, w, x)
  <2>1. A!Accepts(r, h)
    BY <1>7, <1>15 DEF IsReader
  <2>2. q.seen = r.seen \cup {y} /\ q.read = r.read + A!Blocks(h) /\ q.err = r.err
    BY <1>7, <2>1 DEF IsReader
  <2>3. ~r.err /\ Copying(list, s, r, v, e)
    BY <1>15, <2>2 DEF Writing
  <2>4. p \notin Done(r)
    BY <1>2, <2>3 DEF Copying
  <2>5. \A c \in s.copied : c.path # p
    BY <2>3, <2>4 DEF Copying
  <2>6. q.read = t.blocks + HiddenOf(t)
    BY <1>6, <2>2, <2>3, <2>5 DEF Copying
  <2>7. y \notin r.seen
    BY <1>8, <2>4 DEF Done
  <2>8. IsFiniteSet(q.seen) /\ Cardinality(q.seen) = t.entries
    BY <1>5, <2>2, <2>3, <2>7, FS_AddElement DEF Copying
  <2>9. Done(q) = Done(r) \cup {p}
    BY <1>8, <2>2 DEF Done
  <2>10. SeenOf(q)
    BY <1>2, <1>3, <1>8, <2>2, <2>3 DEF Copying, SeenOf
  <2>11. Elements(rest) \cap Done(q) = {}
    BY <1>2, <2>3, <2>9 DEF Copying
  <2>12. Required \subseteq Elements(rest) \cup Done(q)
    BY <1>2, <2>3, <2>9 DEF Copying
  <2>13. \A c \in t.copied : c.path \in Done(q) \cap A!LivePaths
    BY <1>5, <1>8, <2>3, <2>9 DEF Copying
  <2>14. \A o \in Done(q) \cap A!LivePaths : \E c \in t.copied : c.path = o
    BY <1>5, <1>8, <2>3, <2>9 DEF Copying
  <2>15. /\ p = <<A!RDF>> => v.list = NoList
         /\ p = <<"current.txt">> => v.current = 0
    BY <2>3, <2>4 DEF Copying
  <2>16. /\ StateRead(w, x, q)
         /\ w.list # NoList <=> v.list # NoList \/ p = <<A!RDF>>
         /\ w.current # 0 <=> v.current # 0 \/ p = <<"current.txt">>
         /\ v.seen \subseteq w.seen
         /\ p \in Dirs \cup {A!Config} => p \in w.seen
         /\ e.files \subseteq x.files
         /\ p \in A!LivePaths => \E f \in x.files : f.path = p /\ f.data = h.data
    <3>1. StateRead(v, e, r) /\ ~A!Next1(r, A!HeaderOf(p)).err
      BY <1>15, <2>3 DEF Copying, q, h
    <3> QED
      BY <1>2, <2>15, <3>1, BackupEntryRead DEF w, x, q, h
  <2>17. /\ w.list # NoList <=> <<A!RDF>> \in Done(q)
         /\ w.current # 0 <=> <<"current.txt">> \in Done(q)
    BY <2>3, <2>9, <2>16 DEF Copying
  <2>18. Done(q) \cap (Dirs \cup {A!Config}) \subseteq w.seen
    BY <2>3, <2>9, <2>16 DEF Copying
  <2>19. \A c \in t.copied : \E f \in x.files : f.path = c.path /\ f.data = c.data
    BY <1>5, <1>8, <2>3, <2>16 DEF Copying
  <2> QED
    BY <2>6, <2>8, <2>10, <2>11, <2>12, <2>13, <2>14, <2>16, <2>17, <2>18, <2>19 DEF Copying
<1>16. Writing(rest, t, q, w, x)
  BY <1>2, <1>5, <1>14, <1>15 DEF Writing
<1> QED
  BY <1>16 DEF p, h, rest, t, q, w, x

BackupInv ==
  kind = "backup" /\ phase \in {"reading", "whole"} =>
    /\ Writing(todo, stats, rd, val, ext)
    /\ phase = "whole" => todo = <<>>

(* Every step of a backup keeps what is known of it.                       *)
LEMMA BackupStep ==
  ASSUME ArchInv, BackupInv, A!Next \/ UNCHANGED archiveVars PROVE BackupInv'
<1> SUFFICES ASSUME kind' = "backup", phase' \in {"reading", "whole"}
             PROVE  /\ Writing(todo', stats', rd', val', ext')
                    /\ phase' = "whole" => todo' = <<>>
  BY DEF BackupInv, Writing, Copying, IsStats, TwinsOf, HiddenOf, LongOf, SeenOf, Done,
         StateRead, KeysRead
<1>1. CASE A!Open
  BY <1>1 DEF A!Open
<1>2. CASE A!Entry \/ A!EndOfStream
  BY <1>2 DEF A!Entry, A!EndOfStream
<1>3. CASE A!Close
  BY <1>3 DEF A!Close
<1>4. CASE A!WriteState
  <2>1. /\ phase = "idle" /\ phase' = "reading"
        /\ todo' = TodoOf(live')
        /\ rd' = rd /\ val' = val /\ ext' = ext /\ stats' = stats
    BY <1>4 DEF A!WriteState, TodoOf
  <2>2. stats' = A!NoStats /\ rd' = A!NewReader /\ val' = A!NoVal /\ ext' = A!NoExt
    BY <2>1 DEF ArchInv
  <2> HIDE DEF TodoOf
  <2>3. Writing(TodoOf(live'), stats', rd', val', ext')
    BY <2>2, WritingStarts
  <2> QED
    BY <2>1, <2>3
<1>5. CASE A!WriteEntry
  <2> DEFINE h == A!HeaderOf(Head(todo))
             counted == A!addStateEntry(h)
             fails == \/ h.path \in A!LivePaths /\ live[h.path] = 0
                      \/ counted.entries > MaxEntries
                      \/ counted.blocks > MaxBlocks
  <2>1. /\ phase = "reading" /\ kind = "backup" /\ todo # <<>> /\ todo' = Tail(todo)
        /\ IF fails THEN phase' = "refused" ELSE A!Take(h) /\ stats' = counted /\ phase' = phase
    BY <1>5 DEF A!WriteEntry
  <2>2. A!Take(h) /\ stats' = counted /\ phase' = "reading" /\ ~fails
    BY <2>1
  <2>3. counted = AddedTo(stats, h)
    BY DEF A!addStateEntry, AddedTo
  <2>4. /\ rd' = A!Next1(rd, h) /\ val' = A!ValidateStateEntry(val, h)
        /\ ext' = A!ExtractStateEntry(ext, h)
    BY <2>1, <2>2 DEF A!Take
  <2>5. IsReader(rd) /\ IsVal(val) /\ IsExt(ext)
    BY DEF ArchInv, Passes
  <2>6. Writing(todo, stats, rd, val, ext)
    BY <2>1 DEF BackupInv
  <2>7. AddedTo(stats, h).entries <= MaxEntries
    <3>1. ~(AddedTo(stats, h).entries > MaxEntries)
      BY <2>2, <2>3
    <3>2. AddedTo(stats, h).entries = stats.entries + 1 /\ stats.entries \in Nat
      BY <2>6 DEF AddedTo, Writing, IsStats
    <3> QED
      BY <3>1, <3>2, MCStoreAssumption
  <2>8. Writing(Tail(todo), AddedTo(stats, h), A!Next1(rd, h), A!ValidateStateEntry(val, h),
                A!ExtractStateEntry(ext, h))
    BY <2>1, <2>5, <2>6, <2>7, WritingGoesOn
  <2>9. Writing(todo', stats', rd', val', ext')
    BY <2>1, <2>2, <2>3, <2>4, <2>8
  <2> QED
    BY <2>2, <2>9
<1>6. CASE A!WriteEnd
  <2>1. /\ phase = "reading" /\ kind = "backup" /\ todo = <<>> /\ todo' = todo
        /\ rd' = rd /\ val' = val /\ ext' = ext /\ stats' = stats
    BY <1>6 DEF A!WriteEnd
  <2> QED
    BY <2>1 DEF BackupInv
<1>7. CASE A!GameSaves
  <2>1. /\ phase = "reading" /\ phase' = phase /\ kind = "backup" /\ todo' = todo
        /\ rd' = rd /\ val' = val /\ ext' = ext /\ stats' = stats
    BY <1>7 DEF A!GameSaves
  <2> QED
    BY <2>1 DEF BackupInv
<1>8. CASE UNCHANGED archiveVars
  <2>1. /\ phase' = phase /\ kind' = kind /\ todo' = todo
        /\ rd' = rd /\ val' = val /\ ext' = ext /\ stats' = stats
    BY <1>8 DEF archiveVars
  <2> QED
    BY <2>1 DEF BackupInv
<1> QED
  BY <1>1, <1>2, <1>3, <1>4, <1>5, <1>6, <1>7, <1>8 DEF A!Next

(* A backup that was written to its end can be deployed.                   *)
LEMMA BackupReads ==
  ASSUME BackupInv PROVE A!BackupRestores
<1> SUFFICES ASSUME phase = "whole", kind = "backup", ~A!CaseTwins,
                    stats.blocks + 2 + A!HiddenBlocks <= MaxBlocks
             PROVE  /\ ~rd.err /\ A!finish(rd, "end") /\ A!ValidateState(val)
                    /\ A!ExtractState(ext)
                    /\ \A c \in stats.copied :
                         \E f \in ext.files : f.path = c.path /\ f.data = c.data
  BY DEF A!BackupRestores
<1>1. Writing(<<>>, stats, rd, val, ext)
  BY DEF BackupInv
<1>2. A!CaseTwins <=> TwinsOf(stats)
  BY DEF A!CaseTwins, TwinsOf
<1>3. A!HiddenBlocks = HiddenOf(stats)
  <2>1. A!HiddenBlocks = 2 * A!Cardinality(LongOf(stats))
    BY DEF A!HiddenBlocks, LongOf
  <2> QED
    BY <2>1, ArchCardinality DEF HiddenOf
<1>4. stats.blocks \in Nat /\ IsFiniteSet(stats.copied)
  BY <1>1 DEF Writing, IsStats
<1>5. HiddenOf(stats) \in Nat
  <2>1. LongOf(stats) \subseteq stats.copied
    BY DEF LongOf
  <2>2. Cardinality(LongOf(stats)) \in Nat
    BY <1>4, <2>1, FS_Subset, FS_CardinalityType
  <2> QED
    BY <2>2 DEF HiddenOf
<1>6. stats.blocks + HiddenOf(stats) <= MaxBlocks
  BY <1>3, <1>4, <1>5, MCStoreAssumption
<1>7. ~rd.err /\ Copying(<<>>, stats, rd, val, ext)
  BY <1>1, <1>2, <1>6 DEF Writing
<1>8. A!finish(rd, "end")
  <2>1. rd.read = stats.blocks + HiddenOf(stats)
    BY <1>7 DEF Copying
  <2>2. rd.read + 2 <= MaxBlocks
    BY <1>3, <1>4, <1>5, <2>1
  <2> QED
    BY <2>2 DEF A!finish
<1>9. Required \subseteq Done(rd)
  BY <1>7, EmptyListing DEF Copying
<1>10. A!ValidateState(val)
  <2>1. A!stateRequiredDirs \subseteq Dirs
    BY StateDirsAre DEF A!StateDirs
  <2>2. A!stateRequiredDirs \subseteq val.seen /\ A!Config \in val.seen
    BY <1>7, <1>9, <2>1 DEF Copying, Required
  <2>3. val.list # NoList /\ val.current # 0 /\ val.ok
    BY <1>7, <1>9 DEF Copying, Required, Metadata, StateRead
  <2> QED
    BY <2>2, <2>3 DEF A!ValidateState, A!validateStateConfigs
<1>11. A!ExtractState(ext)
  BY <1>7, <1>10, StateWhole DEF Copying
<1> QED
  BY <1>7, <1>8, <1>10, <1>11 DEF Copying

BackupPart == part = "archives" => BackupInv

(* While a backup is written, what it still has to write is what a reading *)
(* of it misses, and the writer's counters are those of the reading up to  *)
(* the blocks of long names (WriteState, addStateEntry).                  *)
THEOREM BackupInvariant == StoreSpec => []BackupPart
<1>1. StoreInit => BackupPart
  BY DEF StoreInit, BackupPart, BackupInv, A!Init
<1>2. ArchPart /\ BackupPart /\ [StoreNext]_storeVars => BackupPart'
  <2> SUFFICES ASSUME ArchPart, BackupPart, [StoreNext]_storeVars, part' = "archives"
               PROVE  BackupInv'
    BY DEF BackupPart
  <2>1. part = "archives"
    BY DEF StoreNext, storeVars
  <2>2. A!Next \/ UNCHANGED archiveVars
    BY <2>1 DEF StoreNext, storeVars
  <2> QED
    BY <2>1, <2>2, BackupStep DEF ArchPart, BackupPart
<1> QED
  BY <1>1, <1>2, ArchivesInvariant, PTL DEF StoreSpec

(* A backup made while the game deletes and saves, with any limits: it is  *)
(* refused, or a deploy will accept it (collectStateDirectories,           *)
(* WriteState).                                                            *)
THEOREM BackupsCanBeRestored == StoreSpec => []BackupRestores
<1>1. BackupPart => BackupRestores
  BY BackupReads DEF BackupPart, BackupRestores
<1> QED
  BY <1>1, BackupInvariant, PTL

(***************************************************************************)
(* BackupsList: places in a list, and the pages that show it.              *)
(***************************************************************************)

(* The archives of the list: their names order them among equal times.      *)
Entries == [kind : B!Kinds, stamp : Nat, coll : 0..1, mtime : Nat]
Named(S) == \A a, b \in S : B!SameName(a, b) => a = b
NewerRel(S) == {p \in S \X S : B!Newer(p[1], p[2])}

(* The parts of a name are numbers, and names compare part by part.        *)
LEMMA NameOrder ==
  ASSUME NEW a \in Entries, NEW b \in Entries
  PROVE  /\ B!Rank(a)[1] \in Int /\ B!Rank(a)[2] \in Int /\ B!Rank(a)[3] \in Int
         /\ B!SameName(a, b) <=>
              /\ B!Rank(a)[1] = B!Rank(b)[1] /\ B!Rank(a)[2] = B!Rank(b)[2]
              /\ B!Rank(a)[3] = B!Rank(b)[3]
         /\ B!NameLess(a, b) <=>
              \/ B!Rank(a)[1] < B!Rank(b)[1]
              \/ B!Rank(a)[1] = B!Rank(b)[1] /\ B!Rank(a)[2] < B!Rank(b)[2]
              \/ /\ B!Rank(a)[1] = B!Rank(b)[1] /\ B!Rank(a)[2] = B!Rank(b)[2]
                 /\ B!Rank(a)[3] < B!Rank(b)[3]
<1> DEFINE r == B!Rank(a)
           s == B!Rank(b)
<1>1. a.stamp \in Int /\ a.coll \in Int /\ b.stamp \in Int /\ b.coll \in Int
  BY DEF Entries
<1>2. /\ r[1] = (IF a.kind = "auto" THEN 0 ELSE 1) /\ r[2] = a.stamp
      /\ r[3] = (IF a.coll = 0 THEN 9 ELSE a.coll)
      /\ r = <<r[1], r[2], r[3]>>
  BY DEF B!Rank
<1>3. /\ s[1] = (IF b.kind = "auto" THEN 0 ELSE 1) /\ s[2] = b.stamp
      /\ s[3] = (IF b.coll = 0 THEN 9 ELSE b.coll)
      /\ s = <<s[1], s[2], s[3]>>
  BY DEF B!Rank
<1>4. B!SameName(a, b) <=> r = s
  BY DEF B!SameName
<1>5. B!NameLess(a, b) <=>
        \E i \in 1..3 : r[i] < s[i] /\ \A j \in 1..(i - 1) : r[j] = s[j]
  BY DEF B!NameLess
<1> HIDE DEF r, s
<1>6. r[1] \in Int /\ r[2] \in Int /\ r[3] \in Int /\ s[1] \in Int /\ s[2] \in Int /\ s[3] \in Int
  BY <1>1, <1>2, <1>3
<1>7. r = s <=> r[1] = s[1] /\ r[2] = s[2] /\ r[3] = s[3]
  BY <1>2, <1>3
<1>8. (\E i \in 1..3 : r[i] < s[i] /\ \A j \in 1..(i - 1) : r[j] = s[j]) <=>
        \/ r[1] < s[1]
        \/ r[1] = s[1] /\ r[2] < s[2]
        \/ r[1] = s[1] /\ r[2] = s[2] /\ r[3] < s[3]
  <2>1. \A j : j \in 1..0 <=> FALSE
    OBVIOUS
  <2>2. \A j : j \in 1..1 <=> j = 1
    OBVIOUS
  <2>3. \A j : j \in 1..2 <=> j = 1 \/ j = 2
    OBVIOUS
  <2>4. \A i : i \in 1..3 <=> i = 1 \/ i = 2 \/ i = 3
    OBVIOUS
  <2>5. 1 - 1 = 0 /\ 2 - 1 = 1 /\ 3 - 1 = 2
    OBVIOUS
  <2> QED
    BY <2>1, <2>2, <2>3, <2>4, <2>5
<1> QED
  BY <1>4, <1>5, <1>6, <1>7, <1>8 DEF r, s

(* Newer is transitive.                                                    *)
LEMMA NewerPasses ==
  \A a, b, c \in Entries : B!Newer(a, b) /\ B!Newer(b, c) => B!Newer(a, c)
<1> SUFFICES ASSUME NEW a \in Entries, NEW b \in Entries, NEW c \in Entries,
                    B!Newer(a, b), B!Newer(b, c)
             PROVE  B!Newer(a, c)
  OBVIOUS
<1>1. a.mtime \in Int /\ b.mtime \in Int /\ c.mtime \in Int
  BY DEF Entries
<1> QED
  BY <1>1, NameOrder DEF B!Newer

(* A name says the kind, the stamp and the suffix.                         *)
LEMMA SameNameIs ==
  \A a, b \in Entries : B!SameName(a, b) =>
    a.kind = b.kind /\ a.stamp = b.stamp /\ a.coll = b.coll
<1> SUFFICES ASSUME NEW a \in Entries, NEW b \in Entries, B!SameName(a, b)
             PROVE  a.kind = b.kind /\ a.stamp = b.stamp /\ a.coll = b.coll
  OBVIOUS
<1>1. /\ B!Rank(a)[1] = B!Rank(b)[1] /\ B!Rank(a)[2] = B!Rank(b)[2]
      /\ B!Rank(a)[3] = B!Rank(b)[3]
  BY NameOrder
<1>2. /\ B!Rank(a)[1] = (IF a.kind = "auto" THEN 0 ELSE 1) /\ B!Rank(a)[2] = a.stamp
      /\ B!Rank(a)[3] = (IF a.coll = 0 THEN 9 ELSE a.coll)
  BY DEF B!Rank
<1>3. /\ B!Rank(b)[1] = (IF b.kind = "auto" THEN 0 ELSE 1) /\ B!Rank(b)[2] = b.stamp
      /\ B!Rank(b)[3] = (IF b.coll = 0 THEN 9 ELSE b.coll)
  BY DEF B!Rank
<1>4. /\ a.kind \in {"auto", "manual"} /\ b.kind \in {"auto", "manual"}
      /\ a.coll \in 0..1 /\ b.coll \in 0..1
  BY DEF Entries, B!Kinds
<1>5. a.kind = b.kind
  <2>1. (IF a.kind = "auto" THEN 0 ELSE 1) = (IF b.kind = "auto" THEN 0 ELSE 1)
    BY <1>1, <1>2, <1>3
  <2>2. \/ a.kind = "auto"
        \/ a.kind = "manual" /\ a.kind # "auto"
    BY <1>4
  <2>3. \/ b.kind = "auto"
        \/ b.kind = "manual" /\ b.kind # "auto"
    BY <1>4
  <2>4. 0 # 1
    OBVIOUS
  <2> QED
    BY <2>1, <2>2, <2>3, <2>4
<1>6. a.stamp = b.stamp
  BY <1>1, <1>2, <1>3
<1>7. a.coll = b.coll
  <2>1. (IF a.coll = 0 THEN 9 ELSE a.coll) = (IF b.coll = 0 THEN 9 ELSE b.coll)
    BY <1>1, <1>2, <1>3
  <2>2. a.coll \in {0, 1} /\ b.coll \in {0, 1}
    BY <1>4
  <2> QED
    BY <2>1, <2>2
<1> QED
  BY <1>5, <1>6, <1>7

(* Archives with different names are in a strict order.                    *)
LEMMA ListOrders ==
  ASSUME NEW S, S \subseteq Entries, Named(S)
  PROVE  /\ Orders(NewerRel(S), S)
         /\ \A a, b \in S : <<a, b>> \in NewerRel(S) <=> B!Newer(a, b)
         /\ \A a, b \in S : a # b => B!Newer(a, b) \/ B!Newer(b, a)
         /\ \A a \in S : ~B!Newer(a, a)
<1>1. \A a, b \in S : <<a, b>> \in NewerRel(S) <=> B!Newer(a, b)
  BY DEF NewerRel
<1>2. \A a \in S : a.mtime \in Int
  BY DEF Entries
<1>3. \A a, b \in S : a # b => B!Newer(a, b) \/ B!Newer(b, a)
  <2> SUFFICES ASSUME NEW a \in S, NEW b \in S, a # b PROVE B!Newer(a, b) \/ B!Newer(b, a)
    OBVIOUS
  <2>1. ~B!SameName(a, b)
    BY DEF Named
  <2> QED
    BY <1>2, <2>1, NameOrder DEF B!Newer
<1>4. \A a \in S : ~B!Newer(a, a)
  BY <1>2, NameOrder DEF B!Newer
<1>5. \A a, b, c \in S : B!Newer(a, b) /\ B!Newer(b, c) => B!Newer(a, c)
  BY NewerPasses
<1> QED
  BY <1>1, <1>3, <1>4, <1>5 DEF Orders

(* The Cardinality of the list is that of FiniteSets.                      *)
LEMMA ListCardinality ==
  ASSUME NEW S
  PROVE  B!Cardinality(S) = Cardinality(S)
BY DEF B!Cardinality, Cardinality

(* The list of a set of archives: each has the index of its place.         *)
LEMMA ListedInOrder ==
  ASSUME NEW S, S \subseteq Entries, Named(S), IsFiniteSet(S)
  PROVE  /\ B!InOrder(S) \in Seq(Entries)
         /\ Len(B!InOrder(S)) = Cardinality(S)
         /\ \A i \in 1..Cardinality(S) :
              /\ B!InOrder(S)[i] \in S
              /\ PlaceIn(NewerRel(S), S, B!InOrder(S)[i]) = i - 1
<1> DEFINE n == Cardinality(S)
           L == B!InOrder(S)
<1>1. n \in Nat
  BY FS_CardinalityType
<1>2. Orders(NewerRel(S), S)
  BY ListOrders
<1>3. \A a \in S : B!Cardinality({b \in S : B!Newer(b, a)}) = PlaceIn(NewerRel(S), S, a)
  <2> SUFFICES ASSUME NEW a \in S
               PROVE  B!Cardinality({b \in S : B!Newer(b, a)}) = PlaceIn(NewerRel(S), S, a)
    OBVIOUS
  <2>1. {b \in S : B!Newer(b, a)} = AheadIn(NewerRel(S), S, a)
    BY ListOrders DEF AheadIn
  <2> QED
    BY <2>1, ListCardinality DEF PlaceIn
<1>4. L = [i \in 1..n |-> CHOOSE a \in S : B!Cardinality({b \in S : B!Newer(b, a)}) = i - 1]
  BY ListCardinality DEF B!InOrder
<1>5. ASSUME NEW i \in 1..n
      PROVE  L[i] \in S /\ PlaceIn(NewerRel(S), S, L[i]) = i - 1
  <2>1. i - 1 \in 0..(n - 1)
    BY <1>1
  <2>2. \E a \in S : PlaceIn(NewerRel(S), S, a) = i - 1
    BY <1>2, <2>1, EveryPlaceInTaken
  <2>3. \E a \in S : B!Cardinality({b \in S : B!Newer(b, a)}) = i - 1
    BY <1>3, <2>2
  <2>4. L[i] = CHOOSE a \in S : B!Cardinality({b \in S : B!Newer(b, a)}) = i - 1
    BY <1>4
  <2>5. L[i] \in S /\ B!Cardinality({b \in S : B!Newer(b, L[i])}) = i - 1
    BY <2>3, <2>4
  <2> QED
    BY <1>3, <2>5
<1>6. L \in [1..n -> Entries]
  <2>1. \A i \in 1..n : L[i] \in Entries
    BY <1>5
  <2>2. L = [i \in 1..n |-> L[i]]
    BY <1>4
  <2> HIDE DEF L, n
  <2> QED
    BY <2>1, <2>2
<1> HIDE DEF L, n
<1>7. L \in Seq(Entries) /\ Len(L) = n
  BY <1>1, <1>6
<1> QED
  BY <1>5, <1>7 DEF L, n

Once(s, a) == \E i \in 1..Len(s) : s[i] = a /\ \A j \in 1..Len(s) : s[j] = a => j = i
Never(s, a) == \A i \in 1..Len(s) : s[i] # a

PageOf(F) ==
  SubSeq(B!InOrder(F), 1, IF Len(B!InOrder(F)) > Limit THEN Limit ELSE Len(B!InOrder(F)))

(* A page: the newest of what follows the cursor, each once, and none      *)
(* behind the last of a full one.                                          *)
LEMMA PageShows ==
  ASSUME NEW F, F \subseteq Entries, Named(F), IsFiniteSet(F)
  PROVE  /\ PageOf(F) \in Seq(Entries)
         /\ Len(PageOf(F)) # Limit => \A a \in F : Once(PageOf(F), a)
         /\ Len(PageOf(F)) = Limit =>
              /\ PageOf(F)[Limit] \in F
              /\ Once(PageOf(F), PageOf(F)[Limit])
              /\ \A a \in F : B!Newer(a, PageOf(F)[Limit]) => Once(PageOf(F), a)
              /\ \A a \in F : B!Newer(PageOf(F)[Limit], a) => Never(PageOf(F), a)
         /\ \A a : a \notin F => Never(PageOf(F), a)
<1> DEFINE n == Cardinality(F)
           L == B!InOrder(F)
           k == IF n > Limit THEN Limit ELSE n
           P == PageOf(F)
           at(a) == PlaceIn(NewerRel(F), F, a)
<1>1. /\ n \in Nat /\ Limit \in Nat /\ Limit >= 1 /\ k \in Nat /\ k <= n /\ k <= Limit
      /\ (k # Limit => k = n)
  BY FS_CardinalityType, MCStoreAssumption
<1>2. /\ L \in Seq(Entries) /\ Len(L) = n
      /\ \A i \in 1..n : L[i] \in F /\ at(L[i]) = i - 1
  BY ListedInOrder
<1>3. \A a \in F : at(a) \in 0..(n - 1)
  BY ListOrders, PlaceInRange
<1>4. \A a, b \in F : B!Newer(b, a) => at(b) < at(a)
  BY ListOrders, PlacesInGrow
<1>5. \A a, b \in F : a # b => B!Newer(a, b) \/ B!Newer(b, a)
  BY ListOrders
<1>6. P = SubSeq(L, 1, k)
  BY <1>2 DEF PageOf
<1> HIDE DEF at, L, P
<1>7. P \in Seq(Entries) /\ Len(P) = k /\ \A i \in 1..k : P[i] = L[i]
  <2> HIDE DEF k, n
  <2>1. \A i \in 1..k : L[i] \in Entries
    BY <1>1, <1>2
  <2>2. P \in Seq(Entries) /\ Len(P) = IF 1 <= k THEN k - 1 + 1 ELSE 0
    BY <1>1, <1>6, <2>1, SubSeqProperties
  <2>3. \A i \in 1..(k - 1 + 1) : P[i] = L[1 + i - 1]
    BY <1>1, <1>6, <2>1, SubSeqProperties
  <2>4. k - 1 + 1 = k
    BY <1>1
  <2>5. ASSUME NEW i \in 1..k PROVE P[i] = L[i]
    <3>1. 1 + i - 1 = i /\ P[i] = L[1 + i - 1]
      BY <2>3, <2>4
    <3> QED
      BY <3>1
  <2>6. Len(P) = k
    BY <1>1, <2>2, <2>4
  <2> QED
    BY <2>2, <2>5, <2>6
<1> HIDE DEF k, n
<1>8. \A i \in 1..k : P[i] \in F /\ at(P[i]) = i - 1
  BY <1>1, <1>2, <1>7
<1>9. \A a, b \in F : at(a) = at(b) => a = b
  <2> SUFFICES ASSUME NEW a \in F, NEW b \in F, at(a) = at(b), a # b PROVE FALSE
    OBVIOUS
  <2>1. at(a) \in Int /\ at(b) \in Int
    BY <1>3
  <2>2. at(a) < at(b) \/ at(b) < at(a)
    BY <1>4, <1>5
  <2> QED
    BY <2>1, <2>2
<1>10. \A a \in F : at(a) < k => Once(P, a)
  <2> SUFFICES ASSUME NEW a \in F, at(a) < k PROVE Once(P, a)
    OBVIOUS
  <2> DEFINE i == at(a) + 1
  <2>1. i \in 1..k /\ i - 1 = at(a)
    BY <1>1, <1>3
  <2>2. P[i] = a
    BY <1>8, <1>9, <2>1
  <2>3. \A j \in 1..k : P[j] = a => j = i
    BY <1>8, <2>1
  <2> HIDE DEF i
  <2> QED
    BY <1>7, <2>1, <2>2, <2>3 DEF Once
<1>11. \A a \in F : at(a) >= k => Never(P, a)
  <2> SUFFICES ASSUME NEW a \in F, at(a) >= k, NEW i \in 1..k, P[i] = a PROVE FALSE
    BY <1>7 DEF Never
  <2>1. at(a) = i - 1
    BY <1>8
  <2> QED
    BY <1>1, <2>1
<1>12. ASSUME k # Limit PROVE \A a \in F : Once(P, a)
  BY <1>1, <1>3, <1>10, <1>12
<1>13. ASSUME k = Limit
       PROVE  /\ P[Limit] \in F /\ Once(P, P[Limit])
              /\ \A a \in F : B!Newer(a, P[Limit]) => Once(P, a)
              /\ \A a \in F : B!Newer(P[Limit], a) => Never(P, a)
  <2>1. P[Limit] \in F /\ at(P[Limit]) = k - 1
    BY <1>1, <1>8, <1>13
  <2>2. Once(P, P[Limit])
    BY <1>1, <1>10, <2>1
  <2>3. \A a \in F : B!Newer(a, P[Limit]) => at(a) < k
    BY <1>1, <1>3, <1>4, <2>1
  <2>4. \A a \in F : B!Newer(P[Limit], a) => at(a) >= k
    BY <1>1, <1>3, <1>4, <2>1
  <2> QED
    BY <1>10, <1>11, <2>1, <2>2, <2>3, <2>4
<1>14. \A a : a \notin F => Never(P, a)
  BY <1>7, <1>8 DEF Never
<1> QED
  BY <1>7, <1>12, <1>13, <1>14 DEF P

(* How often an archive is shown by a page more.                           *)
LEMMA Shown ==
  ASSUME NEW s \in Seq(Entries), NEW t \in Seq(Entries), NEW a
  PROVE  /\ s \o t \in Seq(Entries)
         /\ Once(s, a) /\ Never(t, a) => Once(s \o t, a)
         /\ Never(s, a) /\ Once(t, a) => Once(s \o t, a)
         /\ Never(s, a) /\ Never(t, a) => Never(s \o t, a)
<1> DEFINE u == s \o t
           m == Len(s)
           n == Len(t)
<1>1. /\ m \in Nat /\ n \in Nat /\ u \in Seq(Entries) /\ Len(u) = m + n
      /\ \A i \in 1..(m + n) : u[i] = IF i <= m THEN s[i] ELSE t[i - m]
  BY ConcatProperties, LenProperties
<1> HIDE DEF u
<1>2. \A i \in 1..m : i \in 1..(m + n) /\ u[i] = s[i]
  BY <1>1
<1>3. \A i \in 1..n : m + i \in 1..(m + n) /\ u[m + i] = t[i]
  <2> SUFFICES ASSUME NEW i \in 1..n PROVE m + i \in 1..(m + n) /\ u[m + i] = t[i]
    OBVIOUS
  <2>1. m + i \in 1..(m + n) /\ ~(m + i <= m) /\ (m + i) - m = i
    BY <1>1
  <2> QED
    BY <1>1, <2>1
<1>4. \A i \in 1..(m + n) : i \in 1..m \/ \E j \in 1..n : i = m + j
  <2> SUFFICES ASSUME NEW i \in 1..(m + n), i \notin 1..m PROVE \E j \in 1..n : i = m + j
    OBVIOUS
  <2>1. i - m \in 1..n /\ i = m + (i - m)
    BY <1>1
  <2> QED
    BY <2>1
<1>5. ASSUME Once(s, a), Never(t, a) PROVE Once(u, a)
  <2>1. PICK i \in 1..m : s[i] = a /\ \A j \in 1..m : s[j] = a => j = i
    BY <1>5 DEF Once
  <2>2. ASSUME NEW j \in 1..(m + n), u[j] = a PROVE j = i
    <3>1. CASE j \in 1..m
      BY <1>2, <2>1, <2>2, <3>1
    <3>2. CASE \E h \in 1..n : j = m + h
      BY <1>3, <1>5, <2>2, <3>2 DEF Never
    <3> QED
      BY <1>4, <3>1, <3>2
  <2>3. i \in 1..(m + n) /\ u[i] = a
    BY <1>2, <2>1
  <2> QED
    BY <1>1, <2>2, <2>3 DEF Once
<1>6. ASSUME Never(s, a), Once(t, a) PROVE Once(u, a)
  <2>1. PICK i \in 1..n : t[i] = a /\ \A j \in 1..n : t[j] = a => j = i
    BY <1>6 DEF Once
  <2>2. ASSUME NEW j \in 1..(m + n), u[j] = a PROVE j = m + i
    <3>1. CASE j \in 1..m
      BY <1>2, <1>6, <2>2, <3>1 DEF Never
    <3>2. CASE \E h \in 1..n : j = m + h
      BY <1>3, <2>1, <2>2, <3>2
    <3> QED
      BY <1>4, <3>1, <3>2
  <2>3. m + i \in 1..(m + n) /\ u[m + i] = a
    BY <1>3, <2>1
  <2> QED
    BY <1>1, <2>2, <2>3 DEF Once
<1>7. ASSUME Never(s, a), Never(t, a) PROVE Never(u, a)
  <2> SUFFICES ASSUME NEW j \in 1..(m + n), u[j] = a PROVE FALSE
    BY <1>1 DEF Never
  <2>1. CASE j \in 1..m
    BY <1>2, <1>7, <2>1 DEF Never
  <2>2. CASE \E h \in 1..n : j = m + h
    BY <1>3, <1>7, <2>2 DEF Never
  <2> QED
    BY <1>4, <2>1, <2>2
<1> QED
  BY <1>1, <1>5, <1>6, <1>7 DEF u

(* After a page: what the cursor of the next one leaves behind was shown,  *)
(* what it leads to was not.                                               *)
TurnsAt(a, last, s) ==
  /\ a = last \/ B!Newer(a, last) \/ B!Newer(last, a)
  /\ a = last \/ B!Newer(a, last) => Once(s, a)
  /\ B!Newer(last, a) => Never(s, a)

(* A page that starts behind the archives shown so far: full, it turns at  *)
(* its last archive; otherwise it is the last one and everything was       *)
(* shown.                                                                  *)
LEMMA PageTurns ==
  ASSUME NEW S, S \subseteq Entries, Named(S), IsFiniteSet(S),
         NEW F \in SUBSET S, \A a \in F, b \in S : B!Newer(a, b) => b \in F,
         NEW old \in Seq(Entries), NEW a \in S,
         a \in F => Never(old, a), a \notin F => Once(old, a)
  PROVE  /\ Len(PageOf(F)) # Limit => Once(old \o PageOf(F), a)
         /\ Len(PageOf(F)) = Limit => TurnsAt(a, PageOf(F)[Limit], old \o PageOf(F))
<1>1. F \subseteq Entries /\ Named(F) /\ IsFiniteSet(F)
  BY FS_Subset DEF Named
<1>2. PageOf(F) \in Seq(Entries)
  BY <1>1, PageShows
<1>3. a \notin F => Once(old \o PageOf(F), a)
  BY <1>1, <1>2, PageShows, Shown
<1>4. Len(PageOf(F)) # Limit => Once(old \o PageOf(F), a)
  BY <1>1, <1>2, <1>3, PageShows, Shown
<1>5. ASSUME Len(PageOf(F)) = Limit
      PROVE  TurnsAt(a, PageOf(F)[Limit], old \o PageOf(F))
  <2> DEFINE last == PageOf(F)[Limit]
  <2>1. last \in F /\ last \in S
    BY <1>1, <1>5, PageShows
  <2>2. /\ Once(PageOf(F), last)
        /\ \A b \in F : B!Newer(b, last) => Once(PageOf(F), b)
        /\ \A b \in F : B!Newer(last, b) => Never(PageOf(F), b)
    BY <1>1, <1>5, PageShows
  <2> HIDE DEF last
  <2>3. a = last \/ B!Newer(a, last) \/ B!Newer(last, a)
    BY <2>1, ListOrders
  <2>4. a \notin F => a # last /\ ~B!Newer(last, a)
    BY <2>1
  <2>5. ~B!Newer(last, last)
    BY <2>1, ListOrders
  <2>6. ~(B!Newer(a, last) /\ B!Newer(last, a))
    BY <2>1, ListOrders DEF Orders
  <2>7. a \in F /\ (a = last \/ B!Newer(a, last)) => Once(old \o PageOf(F), a)
    BY <1>2, <2>2, Shown
  <2>8. a \in F /\ B!Newer(last, a) => Never(old \o PageOf(F), a)
    BY <1>2, <2>2, Shown
  <2> QED
    BY <1>3, <2>3, <2>4, <2>7, <2>8 DEF TurnsAt, last
<1> QED
  BY <1>4, <1>5

(* What follows a cursor that can be placed: all that is older.            *)
LEMMA CursorPlaces ==
  ASSUME NEW cursor \in Entries, archives \subseteq Entries, Named(archives),
         ~B!Unplaced(cursor)
  PROVE  B!applyBackupsCursor(archives, cursor) = {a \in archives : B!Newer(cursor, a)}
<1>1. cursor # B!First
  BY DEF Entries, B!Kinds, B!First
<1>2. CASE cursor \in archives
  <2>1. \A e \in archives : B!SameName(e, cursor) <=> e = cursor
    BY <1>2 DEF Named, B!SameName
  <2> QED
    BY <1>1, <1>2, <2>1 DEF B!applyBackupsCursor
<1>3. CASE cursor \notin archives
  <2>1. /\ cursor.mtime \div 2 = cursor.stamp
        /\ \A a \in archives : a.mtime \div 2 # cursor.stamp /\ ~B!SameName(a, cursor)
    BY <1>1, <1>3 DEF B!Unplaced
  <2>2. B!applyBackupsCursor(archives, cursor) =
          {a \in archives : \/ a.mtime < 2 * cursor.stamp
                            \/ a.mtime = 2 * cursor.stamp /\ B!NameLess(a, cursor)}
    BY <1>1, <2>1 DEF B!applyBackupsCursor
  <2>3. ASSUME NEW a \in archives
        PROVE  (\/ a.mtime < 2 * cursor.stamp
                \/ a.mtime = 2 * cursor.stamp /\ B!NameLess(a, cursor))
               <=> B!Newer(cursor, a)
    <3>1. a.mtime \in Nat /\ cursor.mtime \in Nat /\ cursor.stamp \in Nat
      BY DEF Entries
    <3>2. a.mtime \div 2 # cursor.mtime \div 2
      BY <2>1
    <3>3. a.mtime # cursor.mtime /\ a.mtime # 2 * cursor.stamp
      BY <2>1, <3>1, <3>2
    <3>4. a.mtime < 2 * cursor.stamp <=> cursor.mtime > a.mtime
      BY <2>1, <3>1, <3>2
    <3> QED
      BY <3>3, <3>4 DEF B!Newer
  <2> QED
    BY <2>2, <2>3
<1> QED
  BY <1>2, <1>3

(* The directory and the reader of its list.                               *)
ListInv ==
  /\ clock \in Nat /\ archives \subseteq Entries /\ IsFiniteSet(archives) /\ Named(archives)
  /\ shown \in Seq(Entries) /\ always \subseteq archives /\ astray \in BOOLEAN
  /\ pc \in {"idle", "page", "end"}
  /\ pc = "idle" => shown = <<>> /\ always = {}
  /\ pc = "page" => before \in Entries
  /\ ~astray => /\ pc = "page" => \A a \in always : TurnsAt(a, before, shown)
                /\ pc = "end" => \A a \in always : Once(shown, a)

(* An empty directory nobody reads.                                        *)
LEMMA ListInit ==
  ASSUME B!Init
  PROVE  ListInv
<1>1. IsFiniteSet({}) /\ <<>> \in Seq(Entries)
  BY FS_EmptySet
<1> QED
  BY <1>1 DEF B!Init, ListInv, Named

(* A page of what follows the cursor.                                      *)
LEMMA ShowsPage ==
  ASSUME ListInv, NEW cursor, B!Show(cursor), always' \subseteq archives, archives' = archives,
         clock' = clock,
         NEW F, F = B!applyBackupsCursor(archives, cursor),
         F \subseteq archives,
         ~astray' =>
           /\ \A a \in F, b \in archives : B!Newer(a, b) => b \in F
           /\ \A a \in always' : /\ a \in F => Never(shown, a)
                                 /\ a \notin F => Once(shown, a)
  PROVE  ListInv'
<1> DEFINE page == PageOf(F)
<1>1. B!listBackups(cursor) = page
  BY DEF B!listBackups, PageOf
<1>2. /\ shown' = shown \o page
      /\ astray' = (astray \/ B!Unplaced(cursor))
      /\ \/ Len(page) = Limit /\ pc' = "page" /\ before' = B!Last(page)
         \/ Len(page) # Limit /\ pc' = "end" /\ before' = B!First
  BY <1>1 DEF B!Show
<1>3. F \subseteq Entries /\ Named(F) /\ IsFiniteSet(F)
  BY FS_Subset DEF ListInv, Named
<1>4. /\ page \in Seq(Entries)
      /\ Len(page) = Limit => page[Limit] \in F
  BY <1>3, PageShows
<1>5. shown' \in Seq(Entries)
  BY <1>2, <1>4, Shown DEF ListInv
<1>6. astray' \in BOOLEAN
  BY <1>2
<1>7. Len(page) = Limit => B!Last(page) = page[Limit]
  BY DEF B!Last
<1>8. ASSUME ~astray', NEW a \in always'
      PROVE  /\ Len(page) # Limit => Once(shown', a)
             /\ Len(page) = Limit => TurnsAt(a, page[Limit], shown')
  <2>1. /\ \A d \in F, b \in archives : B!Newer(d, b) => b \in F
        /\ a \in F => Never(shown, a)
        /\ a \notin F => Once(shown, a)
    BY <1>8
  <2>2. a \in archives /\ F \in SUBSET archives
    OBVIOUS
  <2>3. shown \in Seq(Entries) /\ archives \subseteq Entries /\ IsFiniteSet(archives) /\ Named(archives)
    BY DEF ListInv
  <2>4. /\ Len(PageOf(F)) # Limit => Once(shown \o PageOf(F), a)
        /\ Len(PageOf(F)) = Limit => TurnsAt(a, PageOf(F)[Limit], shown \o PageOf(F))
    BY <2>1, <2>2, <2>3, PageTurns
  <2> QED
    BY <1>2, <2>4
<1> HIDE DEF page
<1>9. /\ pc' \in {"idle", "page", "end"} /\ pc' # "idle"
      /\ pc' = "page" => before' \in Entries
  BY <1>2, <1>3, <1>4, <1>7
<1>10. ~astray' => /\ pc' = "page" => \A a \in always' : TurnsAt(a, before', shown')
                   /\ pc' = "end" => \A a \in always' : Once(shown', a)
  BY <1>2, <1>7, <1>8
<1>11. /\ clock' \in Nat /\ archives' \subseteq Entries /\ IsFiniteSet(archives') /\ Named(archives')
       /\ always' \subseteq archives'
  BY DEF ListInv
<1>12. TurnsAt(0, before, shown)' <=> TurnsAt(0, before', shown')
  BY DEF TurnsAt, Once, Never
<1> QED
  BY <1>5, <1>6, <1>9, <1>10, <1>11 DEF ListInv

(* The newest page.                                                        *)
LEMMA FirstPage ==
  ASSUME ListInv, B!handleBackups
  PROVE  ListInv'
<1>1. /\ pc = "idle" /\ always' = archives /\ B!Show(B!First)
      /\ archives' = archives /\ clock' = clock
  BY DEF B!handleBackups
<1>2. archives = B!applyBackupsCursor(archives, B!First)
  BY DEF B!applyBackupsCursor
<1>3. shown = <<>>
  BY <1>1 DEF ListInv
<1>4. \A a : Never(shown, a)
  BY <1>3 DEF Never
<1> QED
  BY <1>1, <1>2, <1>4, ShowsPage

(* A page behind a cursor that is there, or that its name places.          *)
LEMMA NextPage ==
  ASSUME ListInv, B!backupNextURL
  PROVE  ListInv'
<1>1. /\ pc = "page" /\ B!Show(before) /\ archives' = archives /\ always' = always
      /\ clock' = clock
  BY DEF B!backupNextURL
<1>2. /\ before \in Entries /\ archives \subseteq Entries /\ Named(archives)
      /\ always \subseteq archives
      /\ ~astray => \A a \in always : TurnsAt(a, before, shown)
  BY <1>1 DEF ListInv
<1> DEFINE F == B!applyBackupsCursor(archives, before)
<1>3. F \subseteq archives
  BY DEF B!applyBackupsCursor
<1>4. ASSUME ~astray'
      PROVE  /\ \A a \in F, b \in archives : B!Newer(a, b) => b \in F
             /\ \A a \in always' : /\ a \in F => Never(shown, a)
                                   /\ a \notin F => Once(shown, a)
  <2>1. ~astray /\ ~B!Unplaced(before)
    BY <1>1, <1>4 DEF B!Show
  <2>2. F = {a \in archives : B!Newer(before, a)}
    BY <1>2, <2>1, CursorPlaces
  <2>3. \A a, b \in archives : B!Newer(before, a) /\ B!Newer(a, b) => B!Newer(before, b)
    BY <1>2, NewerPasses
  <2>4. \A a \in always : TurnsAt(a, before, shown)
    BY <1>2, <2>1
  <2> HIDE DEF F
  <2>5. \A a \in F, b \in archives : B!Newer(a, b) => b \in F
    BY <2>2, <2>3
  <2>6. ASSUME NEW a \in always
        PROVE  /\ a \in F => Never(shown, a)
               /\ a \notin F => Once(shown, a)
    <3>1. a \in F <=> B!Newer(before, a)
      BY <1>2, <2>2
    <3> QED
      BY <2>4, <3>1 DEF TurnsAt
  <2> QED
    BY <1>1, <2>5, <2>6
<1> HIDE DEF F
<1>5. F = B!applyBackupsCursor(archives, before)
  BY DEF F
<1> QED
  BY <1>1, <1>2, <1>3, <1>4, <1>5, ShowsPage

(* The directory changes while the pages are read.                         *)
LEMMA NewName ==
  ASSUME ListInv, NEW k \in B!Kinds, NEW stamp \in Nat, NEW m \in Nat,
         NEW c \in B!NextArchiveName(k, stamp),
         archives' = archives \cup {[kind |-> k, stamp |-> stamp, coll |-> c, mtime |-> m]},
         UNCHANGED <<clock, pc, before, shown, always, astray>>
  PROVE  ListInv'
<1> DEFINE new == [kind |-> k, stamp |-> stamp, coll |-> c, mtime |-> m]
<1>1. c \in 0..1 /\ ~\E a \in archives : a.kind = k /\ a.stamp = stamp /\ a.coll = c
  BY DEF B!NextArchiveName
<1>2. new \in Entries /\ new.kind = k /\ new.stamp = stamp /\ new.coll = c
  BY <1>1 DEF Entries
<1> HIDE DEF new
<1>3. \A a, b \in Entries : B!SameName(a, b) =>
        a.kind = b.kind /\ a.stamp = b.stamp /\ a.coll = b.coll
  BY SameNameIs
<1>4. archives' = archives \cup {new}
  BY DEF new
<1>5. \A a \in archives : a \in Entries /\ ~B!SameName(a, new) /\ ~B!SameName(new, a)
  BY <1>1, <1>2, <1>3 DEF ListInv
<1>6. Named(archives') /\ archives' \subseteq Entries
  BY <1>2, <1>4, <1>5 DEF ListInv, Named
<1>7. IsFiniteSet(archives')
  BY <1>4, FS_AddElement DEF ListInv
<1>8. TurnsAt(0, before, shown)' <=> TurnsAt(0, before', shown')
  BY DEF TurnsAt, Once, Never
<1> QED
  BY <1>4, <1>6, <1>7 DEF ListInv

(* Every step keeps what is known of the pages.                            *)
LEMMA ListStep ==
  ASSUME ListInv, B!Next \/ UNCHANGED listVars
  PROVE  ListInv'
<1>1. CASE B!handleBackups
  BY <1>1, FirstPage
<1>2. CASE B!backupNextURL
  BY <1>2, NextPage
<1>3. CASE B!Leave
  <2>1. <<>> \in Seq(Entries)
    OBVIOUS
  <2> QED
    BY <1>3, <2>1 DEF B!Leave, ListInv
<1>4. CASE B!Create
  <2>1. clock \in Nat /\ clock \div 2 \in Nat
    BY DEF ListInv
  <2>2. PICK k \in B!Kinds : \E c \in B!NextArchiveName(k, clock \div 2) :
          archives' = archives \cup
            {[kind |-> k, stamp |-> clock \div 2, coll |-> c, mtime |-> clock]}
    BY <1>4 DEF B!Create
  <2>3. UNCHANGED <<clock, pc, before, shown, always, astray>>
    BY <1>4 DEF B!Create, B!reader
  <2> QED
    BY <2>1, <2>2, <2>3, NewName
<1>5. CASE B!Import
  <2>1. clock \in Nat /\ clock \div 2 \in Nat
    BY DEF ListInv
  <2>2. PICK stamp \in 0..(clock \div 2), m \in 0..clock :
          \E c \in B!NextArchiveName("manual", stamp) :
            archives' = archives \cup
              {[kind |-> "manual", stamp |-> stamp, coll |-> c, mtime |-> m]}
    BY <1>5 DEF B!Import
  <2>3. UNCHANGED <<clock, pc, before, shown, always, astray>>
    BY <1>5 DEF B!Import, B!reader
  <2>4. stamp \in Nat /\ m \in Nat /\ "manual" \in B!Kinds
    BY <2>1 DEF B!Kinds
  <2> QED
    BY <2>2, <2>3, <2>4, NewName
<1>6. CASE B!Prune
  <2>1. PICK a \in archives : archives' = archives \ {a} /\ always' = always \ {a}
    BY <1>6 DEF B!Prune
  <2>2. UNCHANGED <<clock, pc, before, shown, astray>>
    BY <1>6 DEF B!Prune
  <2>3. IsFiniteSet(archives') /\ archives' \subseteq Entries /\ Named(archives')
    BY <2>1, FS_Subset DEF ListInv, Named
  <2>4. always' \subseteq archives' /\ always' \subseteq always
    BY <2>1 DEF ListInv
  <2> QED
    BY <2>2, <2>3, <2>4 DEF ListInv
<1>7. CASE B!Tick
  BY <1>7 DEF B!Tick, B!reader, ListInv
<1>8. CASE UNCHANGED listVars
  BY <1>8 DEF listVars, ListInv
<1> QED
  BY <1>1, <1>2, <1>3, <1>4, <1>5, <1>6, <1>7, <1>8 DEF B!Next

(* An archive that was there all the time is shown once or not yet.        *)
LEMMA ListComplete ==
  ASSUME ListInv
  PROVE  B!PagesComplete
<1> SUFFICES ASSUME ~astray, NEW a \in always
             PROVE  B!Times(a) <= 1 /\ (pc = "end" => B!Times(a) = 1)
  BY DEF B!PagesComplete
<1> DEFINE D == {i \in DOMAIN shown : shown[i] = a}
<1>1. shown \in Seq(Entries) /\ DOMAIN shown = 1..Len(shown)
  BY DEF ListInv
<1>2. B!Times(a) = Cardinality(D)
  BY ListCardinality DEF B!Times
<1>3. Never(shown, a) => Cardinality(D) = 0
  <2>1. Never(shown, a) => D = {}
    BY <1>1 DEF Never
  <2> QED
    BY <2>1, FS_EmptySet
<1>4. Once(shown, a) => Cardinality(D) = 1
  <2> SUFFICES ASSUME Once(shown, a) PROVE Cardinality(D) = 1
    OBVIOUS
  <2>1. PICK i \in 1..Len(shown) : shown[i] = a /\ \A j \in 1..Len(shown) : shown[j] = a => j = i
    BY DEF Once
  <2>2. D = {i}
    BY <1>1, <2>1
  <2> HIDE DEF D
  <2> QED
    BY <2>2, FS_Singleton
<1>5. CASE pc = "idle"
  BY <1>5 DEF ListInv
<1>6. CASE pc = "page"
  <2>1. TurnsAt(a, before, shown)
    BY <1>6 DEF ListInv
  <2>2. Once(shown, a) \/ Never(shown, a)
    BY <2>1 DEF TurnsAt
  <2> QED
    BY <1>2, <1>3, <1>4, <1>6, <2>2
<1>7. CASE pc = "end"
  <2>1. Once(shown, a)
    BY <1>7 DEF ListInv
  <2> QED
    BY <1>2, <1>4, <2>1
<1> QED
  BY <1>5, <1>6, <1>7 DEF ListInv

ListPart == part = "list" => ListInv

(* Between two pages the cursor divides the archives that were there all   *)
(* the time into those shown once and those not yet shown, for any page    *)
(* size and any number of archives and changes.                            *)
THEOREM ListInvariant == StoreSpec => []ListPart
<1>1. StoreInit => ListPart
  BY ListInit DEF StoreInit, ListPart
<1>2. ListPart /\ [StoreNext]_storeVars => ListPart'
  <2> SUFFICES ASSUME ListPart, [StoreNext]_storeVars, part' = "list"
               PROVE  ListInv'
    BY DEF ListPart
  <2>1. part = "list"
    BY DEF StoreNext, storeVars
  <2>2. B!Next \/ UNCHANGED listVars
    BY <2>1 DEF StoreNext, storeVars
  <2> QED
    BY <2>1, <2>2, ListStep DEF ListPart
<1> QED
  BY <1>1, <1>2, PTL DEF StoreSpec

(* Who follows the links to the last page has seen every archive that was  *)
(* there all the time exactly once, unless a pruned cursor was not placed  *)
(* by its name (applyBackupsCursor, listBackups, backupNextURL).           *)
THEOREM PagesAreComplete == StoreSpec => []PagesComplete
<1>1. ListPart => PagesComplete
  BY ListComplete DEF ListPart, PagesComplete
<1> QED
  BY <1>1, ListInvariant, PTL

(***************************************************************************)
(* GameConfig: what is written into a line of a config file is read back,  *)
(* for texts and lines of any length.                                      *)
(***************************************************************************)

(* The scan of a text of config.lua, character by character.                *)
Scans(w, n, text) ==
  w = [i \in 0..n |-> IF i = 0 THEN C!Start ELSE C!After(w[i - 1], text[i])]

(* A scan of any length exists.                                            *)
LEMMA ScanExists ==
  ASSUME NEW n \in Nat, NEW text
  PROVE  \E w : Scans(w, n, text)
<1> SUFFICES ASSUME ~\E w : Scans(w, n, text) PROVE FALSE
  OBVIOUS
<1> DEFINE Bad == {m \in Nat : ~\E w : Scans(w, m, text)}
<1>1. PICK m \in Bad : \A k \in Bad : m <= k
  <2>1. Bad \subseteq Nat /\ Bad # {}
    OBVIOUS
  <2> HIDE DEF Bad
  <2> QED
    BY <2>1, Least
<1>2. m # 0
  <2> DEFINE w == [i \in 0..0 |-> C!Start]
  <2>1. Scans(w, 0, text)
    BY DEF Scans
  <2> QED
    BY <2>1
<1>3. m - 1 \in Nat /\ m - 1 \notin Bad
  BY <1>1, <1>2
<1>4. PICK v : Scans(v, m - 1, text)
  BY <1>3
<1> DEFINE last == C!After(v[m - 1], text[m])
           w == [i \in 0..m |-> IF i < m THEN v[i] ELSE last]
           step(x, i) == IF i = 0 THEN C!Start ELSE C!After(x[i - 1], text[i])
<1>5. \A i \in 0..(m - 1) : v[i] = step(v, i)
  BY <1>4 DEF Scans
<1>6. \A i \in 0..(m - 1) : w[i] = v[i]
  BY <1>1
<1>7. w[m] = C!After(v[m - 1], text[m])
  BY <1>1
<1>8. ASSUME NEW i \in 0..m PROVE w[i] = step(w, i)
  <2>1. CASE i = 0
    BY <1>3, <1>5, <1>6, <2>1
  <2>2. CASE i # 0 /\ i < m
    <3>1. i \in 0..(m - 1) /\ i - 1 \in 0..(m - 1)
      BY <1>1, <2>2
    <3>2. w[i] = step(v, i) /\ w[i - 1] = v[i - 1]
      BY <1>5, <1>6, <3>1
    <3> QED
      BY <2>2, <3>2
  <2>3. CASE i = m
    <3>1. m - 1 \in 0..(m - 1)
      BY <1>3
    <3>2. w[m - 1] = v[m - 1]
      BY <1>6, <3>1
    <3> QED
      BY <1>2, <1>7, <2>3, <3>2
  <2> QED
    BY <1>1, <2>1, <2>2, <2>3
<1>9. w = [i \in 0..m |-> w[i]]
  OBVIOUS
<1> HIDE DEF w
<1>10. Scans(w, m, text)
  BY <1>8, <1>9 DEF Scans
<1> QED
  BY <1>1, <1>10

(* What the scan knows after each character.                               *)
LEMMA ScanIs ==
  ASSUME NEW text, Len(text) \in Nat
  PROVE  /\ C!Scan(text)[0] = C!Start
         /\ \A i \in 1..Len(text) :
              C!Scan(text)[i] = C!After(C!Scan(text)[i - 1], text[i])
<1> DEFINE n == Len(text)
           w == CHOOSE scan : scan = [i \in 0..n |->
                  IF i = 0 THEN C!Start ELSE C!After(scan[i - 1], text[i])]
<1>1. C!Scan(text) = w
  BY DEF C!Scan
<1>2. w = CHOOSE scan : Scans(scan, n, text)
  BY DEF Scans
<1> HIDE DEF w
<1>3. Scans(w, n, text)
  BY <1>2, ScanExists
<1>4. \A i \in 0..n : w[i] = IF i = 0 THEN C!Start ELSE C!After(w[i - 1], text[i])
  BY <1>3 DEF Scans
<1> QED
  BY <1>1, <1>4

(* The quoting of a text, character by character.                          *)
Quotings(w, n, text) ==
  w = [i \in 0..n |-> IF i = 0 THEN <<C!Quote>> ELSE w[i - 1] \o C!Escape(text[i])]

(* A quoting of any length exists.                                         *)
LEMMA QuotingExists ==
  ASSUME NEW n \in Nat, NEW text
  PROVE  \E w : Quotings(w, n, text)
<1> SUFFICES ASSUME ~\E w : Quotings(w, n, text) PROVE FALSE
  OBVIOUS
<1> DEFINE Bad == {m \in Nat : ~\E w : Quotings(w, m, text)}
<1>1. PICK m \in Bad : \A k \in Bad : m <= k
  <2>1. Bad \subseteq Nat /\ Bad # {}
    OBVIOUS
  <2> HIDE DEF Bad
  <2> QED
    BY <2>1, Least
<1>2. m # 0
  <2> DEFINE w == [i \in 0..0 |-> <<C!Quote>>]
  <2>1. Quotings(w, 0, text)
    BY DEF Quotings
  <2> QED
    BY <2>1
<1>3. m - 1 \in Nat /\ m - 1 \notin Bad
  BY <1>1, <1>2
<1>4. PICK v : Quotings(v, m - 1, text)
  BY <1>3
<1> DEFINE next(x, i) == x[i - 1] \o C!Escape(text[i])
           first == <<C!Quote>>
           step(x, i) == IF i = 0 THEN first ELSE next(x, i)
           last == next(v, m)
           w == [i \in 0..m |-> IF i < m THEN v[i] ELSE last]
<1>5. \A i \in 0..(m - 1) : v[i] = step(v, i)
  BY <1>4 DEF Quotings
<1>6. \A x, y, i : x[i - 1] = y[i - 1] => next(x, i) = next(y, i)
  OBVIOUS
<1> HIDE DEF first, next
<1>7. \A i \in 0..(m - 1) : w[i] = v[i]
  BY <1>1
<1>8. w[m] = next(v, m)
  BY <1>1
<1>9. ASSUME NEW i \in 0..m PROVE w[i] = step(w, i)
  <2>1. CASE i = 0
    BY <1>3, <1>5, <1>7, <2>1
  <2>2. CASE i # 0 /\ i < m
    <3>1. i \in 0..(m - 1) /\ i - 1 \in 0..(m - 1)
      BY <1>1, <2>2
    <3>2. w[i] = step(v, i) /\ w[i - 1] = v[i - 1]
      BY <1>5, <1>7, <3>1
    <3> QED
      BY <1>6, <2>2, <3>2
  <2>3. CASE i = m
    <3>1. m - 1 \in 0..(m - 1)
      BY <1>3
    <3>2. w[m - 1] = v[m - 1]
      BY <1>7, <3>1
    <3> QED
      BY <1>2, <1>8, <1>6, <2>3, <3>2
  <2> QED
    BY <1>1, <2>1, <2>2, <2>3
<1>10. w = [i \in 0..m |-> w[i]]
  OBVIOUS
<1> HIDE DEF w
<1>11. Quotings(w, m, text)
  BY <1>9, <1>10 DEF Quotings, first, next
<1> QED
  BY <1>1, <1>11

(* What has been written after each character.                             *)
LEMMA QuotingIs ==
  ASSUME NEW text, Len(text) \in Nat
  PROVE  \E w : /\ C!LuaQuote(text) = Append(w[Len(text)], C!Quote)
                /\ w[0] = <<C!Quote>>
                /\ \A i \in 1..Len(text) : w[i] = w[i - 1] \o C!Escape(text[i])
<1> DEFINE n == Len(text)
           w == CHOOSE out : out = [i \in 0..n |->
                  IF i = 0 THEN <<C!Quote>> ELSE out[i - 1] \o C!Escape(text[i])]
<1>1. C!LuaQuote(text) = Append(w[n], C!Quote)
  BY DEF C!LuaQuote
<1>2. w = CHOOSE out : Quotings(out, n, text)
  BY DEF Quotings
<1> HIDE DEF w
<1>3. Quotings(w, n, text)
  BY <1>2, QuotingExists
<1>4. \A i \in 0..n : w[i] = IF i = 0 THEN <<C!Quote>> ELSE w[i - 1] \o C!Escape(text[i])
  BY <1>3 DEF Quotings
<1>5. w[0] = <<C!Quote>>
  BY <1>4
<1>6. ASSUME NEW i \in 1..n PROVE w[i] = w[i - 1] \o C!Escape(text[i])
  <2>1. i \in 0..n /\ i # 0
    OBVIOUS
  <2> QED
    BY <1>4, <2>1
<1> QED
  BY <1>1, <1>5, <1>6

(* What holds of 0 and of the successor of each number it holds of.        *)
LEMMA Inductive ==
  ASSUME NEW G, 0 \in G, \A n \in Nat : n \in G => n + 1 \in G
  PROVE  \A n \in Nat : n \in G
<1> SUFFICES ASSUME NEW k \in Nat, k \notin G PROVE FALSE
  OBVIOUS
<1> DEFINE Bad == {n \in Nat : n \notin G}
<1>1. Bad \subseteq Nat /\ Bad # {}
  OBVIOUS
<1> HIDE DEF Bad
<1>2. PICK m \in Bad : \A n \in Bad : m <= n
  BY <1>1, Least
<1>3. m \in Nat /\ m \notin G
  BY <1>2 DEF Bad
<1>4. m # 0 /\ m - 1 \in Nat
  BY <1>3
<1>5. m - 1 \in G
  <2>1. ~(m <= m - 1)
    BY <1>3
  <2> QED
    BY <1>2, <1>4, <2>1 DEF Bad
<1>6. (m - 1) + 1 = m
  BY <1>3
<1> QED
  BY <1>3, <1>4, <1>5, <1>6

(* The characters a line is made of.                                       *)
Chars == {"x", "0", "7", "[", C!Quote, C!Slash, C!Blank, C!Dash, C!Hash}

(* The characters the code looks at are different ones.                    *)
LEMMA CharsDiffer ==
  /\ {C!Quote, C!Slash, C!Blank, C!Dash, C!Hash} \subseteq Chars
  /\ C!Quote # C!Slash
  /\ C!Quote # C!Blank /\ C!Slash # C!Blank /\ C!Dash # C!Blank
  /\ C!Quote # C!Dash /\ C!Hash # C!Blank
BY DEF C!Quote, C!Slash, C!Blank, C!Dash, C!Hash, Chars

(* A blank neither opens nor closes a string.                              *)
LEMMA AfterBlank ==
  ASSUME NEW s
  PROVE  C!After(s, C!Blank).state = "code" <=> s.state = "code"
<1>1. C!After(s, C!Blank).state =
        CASE s.state = "escaped"             -> "string"
          [] s.state = "string" /\ C!Blank = C!Slash -> "escaped"
          [] s.state = "string" /\ C!Blank = C!Quote -> "code"
          [] s.state = "code" /\ C!Blank = C!Quote   -> "string"
          [] OTHER                           -> s.state
  BY DEF C!After
<1>2. C!Blank # C!Slash /\ C!Blank # C!Quote
  BY CharsDiffer
<1>3. CASE s.state = "escaped"
  BY <1>1, <1>2, <1>3
<1>4. CASE s.state # "escaped"
  <2>1. C!After(s, C!Blank).state = s.state
    BY <1>1, <1>2, <1>4
  <2> QED
    BY <2>1
<1> QED
  BY <1>3, <1>4

(* Between blanks the scan stays in the code or outside of it.             *)
LEMMA CodeOverBlanks ==
  ASSUME NEW text \in Seq(Chars), NEW p \in 0..Len(text), NEW r \in Nat,
         p + r <= Len(text), \A i \in 1..r : text[p + i] = C!Blank
  PROVE  C!Scan(text)[p + r].state = "code" <=> C!Scan(text)[p].state = "code"
<1> DEFINE n == Len(text)
           Same(k) == C!Scan(text)[p + k].state = "code" <=> C!Scan(text)[p].state = "code"
           G == {k \in Nat : k <= r => Same(k)}
<1>1. n \in Nat /\ p \in Nat
  BY LenProperties
<1>2. 0 \in G
  <2>1. p + 0 = p
    BY <1>1
  <2> QED
    BY <2>1
<1>3. ASSUME NEW k \in Nat, k \in G PROVE k + 1 \in G
  <2> SUFFICES ASSUME k + 1 <= r PROVE Same(k + 1)
    OBVIOUS
  <2>1. k <= r /\ k + 1 \in 1..r /\ p + (k + 1) \in 1..n /\ (p + (k + 1)) - 1 = p + k
    BY <1>1
  <2>2. Same(k)
    BY <1>3, <2>1
  <2>3. text[p + (k + 1)] = C!Blank
    BY <2>1
  <2>4. C!Scan(text)[p + (k + 1)] = C!After(C!Scan(text)[p + k], C!Blank)
    BY <1>1, <2>1, <2>3, ScanIs
  <2> QED
    BY <2>2, <2>4, AfterBlank
<1> HIDE DEF G
<1>4. r \in G
  BY <1>2, <1>3, Inductive
<1> QED
  BY <1>4 DEF G

(* The same characters lead from the same state to the same.               *)
LEMMA StatesAgree ==
  ASSUME NEW u \in Seq(Chars), NEW l \in Seq(Chars),
         NEW a \in 0..Len(u), NEW b \in 0..Len(l), NEW r \in Nat,
         a + r <= Len(u), b + r <= Len(l), \A i \in 1..r : u[a + i] = l[b + i],
         C!Scan(u)[a].state = C!Scan(l)[b].state
  PROVE  C!Scan(u)[a + r].state = C!Scan(l)[b + r].state
<1> DEFINE Same(k) == C!Scan(u)[a + k].state = C!Scan(l)[b + k].state
           G == {k \in Nat : k <= r => Same(k)}
<1>1. Len(u) \in Nat /\ Len(l) \in Nat /\ a \in Nat /\ b \in Nat
  BY LenProperties
<1>2. 0 \in G
  <2>1. a + 0 = a /\ b + 0 = b
    BY <1>1
  <2> QED
    BY <2>1
<1>3. ASSUME NEW k \in Nat, k \in G PROVE k + 1 \in G
  <2> SUFFICES ASSUME k + 1 <= r PROVE Same(k + 1)
    OBVIOUS
  <2>1. /\ k <= r /\ k + 1 \in 1..r
        /\ a + (k + 1) \in 1..Len(u) /\ (a + (k + 1)) - 1 = a + k
        /\ b + (k + 1) \in 1..Len(l) /\ (b + (k + 1)) - 1 = b + k
    BY <1>1
  <2>2. Same(k)
    BY <1>3, <2>1
  <2>3. u[a + (k + 1)] = l[b + (k + 1)]
    BY <2>1
  <2>4. C!Scan(u)[a + (k + 1)] = C!After(C!Scan(u)[a + k], u[a + (k + 1)])
    BY <1>1, <2>1, ScanIs
  <2>5. C!Scan(l)[b + (k + 1)] = C!After(C!Scan(l)[b + k], l[b + (k + 1)])
    BY <1>1, <2>1, ScanIs
  <2> QED
    BY <2>2, <2>3, <2>4, <2>5 DEF C!After
<1> HIDE DEF G
<1>4. r \in G
  BY <1>2, <1>3, Inductive
<1> QED
  BY <1>4 DEF G

(* The scan of a text begins as that of any beginning of it.               *)
LEMMA SameScan ==
  ASSUME NEW u \in Seq(Chars), NEW l \in Seq(Chars), NEW r \in Nat,
         r <= Len(u), r <= Len(l), \A i \in 1..r : u[i] = l[i]
  PROVE  C!Scan(u)[r] = C!Scan(l)[r]
<1> DEFINE G == {k \in Nat : k <= r => C!Scan(u)[k] = C!Scan(l)[k]}
<1>1. Len(u) \in Nat /\ Len(l) \in Nat
  BY LenProperties
<1>2. 0 \in G
  BY <1>1, ScanIs
<1>3. ASSUME NEW k \in Nat, k \in G PROVE k + 1 \in G
  <2> SUFFICES ASSUME k + 1 <= r PROVE C!Scan(u)[k + 1] = C!Scan(l)[k + 1]
    OBVIOUS
  <2>1. k <= r /\ k + 1 \in 1..r /\ k + 1 \in 1..Len(u) /\ k + 1 \in 1..Len(l) /\ (k + 1) - 1 = k
    BY <1>1
  <2>2. C!Scan(u)[k] = C!Scan(l)[k]
    BY <1>3, <2>1
  <2>3. u[k + 1] = l[k + 1]
    BY <2>1
  <2>4. C!Scan(u)[k + 1] = C!After(C!Scan(u)[k], u[k + 1])
    BY <1>1, <2>1, ScanIs
  <2>5. C!Scan(l)[k + 1] = C!After(C!Scan(l)[k], l[k + 1])
    BY <1>1, <2>1, ScanIs
  <2> QED
    BY <2>2, <2>3, <2>4, <2>5
<1> HIDE DEF G
<1>4. r \in G
  BY <1>2, <1>3, Inductive
<1> QED
  BY <1>4 DEF G

(* An open string: t ends inside of it, and what is read of it is what was *)
(* to be quoted.                                                           *)
OpenString(t, text) ==
  /\ t \in Seq(Chars) /\ Len(t) >= 1 /\ t[1] = C!Quote
  /\ C!Scan(t)[Len(t)] = [state |-> "string", read |-> text]
  /\ \A i \in 2..Len(t) :
       /\ C!Scan(t)[i - 1].state # "code"
       /\ ~(C!Scan(t)[i - 1].state = "string" /\ t[i] = C!Quote)

(* The quote opens one.                                                    *)
LEMMA StringOpens ==
  OpenString(<<C!Quote>>, <<>>)
<1> DEFINE t == <<C!Quote>>
<1>1. t \in Seq(Chars) /\ Len(t) = 1 /\ t[1] = C!Quote
  BY CharsDiffer
<1>2. C!Scan(t)[1] = C!After(C!Start, C!Quote)
  <2>1. 1 \in 1..Len(t) /\ Len(t) \in Nat /\ 1 - 1 = 0
    BY <1>1
  <2> HIDE DEF t
  <2> QED
    BY <1>1, <2>1, ScanIs
<1>3. C!After(C!Start, C!Quote) = [state |-> "string", read |-> <<>>]
  <2>1. C!Start.state = "code" /\ C!Start.read = <<>>
    BY DEF C!Start
  <2> QED
    BY <2>1, CharsDiffer DEF C!After
<1>4. \A i \in 2..Len(t) : FALSE
  BY <1>1
<1> HIDE DEF t
<1>5. OpenString(t, <<>>)
  BY <1>1, <1>2, <1>3, <1>4 DEF OpenString
<1> QED
  BY <1>5 DEF t

(* One character more stays in the string unless it closes it.             *)
LEMMA StringGrows ==
  ASSUME NEW t, NEW text, OpenString(t, text), NEW c \in Chars, NEW s,
         C!After([state |-> "string", read |-> text], c) = s
  PROVE  /\ Append(t, c) \in Seq(Chars) /\ Len(Append(t, c)) = Len(t) + 1
         /\ Append(t, c)[Len(t) + 1] = c
         /\ \A i \in 1..Len(t) : Append(t, c)[i] = t[i]
         /\ \A i \in 0..Len(t) : C!Scan(Append(t, c))[i] = C!Scan(t)[i]
         /\ C!Scan(Append(t, c))[Len(t) + 1] = s
<1> DEFINE u == Append(t, c)
           n == Len(t)
<1>1. t \in Seq(Chars) /\ n \in Nat /\ C!Scan(t)[n] = [state |-> "string", read |-> text]
  BY LenProperties DEF OpenString
<1>2. u \in Seq(Chars) /\ Len(u) = n + 1 /\ u[n + 1] = c /\ \A i \in 1..n : u[i] = t[i]
  BY <1>1, AppendProperties
<1> HIDE DEF u
<1>3. ASSUME NEW i \in 0..n PROVE C!Scan(u)[i] = C!Scan(t)[i]
  <2>1. i \in Nat /\ i <= Len(u) /\ i <= Len(t) /\ \A j \in 1..i : u[j] = t[j]
    BY <1>1, <1>2
  <2> QED
    BY <1>1, <1>2, <2>1, SameScan
<1>4. C!Scan(u)[n + 1] = C!After(C!Scan(u)[n], c)
  <2>1. n + 1 \in 1..Len(u) /\ Len(u) \in Nat /\ (n + 1) - 1 = n
    BY <1>1, <1>2
  <2> QED
    BY <1>2, <2>1, ScanIs
<1>5. C!Scan(u)[n + 1] = s
  BY <1>1, <1>3, <1>4
<1> QED
  BY <1>2, <1>3, <1>5 DEF u

(* A plain character.                                                      *)
LEMMA PlainWritten ==
  ASSUME NEW t, NEW text, OpenString(t, text), NEW c \in Chars,
         c # C!Quote, c # C!Slash
  PROVE  OpenString(Append(t, c), Append(text, c))
<1> DEFINE u == Append(t, c)
           s == [state |-> "string", read |-> Append(text, c)]
           n == Len(t)
<1>1. C!After([state |-> "string", read |-> text], c) = s
  BY DEF C!After
<1>2. /\ u \in Seq(Chars) /\ Len(u) = n + 1 /\ u[n + 1] = c
      /\ \A i \in 1..n : u[i] = t[i]
      /\ \A i \in 0..n : C!Scan(u)[i] = C!Scan(t)[i]
      /\ C!Scan(u)[n + 1] = s
  BY <1>1, StringGrows
<1>3. /\ n \in Nat /\ n >= 1 /\ t[1] = C!Quote
      /\ C!Scan(t)[n] = [state |-> "string", read |-> text]
      /\ \A i \in 2..n : /\ C!Scan(t)[i - 1].state # "code"
                         /\ ~(C!Scan(t)[i - 1].state = "string" /\ t[i] = C!Quote)
  BY LenProperties DEF OpenString
<1> HIDE DEF u, n
<1>4. ASSUME NEW i \in 2..(n + 1)
      PROVE  /\ C!Scan(u)[i - 1].state # "code"
             /\ ~(C!Scan(u)[i - 1].state = "string" /\ u[i] = C!Quote)
  <2>1. i - 1 \in 0..n
    BY <1>3
  <2>2. CASE i \in 2..n
    <3>1. i \in 1..n
      BY <1>3, <2>2
    <3> QED
      BY <1>2, <1>3, <2>1, <2>2, <3>1
  <2>3. CASE i = n + 1
    <3>1. i - 1 = n
      BY <1>3, <2>3
    <3>2. C!Scan(u)[n].state = "string"
      BY <1>2, <1>3, <2>1, <3>1
    <3> QED
      BY <1>2, <2>3, <3>1, <3>2
  <2> QED
    BY <1>3, <2>2, <2>3
<1>5. u[1] = C!Quote /\ Len(u) >= 1
  BY <1>2, <1>3
<1>6. OpenString(u, Append(text, c))
  BY <1>2, <1>4, <1>5 DEF OpenString
<1> QED
  BY <1>6 DEF u

(* A quote or a backslash, behind a backslash.                             *)
LEMMA EscapeWritten ==
  ASSUME NEW t, NEW text, OpenString(t, text), NEW c \in Chars
  PROVE  OpenString(Append(Append(t, C!Slash), c), Append(text, c))
<1> DEFINE u == Append(t, C!Slash)
           v == Append(u, c)
           n == Len(t)
           e == [state |-> "escaped", read |-> text]
           s == [state |-> "string", read |-> Append(text, c)]
<1>1. C!After([state |-> "string", read |-> text], C!Slash) = e
  BY CharsDiffer DEF C!After
<1>2. C!After(e, c) = s
  BY DEF C!After
<1>3. C!Slash \in Chars
  BY CharsDiffer
<1>4. /\ u \in Seq(Chars) /\ Len(u) = n + 1 /\ u[n + 1] = C!Slash
      /\ \A i \in 1..n : u[i] = t[i]
      /\ \A i \in 0..n : C!Scan(u)[i] = C!Scan(t)[i]
      /\ C!Scan(u)[n + 1] = e
  BY <1>1, <1>3, StringGrows
<1>5. /\ n \in Nat /\ n >= 1 /\ t[1] = C!Quote
      /\ C!Scan(t)[n] = [state |-> "string", read |-> text]
      /\ \A i \in 2..n : /\ C!Scan(t)[i - 1].state # "code"
                         /\ ~(C!Scan(t)[i - 1].state = "string" /\ t[i] = C!Quote)
  BY LenProperties DEF OpenString
<1> HIDE DEF u, n, e, s
<1>6. v \in Seq(Chars) /\ Len(v) = n + 2 /\ v[n + 2] = c /\ \A i \in 1..(n + 1) : v[i] = u[i]
  <2>1. Len(v) = (n + 1) + 1 /\ v \in Seq(Chars) /\ v[(n + 1) + 1] = c
        /\ \A i \in 1..(n + 1) : v[i] = u[i]
    BY <1>4, AppendProperties
  <2>2. (n + 1) + 1 = n + 2
    BY <1>5
  <2> QED
    BY <2>1, <2>2
<1> HIDE DEF v
<1>7. ASSUME NEW i \in 0..(n + 1) PROVE C!Scan(v)[i] = C!Scan(u)[i]
  <2>1. i \in Nat /\ i <= Len(v) /\ i <= Len(u) /\ \A j \in 1..i : v[j] = u[j]
    BY <1>4, <1>5, <1>6
  <2> QED
    BY <1>4, <1>6, <2>1, SameScan
<1>8. C!Scan(v)[n + 2] = s
  <2>1. n + 2 \in 1..Len(v) /\ Len(v) \in Nat /\ (n + 2) - 1 = n + 1 /\ n + 1 \in 0..(n + 1)
    BY <1>5, <1>6
  <2>2. C!Scan(v)[n + 2] = C!After(C!Scan(v)[n + 1], c)
    BY <1>6, <2>1, ScanIs
  <2> QED
    BY <1>2, <1>4, <1>7, <2>1, <2>2
<1>9. ASSUME NEW i \in 2..(n + 2)
      PROVE  /\ C!Scan(v)[i - 1].state # "code"
             /\ ~(C!Scan(v)[i - 1].state = "string" /\ v[i] = C!Quote)
  <2>1. i - 1 \in 0..(n + 1)
    BY <1>5
  <2>2. CASE i \in 2..n
    <3>1. i \in 1..n /\ i \in 1..(n + 1) /\ i - 1 \in 0..n
      BY <1>5, <2>2
    <3>2. v[i] = t[i]
      BY <1>4, <1>6, <3>1
    <3>3. C!Scan(v)[i - 1] = C!Scan(t)[i - 1]
      BY <1>4, <1>7, <2>1, <3>1
    <3> QED
      BY <1>5, <2>2, <3>2, <3>3
  <2>3. CASE i = n + 1
    <3>1. i - 1 = n /\ n \in 0..n /\ n + 1 \in 1..(n + 1)
      BY <1>5, <2>3
    <3>2. C!Scan(v)[n].state = "string"
      BY <1>4, <1>5, <1>7, <2>1, <3>1
    <3>3. v[n + 1] = C!Slash
      BY <1>4, <1>6, <3>1
    <3> QED
      BY <2>3, <3>1, <3>2, <3>3, CharsDiffer
  <2>4. CASE i = n + 2
    <3>1. i - 1 = n + 1
      BY <1>5, <2>4
    <3>2. C!Scan(v)[n + 1].state = "escaped"
      BY <1>4, <1>7, <2>1, <3>1 DEF e
    <3> QED
      BY <3>1, <3>2
  <2> QED
    BY <1>5, <2>2, <2>3, <2>4
<1>10. v[1] = C!Quote /\ Len(v) >= 1
  <2>1. 1 \in 1..n /\ 1 \in 1..(n + 1)
    BY <1>5
  <2> QED
    BY <1>4, <1>5, <1>6, <2>1
<1>11. OpenString(v, Append(text, c))
  BY <1>6, <1>8, <1>9, <1>10 DEF OpenString, s
<1> QED
  BY <1>11 DEF v, u

(* The quoted text, up to its closing quote, is an open string.            *)
Quoted(q, value) ==
  /\ q \in Seq(Chars) /\ Len(q) >= 2 /\ q[1] = C!Quote /\ q[Len(q)] = C!Quote
  /\ C!Scan(q)[Len(q) - 1] = [state |-> "string", read |-> value]
  /\ C!Scan(q)[Len(q)].state = "code"
  /\ \A i \in 2..Len(q) : C!Scan(q)[i - 1].state # "code"
  /\ \A i \in 2..(Len(q) - 1) :
       ~(C!Scan(q)[i - 1].state = "string" /\ q[i] = C!Quote)

(* luaQuote closes the string it opened and nothing before its end does.   *)
LEMMA QuoteIsQuoted ==
  ASSUME NEW value \in Seq(Chars)
  PROVE  Quoted(C!LuaQuote(value), value)
<1> DEFINE m == Len(value)
<1>1. m \in Nat
  BY LenProperties
<1>2. PICK w : /\ C!LuaQuote(value) = Append(w[m], C!Quote)
               /\ w[0] = <<C!Quote>>
               /\ \A i \in 1..m : w[i] = w[i - 1] \o C!Escape(value[i])
  BY <1>1, QuotingIs
<1> DEFINE G == {k \in Nat : k <= m => OpenString(w[k], SubSeq(value, 1, k))}
<1>3. 0 \in G
  <2>1. SubSeq(value, 1, 0) = <<>>
    BY SubSeqEmpty
  <2> QED
    BY <1>2, <2>1, StringOpens
<1>4. ASSUME NEW k \in Nat, k \in G PROVE k + 1 \in G
  <2> SUFFICES ASSUME k + 1 <= m PROVE OpenString(w[k + 1], SubSeq(value, 1, k + 1))
    OBVIOUS
  <2> DEFINE t == w[k]
             c == value[k + 1]
             text == SubSeq(value, 1, k)
  <2>1. k <= m /\ k + 1 \in 1..m /\ (k + 1) - 1 = k /\ k \in 0..m
    BY <1>1
  <2>2. OpenString(t, text)
    BY <1>4, <2>1
  <2>3. w[k + 1] = t \o C!Escape(c)
    BY <1>2, <2>1
  <2>4. c \in Chars
    BY <1>1, <2>1, ElementOfSeq
  <2>5. SubSeq(value, 1, k + 1) = Append(text, c)
    <3>1. /\ \A i \in 1..(k + 1) : value[i] \in Chars
          /\ \A i \in 1..k : value[i] \in Chars
      BY <1>1, <2>1, ElementOfSeq
    <3> DEFINE x == SubSeq(value, 1, k + 1)
               y == Append(text, c)
    <3>2. /\ x \in Seq(Chars) /\ Len(x) = k + 1
          /\ \A i \in 1..(k + 1) : x[i] = value[i]
      <4>1. /\ 1 <= k + 1 /\ (k + 1) - 1 + 1 = k + 1 /\ k + 1 \in Int
            /\ \A i \in 1..(k + 1) : 1 + i - 1 = i
        BY <2>1
      <4> QED
        BY <3>1, <4>1, SubSeqProperties
    <3>3. /\ text \in Seq(Chars) /\ Len(text) = k
          /\ \A i \in 1..k : text[i] = value[i]
      <4>1. /\ k - 1 + 1 = k /\ k \in Int /\ (IF 1 <= k THEN k ELSE 0) = k
            /\ \A i \in 1..k : 1 + i - 1 = i
        BY <2>1
      <4> QED
        BY <3>1, <4>1, SubSeqProperties
    <3> HIDE DEF x, text, c
    <3>4. /\ y \in Seq(Chars) /\ Len(y) = k + 1 /\ y[k + 1] = c
          /\ \A i \in 1..k : y[i] = text[i]
      BY <2>4, <3>3, AppendProperties
    <3> HIDE DEF y
    <3>5. ASSUME NEW i \in 1..(k + 1) PROVE x[i] = y[i]
      <4>1. CASE i = k + 1
        BY <3>2, <3>4, <4>1 DEF c
      <4>2. CASE i \in 1..k
        BY <3>2, <3>3, <3>4, <4>2
      <4> QED
        BY <4>1, <4>2
    <3>6. x = y
      BY <3>2, <3>4, <3>5, SeqEqual
    <3> QED
      BY <3>6 DEF x, y
  <2> HIDE DEF t, c, text
  <2>6. CASE c \in {C!Quote, C!Slash}
    <3>1. C!Escape(c) = <<C!Slash, c>>
      BY <2>6 DEF C!Escape
    <3>2. t \o <<C!Slash, c>> = Append(Append(t, C!Slash), c)
      <4>1. t \in Seq(Chars) /\ C!Slash \in Chars
        BY <2>2, CharsDiffer DEF OpenString
      <4> QED
        BY <2>4, <4>1
    <3> QED
      BY <2>2, <2>3, <2>4, <2>5, <3>1, <3>2, EscapeWritten
  <2>7. CASE c \notin {C!Quote, C!Slash}
    <3>1. C!Escape(c) = <<c>>
      BY <2>7 DEF C!Escape
    <3>2. t \o <<c>> = Append(t, c)
      <4>1. t \in Seq(Chars)
        BY <2>2 DEF OpenString
      <4> QED
        BY <2>4, <4>1
    <3> QED
      BY <2>2, <2>3, <2>4, <2>5, <2>7, <3>1, <3>2, PlainWritten
  <2> QED
    BY <2>6, <2>7
<1> HIDE DEF G
<1>5. m \in G
  BY <1>1, <1>3, <1>4, Inductive
<1>6. SubSeq(value, 1, m) = value
  BY SubSeqFull
<1> DEFINE t == w[m]
           q == Append(t, C!Quote)
           n == Len(t)
           s == [state |-> "code", read |-> value]
<1>7. OpenString(t, value)
  <2>1. m <= m
    BY <1>1
  <2>2. OpenString(w[m], SubSeq(value, 1, m))
    BY <1>5, <2>1 DEF G
  <2> QED
    BY <1>6, <2>2
<1>8. C!After([state |-> "string", read |-> value], C!Quote) = s
  BY CharsDiffer DEF C!After
<1> HIDE DEF t, s
<1>9. /\ q \in Seq(Chars) /\ Len(q) = n + 1 /\ q[n + 1] = C!Quote
      /\ \A i \in 1..n : q[i] = t[i]
      /\ \A i \in 0..n : C!Scan(q)[i] = C!Scan(t)[i]
      /\ C!Scan(q)[n + 1] = s
  BY <1>7, <1>8, CharsDiffer, StringGrows
<1>10. /\ n \in Nat /\ n >= 1 /\ t[1] = C!Quote
       /\ C!Scan(t)[n] = [state |-> "string", read |-> value]
       /\ \A i \in 2..n : /\ C!Scan(t)[i - 1].state # "code"
                          /\ ~(C!Scan(t)[i - 1].state = "string" /\ t[i] = C!Quote)
  BY <1>7, LenProperties DEF OpenString
<1>11. q = C!LuaQuote(value)
  BY <1>2 DEF t
<1> HIDE DEF q, n
<1>12. C!Scan(q)[n] = [state |-> "string", read |-> value] /\ n \in 0..n
  BY <1>9, <1>10
<1>13. ASSUME NEW i \in 2..n
       PROVE  /\ C!Scan(q)[i - 1].state # "code"
              /\ ~(C!Scan(q)[i - 1].state = "string" /\ q[i] = C!Quote)
  <2>1. i - 1 \in 0..n /\ i \in 1..n
    BY <1>10
  <2>2. C!Scan(q)[i - 1] = C!Scan(t)[i - 1] /\ q[i] = t[i]
    BY <1>9, <2>1
  <2> QED
    BY <1>10, <2>2
<1>14. C!Scan(q)[(n + 1) - 1].state # "code"
  <2>1. (n + 1) - 1 = n
    BY <1>10
  <2> QED
    BY <1>12, <2>1
<1>15. Quoted(q, value)
  <2>1. /\ Len(q) >= 2 /\ Len(q) - 1 = n /\ 1 \in 1..n
        /\ \A i \in 2..Len(q) : i \in 2..n \/ i = n + 1
    BY <1>9, <1>10
  <2>2. q[1] = C!Quote /\ q[Len(q)] = C!Quote /\ C!Scan(q)[Len(q)].state = "code"
    BY <1>9, <1>10, <2>1 DEF s
  <2>3. \A i \in 2..Len(q) : C!Scan(q)[i - 1].state # "code"
    BY <1>13, <1>14, <2>1
  <2> QED
    BY <1>9, <1>12, <1>13, <2>1, <2>2, <2>3 DEF Quoted
<1> QED
  BY <1>11, <1>15

(* The least and the greatest number of a set of places.                   *)
LEMMA LeastPlace ==
  ASSUME NEW n \in Nat, NEW T, T \subseteq 1..n, T # {}
  PROVE  /\ C!Min(T) \in T /\ \A y \in T : C!Min(T) <= y
         /\ C!Max(T) \in T /\ \A y \in T : y <= C!Max(T)
<1>1. T \subseteq Nat
  OBVIOUS
<1>2. \E x \in T : \A y \in T : x <= y
  BY <1>1, Least
<1>3. \E x \in T : \A y \in T : x >= y
  <2> DEFINE U == {n - x : x \in T}
  <2>1. U \subseteq Nat /\ U # {}
    <3>1. \A x \in T : x \in 1..n
      OBVIOUS
    <3>2. \A x \in 1..n : n - x \in Nat
      OBVIOUS
    <3> QED
      BY <3>1, <3>2
  <2> HIDE DEF U
  <2>2. PICK u \in U : \A z \in U : u <= z
    BY <2>1, Least
  <2>3. PICK x \in T : u = n - x
    BY <2>2 DEF U
  <2>4. ASSUME NEW y \in T PROVE x >= y
    <3>1. u <= n - y
      BY <2>2 DEF U
    <3>2. x \in Int /\ y \in Int
      BY <1>1
    <3> QED
      BY <2>3, <3>1, <3>2
  <2> QED
    BY <2>4
<1>4. C!Min(T) = CHOOSE x \in T : \A y \in T : x <= y
  BY DEF C!Min
<1>5. C!Max(T) = CHOOSE x \in T : \A y \in T : x >= y
  BY DEF C!Max
<1>6. C!Min(T) \in T /\ \A y \in T : C!Min(T) <= y
  BY <1>2, <1>4
<1>7. C!Max(T) \in T /\ \A y \in T : C!Max(T) >= y
  BY <1>3, <1>5
<1>8. C!Max(T) \in Nat /\ \A y \in T : y \in Nat
  BY <1>1, <1>7
<1> QED
  BY <1>6, <1>7, <1>8

(* The place First finds.                                                  *)
LEMMA FirstIs ==
  ASSUME NEW n \in Nat, NEW T, T \subseteq 1..n, NEW k \in T, \A y \in T : k <= y,
         NEW other
  PROVE  C!First(T, other) = k
<1>1. T # {}
  OBVIOUS
<1>2. C!Min(T) \in T /\ \A y \in T : C!Min(T) <= y
  BY <1>1, LeastPlace
<1>3. C!Min(T) \in 1..n /\ k \in 1..n
  BY <1>2
<1>4. C!Min(T) <= k /\ k <= C!Min(T)
  BY <1>2
<1>5. C!Min(T) = k
  BY <1>3, <1>4
<1> QED
  BY <1>1, <1>5 DEF C!First

(* Without a place it is the other value.                                  *)
LEMMA FirstOfNone ==
  ASSUME NEW other
  PROVE  C!First({}, other) = other
BY DEF C!First

(* What was quoted is read back.                                           *)
LEMMA QuotedIsRead ==
  ASSUME NEW q, NEW value, Quoted(q, value)
  PROVE  C!LuaString(q) = value
<1> DEFINE n == Len(q)
           T == {i \in 2..n : C!Scan(q)[i - 1].state = "string" /\ q[i] = C!Quote}
<1>1. /\ q \in Seq(Chars) /\ n \in Nat /\ n >= 2 /\ q[n] = C!Quote
      /\ C!Scan(q)[n - 1] = [state |-> "string", read |-> value]
  BY LenProperties DEF Quoted
<1>2. n \in T
  BY <1>1
<1>3. \A i \in T : i = n
  <2> SUFFICES ASSUME NEW i \in T, i # n PROVE FALSE
    OBVIOUS
  <2>1. i \in 2..(n - 1)
    BY <1>1
  <2> QED
    BY <2>1 DEF Quoted
<1>4. T \subseteq 1..n
  BY <1>1
<1>5. C!LuaString(q) = C!Scan(q)[C!First(T, n + 1) - 1].read
  BY DEF C!LuaString
<1> HIDE DEF T, n
<1>6. \A y \in T : n <= y
  BY <1>1, <1>3
<1>7. C!First(T, n + 1) = n
  BY <1>1, <1>2, <1>4, <1>6, FirstIs
<1> QED
  BY <1>1, <1>5, <1>7

(* Where the text begins that is not blank.                                *)
Leads(text, s) ==
  /\ s \in 1..(Len(text) + 1)
  /\ \A i \in 1..(s - 1) : text[i] = C!Blank
  /\ s <= Len(text) => text[s] # C!Blank

(* The first character that is not blank.                                  *)
LEMMA VisibleFrom ==
  ASSUME NEW text \in Seq(Chars)
  PROVE  /\ Leads(text, C!First(C!Visible(text), Len(text) + 1))
         /\ \A s : Leads(text, s) => C!First(C!Visible(text), Len(text) + 1) = s
<1> DEFINE n == Len(text)
           T == C!Visible(text)
<1>1. n \in Nat /\ DOMAIN text = 1..n
  BY LenProperties
<1>2. T = {i \in 1..n : text[i] # C!Blank}
  BY <1>1 DEF C!Visible
<1>3. CASE T = {}
  <2>1. C!First(T, n + 1) = n + 1
    BY <1>3, FirstOfNone
  <2>2. \A i \in 1..n : text[i] = C!Blank
    BY <1>2, <1>3
  <2>3. Leads(text, n + 1)
    BY <1>1, <2>2 DEF Leads
  <2>4. ASSUME NEW s, Leads(text, s) PROVE s = n + 1
    <3>1. s \in 1..(n + 1) /\ (s <= n => text[s] # C!Blank)
      BY <2>4 DEF Leads
    <3>2. ~(s <= n)
      BY <1>1, <2>2, <3>1
    <3> QED
      BY <1>1, <3>1, <3>2
  <2> QED
    BY <2>1, <2>3, <2>4
<1>4. CASE T # {}
  <2> DEFINE k == C!Min(T)
  <2>1. T \subseteq 1..n
    BY <1>2
  <2>2. k \in T /\ \A y \in T : k <= y
    BY <1>1, <1>4, <2>1, LeastPlace
  <2>3. C!First(T, n + 1) = k
    BY <1>4 DEF C!First
  <2> HIDE DEF k
  <2>4. k \in 1..n /\ text[k] # C!Blank
    BY <1>2, <2>2
  <2>5. ASSUME NEW i \in 1..(k - 1) PROVE text[i] = C!Blank
    <3>1. i \in 1..n /\ ~(k <= i)
      BY <1>1, <2>4
    <3> QED
      BY <1>2, <2>2, <3>1
  <2>6. Leads(text, k)
    BY <1>1, <2>4, <2>5 DEF Leads
  <2>7. ASSUME NEW s, Leads(text, s) PROVE s = k
    <3>1. /\ s \in 1..(n + 1) /\ (s <= n => text[s] # C!Blank)
          /\ \A i \in 1..(s - 1) : text[i] = C!Blank
      BY <2>7 DEF Leads
    <3>2. ~(k < s)
      <4>1. k < s => k \in 1..(s - 1)
        BY <1>1, <2>4, <3>1
      <4> QED
        BY <2>4, <3>1, <4>1
    <3>3. ~(s < k)
      <4>1. s < k => s \in 1..(k - 1) /\ s <= n
        BY <1>1, <2>4, <3>1
      <4> QED
        BY <2>5, <3>1, <4>1
    <3> QED
      BY <1>1, <2>4, <3>1, <3>2, <3>3
  <2> QED
    BY <2>3, <2>6, <2>7
<1> QED
  BY <1>3, <1>4

(* A text without the blanks at its ends.                                  *)
Spans(text, a, b) ==
  /\ a \in 1..Len(text) /\ b \in 1..Len(text) /\ a <= b
  /\ text[a] # C!Blank /\ text[b] # C!Blank
  /\ \A i \in 1..(a - 1) : text[i] = C!Blank
  /\ \A i \in (b + 1)..Len(text) : text[i] = C!Blank

(* strings.TrimSpace: nothing of a blank text, else what the text spans.   *)
LEMMA TrimIs ==
  ASSUME NEW text \in Seq(Chars)
  PROVE  /\ \/ C!Trim(text) = <<>> /\ \A i \in 1..Len(text) : text[i] = C!Blank
            \/ \E a, b \in 1..Len(text) : Spans(text, a, b) /\ C!Trim(text) = SubSeq(text, a, b)
         /\ \A a, b : Spans(text, a, b) => C!Trim(text) = SubSeq(text, a, b)
<1> DEFINE n == Len(text)
           T == C!Visible(text)
           k == C!Min(T)
           m == C!Max(T)
<1>1. n \in Nat /\ DOMAIN text = 1..n
  BY LenProperties
<1>2. T = {i \in 1..n : text[i] # C!Blank}
  BY <1>1 DEF C!Visible
<1>3. C!Trim(text) = IF T = {} THEN <<>> ELSE SubSeq(text, k, m)
  BY DEF C!Trim
<1>4. CASE T = {}
  <2>1. \A i \in 1..n : text[i] = C!Blank
    BY <1>2, <1>4
  <2>2. \A a, b : ~Spans(text, a, b)
    BY <2>1 DEF Spans
  <2> QED
    BY <1>3, <1>4, <2>1, <2>2
<1>5. CASE T # {}
  <2>1. T \subseteq 1..n
    BY <1>2
  <2>2. /\ k \in T /\ \A y \in T : k <= y
        /\ m \in T /\ \A y \in T : y <= m
    BY <1>1, <1>5, <2>1, LeastPlace
  <2> HIDE DEF k, m
  <2>3. k \in 1..n /\ m \in 1..n /\ k <= m /\ text[k] # C!Blank /\ text[m] # C!Blank
    BY <1>2, <2>2
  <2>4. ASSUME NEW i \in 1..(k - 1) PROVE text[i] = C!Blank
    <3>1. i \in 1..n /\ ~(k <= i)
      BY <1>1, <2>3
    <3> QED
      BY <1>2, <2>2, <3>1
  <2>5. ASSUME NEW i \in (m + 1)..n PROVE text[i] = C!Blank
    <3>1. i \in 1..n /\ ~(i <= m)
      BY <1>1, <2>3
    <3> QED
      BY <1>2, <2>2, <3>1
  <2>6. Spans(text, k, m)
    BY <2>3, <2>4, <2>5 DEF Spans
  <2>7. ASSUME NEW a, NEW b, Spans(text, a, b) PROVE a = k /\ b = m
    <3>1. /\ a \in 1..n /\ b \in 1..n /\ text[a] # C!Blank /\ text[b] # C!Blank
          /\ \A i \in 1..(a - 1) : text[i] = C!Blank
          /\ \A i \in (b + 1)..n : text[i] = C!Blank
      BY <2>7 DEF Spans
    <3>2. k <= a /\ b <= m
      BY <1>2, <2>2, <3>1
    <3>3. k \notin 1..(a - 1) /\ m \notin (b + 1)..n
      BY <2>3, <3>1
    <3> QED
      BY <1>1, <2>3, <3>1, <3>2, <3>3
  <2> QED
    BY <1>3, <1>5, <2>3, <2>6, <2>7
<1> QED
  BY <1>4, <1>5

(* Where a comment starts.                                                 *)
Opens(text, i) ==
  /\ i + 1 <= Len(text) /\ C!Scan(text)[i - 1].state = "code"
  /\ text[i] = C!Dash /\ text[i + 1] = C!Dash

CommentAt(text, c) ==
  /\ c \in 1..(Len(text) + 1)
  /\ \A i \in 1..(c - 1) : ~Opens(text, i)
  /\ c <= Len(text) => Opens(text, c)

(* luaCommentIndex finds the first two dashes outside a string.            *)
LEMMA CommentIs ==
  ASSUME NEW text \in Seq(Chars)
  PROVE  /\ CommentAt(text, C!LuaComment(text))
         /\ \A c : CommentAt(text, c) => C!LuaComment(text) = c
<1> DEFINE n == Len(text)
           T == {i \in 1..(n - 1) : /\ C!Scan(text)[i - 1].state = "code"
                                    /\ text[i] = C!Dash /\ text[i + 1] = C!Dash}
<1>1. n \in Nat
  BY LenProperties
<1>2. C!LuaComment(text) = C!First(T, n + 1)
  BY DEF C!LuaComment
<1>3. T \subseteq 1..n /\ \A i \in 1..n : i \in T <=> Opens(text, i)
  <2>1. \A i \in 1..n : i \in 1..(n - 1) <=> i + 1 <= n
    BY <1>1
  <2>2. \A i \in 1..(n - 1) : i \in 1..n
    BY <1>1
  <2> QED
    BY <2>1, <2>2 DEF Opens
<1> HIDE DEF T
<1>4. CASE T = {}
  <2>1. C!First(T, n + 1) = n + 1
    BY <1>4, FirstOfNone
  <2>2. \A i \in 1..n : ~Opens(text, i)
    BY <1>3, <1>4
  <2>3. CommentAt(text, n + 1)
    BY <1>1, <2>2 DEF CommentAt
  <2>4. ASSUME NEW c, CommentAt(text, c) PROVE c = n + 1
    <3>1. c \in 1..(n + 1) /\ (c <= n => Opens(text, c))
      BY <2>4 DEF CommentAt
    <3>2. ~(c <= n)
      BY <1>1, <2>2, <3>1
    <3> QED
      BY <1>1, <3>1, <3>2
  <2> QED
    BY <1>2, <2>1, <2>3, <2>4
<1>5. CASE T # {}
  <2> DEFINE k == C!Min(T)
  <2>1. k \in T /\ \A y \in T : k <= y
    BY <1>1, <1>3, <1>5, LeastPlace
  <2>2. C!First(T, n + 1) = k
    BY <1>5 DEF C!First
  <2> HIDE DEF k
  <2>3. k \in 1..n /\ Opens(text, k)
    BY <1>3, <2>1
  <2>4. ASSUME NEW i \in 1..(k - 1) PROVE ~Opens(text, i)
    <3>1. i \in 1..n /\ ~(k <= i)
      BY <1>1, <2>3
    <3> QED
      BY <1>3, <2>1, <3>1
  <2>5. CommentAt(text, k)
    BY <1>1, <2>3, <2>4 DEF CommentAt
  <2>6. ASSUME NEW c, CommentAt(text, c) PROVE c = k
    <3>1. /\ c \in 1..(n + 1) /\ (c <= n => Opens(text, c))
          /\ \A i \in 1..(c - 1) : ~Opens(text, i)
      BY <2>6 DEF CommentAt
    <3>2. ~(k < c)
      <4>1. k < c => k \in 1..(c - 1)
        BY <1>1, <2>3, <3>1
      <4> QED
        BY <2>3, <3>1, <4>1
    <3>3. ~(c < k)
      <4>1. c < k => c \in 1..(k - 1) /\ c <= n
        BY <1>1, <2>3, <3>1
      <4> QED
        BY <2>4, <3>1, <4>1
    <3> QED
      BY <1>1, <2>3, <3>1, <3>2, <3>3
  <2> QED
    BY <1>2, <2>2, <2>5, <2>6
<1> QED
  BY <1>4, <1>5

(* The end of a text.                                                      *)
LEMMA SuffixIs ==
  ASSUME NEW s \in Seq(Chars), NEW u \in Seq(Chars), Len(s) <= Len(u),
         \A i \in 1..Len(s) : s[i] = u[Len(u) - Len(s) + i]
  PROVE  C!IsSuffix(s, u)
<1> DEFINE m == Len(s)
           n == Len(u)
           x == C!Reverse(s)
           y == C!Reverse(u)
<1>1. m \in Nat /\ n \in Nat /\ m <= n
  BY LenProperties
<1>2. x = [i \in 1..m |-> s[(m - i) + 1]] /\ y = [i \in 1..n |-> u[(n - i) + 1]]
  BY DEF C!Reverse
<1>3. /\ \A i \in 1..m : (m - i) + 1 \in 1..m
      /\ \A i \in 1..n : (n - i) + 1 \in 1..n
  BY <1>1
<1>4. /\ \A i \in 1..m : s[(m - i) + 1] \in Chars
      /\ \A i \in 1..n : u[(n - i) + 1] \in Chars
  BY <1>3, ElementOfSeq
<1> HIDE DEF x, y
<1>5. x \in Seq(Chars) /\ Len(x) = m /\ \A i \in 1..m : x[i] = s[(m - i) + 1]
  <2>1. x \in [1..m -> Chars]
    BY <1>2, <1>4
  <2> QED
    BY <1>1, <1>2, <2>1
<1>6. y \in Seq(Chars) /\ Len(y) = n /\ \A i \in 1..n : y[i] = u[(n - i) + 1]
  <2>1. y \in [1..n -> Chars]
    BY <1>2, <1>4
  <2> QED
    BY <1>1, <1>2, <2>1
<1> DEFINE v == SubSeq(x, 1, m)
           w == SubSeq(y, 1, m)
<1>7. v = x
  BY <1>5, SubSeqFull
<1>8. w \in Seq(Chars) /\ Len(w) = m /\ \A i \in 1..m : w[i] = y[i]
  <2>1. \A i \in 1..m : y[i] \in Chars
    <3>1. \A i \in 1..m : i \in 1..Len(y)
      BY <1>1, <1>6
    <3> QED
      BY <1>6, <3>1, ElementOfSeq
  <2>2. /\ (IF 1 <= m THEN m - 1 + 1 ELSE 0) = m /\ m - 1 + 1 = m
        /\ \A i \in 1..m : 1 + i - 1 = i
    BY <1>1
  <2>3. m \in Int
    BY <1>1
  <2> QED
    BY <2>1, <2>2, <2>3, SubSeqProperties
<1> HIDE DEF v, w
<1>9. ASSUME NEW i \in 1..m PROVE x[i] = w[i]
  <2>1. (m - i) + 1 \in 1..m /\ i \in 1..n /\ (n - i) + 1 = n - m + ((m - i) + 1)
    BY <1>1
  <2>2. s[(m - i) + 1] = u[(n - i) + 1]
    BY <2>1
  <2> QED
    BY <1>5, <1>6, <1>8, <2>1, <2>2
<1>10. x = w
  BY <1>5, <1>8, <1>9, SeqEqual
<1>11. C!IsPrefix(x, y)
  BY <1>1, <1>5, <1>6, <1>7, <1>10 DEF C!IsPrefix, v, w
<1> QED
  BY <1>11 DEF C!IsSuffix, x, y

(* The part of a text from one place to another.                           *)
LEMMA PartIs ==
  ASSUME NEW text \in Seq(Chars), NEW a \in Nat, NEW b \in Nat,
         1 <= a, a <= b + 1, b <= Len(text)
  PROVE  /\ SubSeq(text, a, b) \in Seq(Chars)
         /\ Len(SubSeq(text, a, b)) = b - a + 1
         /\ \A i \in 1..(b - a + 1) : SubSeq(text, a, b)[i] = text[(a - 1) + i]
<1>1. Len(text) \in Nat
  BY LenProperties
<1>2. \A i \in a..b : i \in 1..Len(text)
  BY <1>1
<1>3. \A i \in a..b : text[i] \in Chars
  BY <1>2, ElementOfSeq
<1>4. /\ SubSeq(text, a, b) \in Seq(Chars)
      /\ Len(SubSeq(text, a, b)) = IF a <= b THEN b - a + 1 ELSE 0
      /\ \A i \in 1..(b - a + 1) : SubSeq(text, a, b)[i] = text[a + i - 1]
  BY <1>3, SubSeqProperties
<1>5. (IF a <= b THEN b - a + 1 ELSE 0) = b - a + 1
  OBVIOUS
<1>6. \A i \in 1..(b - a + 1) : a + i - 1 = (a - 1) + i
  OBVIOUS
<1> QED
  BY <1>4, <1>5, <1>6

(* A line with a new value between its first s - 1 characters and those    *)
(* behind p.                                                               *)
Splice(l, s, p, v) == SubSeq(l, 1, s - 1) \o v \o SubSeq(l, p + 1, Len(l))

(* Character by character: the old line, the value, the old line.          *)
LEMMA SpliceIs ==
  ASSUME NEW l \in Seq(Chars), NEW v \in Seq(Chars),
         NEW s \in 1..(Len(l) + 1), NEW p \in (s - 1)..Len(l)
  PROVE  LET u == Splice(l, s, p, v)
             m == (s - 1) + Len(v)
         IN  /\ u \in Seq(Chars) /\ Len(u) = m + (Len(l) - p)
             /\ \A i \in 1..(s - 1) : u[i] = l[i]
             /\ \A i \in 1..Len(v) : u[(s - 1) + i] = v[i]
             /\ \A i \in 1..(Len(l) - p) : u[m + i] = l[p + i]
<1> DEFINE n == Len(l)
           k == Len(v)
           a == SubSeq(l, 1, s - 1)
           b == SubSeq(l, p + 1, n)
           f == a \o v
           u == f \o b
           m == (s - 1) + k
<1>1. n \in Nat /\ k \in Nat /\ s - 1 \in Nat /\ p \in Nat /\ s - 1 <= p /\ p <= n
  BY LenProperties
<1>2. a \in Seq(Chars) /\ Len(a) = s - 1 /\ \A i \in 1..(s - 1) : a[i] = l[i]
  <2>1. 1 \in Nat /\ 1 <= (s - 1) + 1 /\ s - 1 <= n /\ (s - 1) - 1 + 1 = s - 1
        /\ \A i \in 1..(s - 1) : (1 - 1) + i = i
    BY <1>1
  <2> QED
    BY <1>1, <2>1, PartIs
<1>3. b \in Seq(Chars) /\ Len(b) = n - p /\ \A i \in 1..(n - p) : b[i] = l[p + i]
  <2> DEFINE q == p + 1
             d == SubSeq(l, q, n)
  <2>1. q \in Nat /\ 1 <= q /\ q <= n + 1 /\ n - q + 1 = n - p
        /\ \A i \in 1..(n - p) : (q - 1) + i = p + i
    BY <1>1
  <2>2. b = d
    OBVIOUS
  <2> HIDE DEF q, b
  <2>3. /\ d \in Seq(Chars) /\ Len(d) = n - q + 1
        /\ \A i \in 1..(n - q + 1) : d[i] = l[(q - 1) + i]
    BY <1>1, <2>1, PartIs
  <2> QED
    BY <2>1, <2>2, <2>3
<1> HIDE DEF a, b, n, k
<1>4. /\ f \in Seq(Chars) /\ Len(f) = m
      /\ \A i \in 1..m : f[i] = IF i <= s - 1 THEN a[i] ELSE v[i - (s - 1)]
  <2>1. /\ f \in Seq(Chars) /\ Len(f) = Len(a) + k
        /\ \A i \in 1..(Len(a) + k) : f[i] = IF i <= Len(a) THEN a[i] ELSE v[i - Len(a)]
    BY <1>2, ConcatProperties DEF k
  <2> QED
    BY <1>2, <2>1
<1> HIDE DEF f
<1>5. m \in Nat
  BY <1>1
<1> HIDE DEF m
<1>6. /\ u \in Seq(Chars) /\ Len(u) = m + (n - p)
      /\ \A i \in 1..(m + (n - p)) : u[i] = IF i <= m THEN f[i] ELSE b[i - m]
  <2>1. /\ u \in Seq(Chars) /\ Len(u) = Len(f) + Len(b)
        /\ \A i \in 1..(Len(f) + Len(b)) : u[i] = IF i <= Len(f) THEN f[i] ELSE b[i - Len(f)]
    BY <1>3, <1>4, ConcatProperties
  <2> QED
    BY <1>3, <1>4, <2>1
<1> HIDE DEF u
<1>7. ASSUME NEW i \in 1..(s - 1) PROVE u[i] = l[i]
  <2>1. i \in 1..m /\ i <= m /\ i \in 1..(m + (n - p)) /\ i <= s - 1
    BY <1>1 DEF m
  <2> QED
    BY <1>2, <1>4, <1>6, <2>1
<1>8. ASSUME NEW i \in 1..k PROVE u[(s - 1) + i] = v[i]
  <2>1. /\ (s - 1) + i \in 1..m /\ (s - 1) + i <= m /\ (s - 1) + i \in 1..(m + (n - p))
        /\ ~((s - 1) + i <= s - 1) /\ ((s - 1) + i) - (s - 1) = i
    BY <1>1 DEF m
  <2> QED
    BY <1>4, <1>6, <2>1
<1>9. ASSUME NEW i \in 1..(n - p) PROVE u[m + i] = l[p + i]
  <2>1. m + i \in 1..(m + (n - p)) /\ ~(m + i <= m) /\ (m + i) - m = i
    BY <1>1, <1>5
  <2> QED
    BY <1>3, <1>6, <2>1
<1>10. u = Splice(l, s, p, v)
  BY DEF Splice, u, f, a, b, n
<1> QED
  BY <1>6, <1>7, <1>8, <1>9, <1>10 DEF m, n, k

(* What stood behind the value still ends the line.                        *)
LEMMA SpliceEnds ==
  ASSUME NEW l \in Seq(Chars), NEW v \in Seq(Chars),
         NEW s \in 1..(Len(l) + 1), NEW p \in (s - 1)..Len(l),
         NEW c \in (p + 1)..(Len(l) + 1)
  PROVE  C!IsSuffix(SubSeq(l, c, Len(l)), Splice(l, s, p, v))
<1> DEFINE n == Len(l)
           u == Splice(l, s, p, v)
           m == (s - 1) + Len(v)
           x == SubSeq(l, c, n)
<1>1. n \in Nat /\ Len(v) \in Nat /\ s - 1 \in Nat /\ p \in Nat /\ p <= n /\ m \in Nat
  BY LenProperties
<1>2. /\ u \in Seq(Chars) /\ Len(u) = m + (n - p)
      /\ \A i \in 1..(n - p) : u[m + i] = l[p + i]
  BY SpliceIs
<1>3. /\ x \in Seq(Chars) /\ Len(x) = n - c + 1
      /\ \A i \in 1..(n - c + 1) : x[i] = l[(c - 1) + i]
  <2>1. c \in Nat /\ 1 <= c /\ c <= n + 1
    BY <1>1
  <2> QED
    BY <1>1, <2>1, PartIs
<1> HIDE DEF u, m, x, n
<1>4. c \in Nat /\ p + 1 <= c /\ c <= n + 1
  BY <1>1 DEF n
<1>5. Len(x) <= Len(u)
  BY <1>1, <1>2, <1>3, <1>4
<1>6. ASSUME NEW i \in 1..Len(x) PROVE x[i] = u[Len(u) - Len(x) + i]
  <2>1. /\ i \in 1..(n - c + 1)
        /\ ((c - 1) - p) + i \in 1..(n - p) /\ p + (((c - 1) - p) + i) = (c - 1) + i
        /\ Len(u) - Len(x) + i = m + (((c - 1) - p) + i)
    BY <1>1, <1>2, <1>3, <1>4
  <2> QED
    BY <1>2, <1>3, <2>1
<1>7. C!IsSuffix(x, u)
  BY <1>2, <1>3, <1>5, <1>6, SuffixIs
<1> QED
  BY <1>7 DEF x, u, n

(* The place of the value in a line of config.lua: what stands before it   *)
(* and between it and the comment is blank.                                *)
ValueAt(l, s, p, c) ==
  /\ Leads(l, s) /\ CommentAt(l, c)
  /\ p \in (s - 1)..Len(l) /\ c \in (p + 1)..(Len(l) + 1)
  /\ \A i \in (p + 1)..(c - 1) : l[i] = C!Blank

(* setLua replaces the characters from s to p.                             *)
LEMMA LuaPlaces ==
  ASSUME NEW l \in Seq(Chars)
  PROVE  \E s, p : /\ ValueAt(l, s, p, C!LuaComment(l))
                   /\ \A v : C!SetLua(l, v) = Splice(l, s, p, C!LuaQuote(v))
<1> DEFINE n == Len(l)
           c == C!LuaComment(l)
           t == SubSeq(l, 1, c - 1)
           s == C!First(C!Visible(l), n + 1)
           e == Len(C!LuaExpression(l))
           p == (s + e) - 1
<1>1. n \in Nat
  BY LenProperties
<1>2. CommentAt(l, c)
  BY CommentIs
<1>3. Leads(l, s) /\ \A a : Leads(l, a) => s = a
  BY VisibleFrom
<1>4. C!LuaExpression(l) = C!Trim(t)
  BY DEF C!LuaExpression
<1>5. c \in 1..(n + 1) /\ s \in 1..(n + 1)
  BY <1>2, <1>3 DEF CommentAt, Leads
<1>6. /\ t \in Seq(Chars) /\ Len(t) = c - 1
      /\ \A i \in 1..(c - 1) : t[i] = l[i]
  <2> DEFINE d == c - 1
  <2>1. 1 \in Nat /\ d \in Nat /\ 1 <= d + 1 /\ d <= n /\ d - 1 + 1 = d
        /\ \A i \in 1..d : (1 - 1) + i = i
    BY <1>1, <1>5
  <2> HIDE DEF d, c
  <2>2. /\ SubSeq(l, 1, d) \in Seq(Chars) /\ Len(SubSeq(l, 1, d)) = d - 1 + 1
        /\ \A i \in 1..(d - 1 + 1) : SubSeq(l, 1, d)[i] = l[(1 - 1) + i]
    BY <1>1, <2>1, PartIs
  <2> QED
    BY <2>1, <2>2 DEF d
<1>7. \A v : C!SetLua(l, v) = SubSeq(l, 1, s - 1) \o C!LuaQuote(v) \o SubSeq(l, s + e, n)
  BY DEF C!SetLua
<1> HIDE DEF t, s, c, n
<1>8. c <= n => l[c] # C!Blank
  BY <1>2, CharsDiffer DEF CommentAt, Opens, n
<1>9. CASE C!Trim(t) = <<>> /\ \A i \in 1..Len(t) : t[i] = C!Blank
  <2>1. e = 0 /\ p = s - 1
    BY <1>4, <1>5, <1>9
  <2>2. \A i \in 1..(c - 1) : l[i] = C!Blank
    BY <1>6, <1>9
  <2>3. Leads(l, c)
    BY <1>5, <1>8, <2>2 DEF Leads, n
  <2>4. s = c
    BY <1>3, <2>3
  <2>5. /\ p \in (s - 1)..n /\ c \in (p + 1)..(n + 1)
        /\ \A i \in (p + 1)..(c - 1) : l[i] = C!Blank
    BY <1>1, <1>5, <2>1, <2>4
  <2>6. ValueAt(l, s, p, c)
    BY <1>2, <1>3, <2>5 DEF ValueAt, n
  <2>7. p + 1 = s + e
    BY <1>5, <2>1
  <2>8. \A v : C!SetLua(l, v) = Splice(l, s, p, C!LuaQuote(v))
    BY <1>7, <2>7 DEF Splice, n
  <2> HIDE DEF p
  <2> QED
    BY <2>6, <2>8 DEF c
<1>10. CASE \E a, b \in 1..Len(t) : Spans(t, a, b) /\ C!Trim(t) = SubSeq(t, a, b)
  <2>1. PICK a \in 1..Len(t), b \in 1..Len(t) : Spans(t, a, b) /\ C!Trim(t) = SubSeq(t, a, b)
    BY <1>10
  <2>2. a \in Nat /\ b \in Nat /\ 1 <= a /\ a <= b /\ b <= c - 1 /\ b <= Len(t) /\ a <= b + 1
    BY <1>5, <1>6, <2>1 DEF Spans
  <2>3. e = b - a + 1
    BY <1>4, <1>6, <2>1, <2>2, PartIs
  <2>4. /\ t[a] # C!Blank /\ \A i \in 1..(a - 1) : t[i] = C!Blank
        /\ \A i \in (b + 1)..(c - 1) : t[i] = C!Blank
    BY <1>6, <2>1 DEF Spans
  <2>5. /\ l[a] # C!Blank /\ \A i \in 1..(a - 1) : l[i] = C!Blank
        /\ \A i \in (b + 1)..(c - 1) : l[i] = C!Blank
    <3>1. /\ a \in 1..(c - 1) /\ \A i \in 1..(a - 1) : i \in 1..(c - 1)
          /\ \A i \in (b + 1)..(c - 1) : i \in 1..(c - 1)
      BY <1>5, <2>2
    <3> QED
      BY <1>6, <2>4, <3>1
  <2>6. Leads(l, a)
    BY <1>1, <1>5, <2>2, <2>5 DEF Leads, n
  <2>7. s = a
    BY <1>3, <2>6
  <2>8. p = b /\ p + 1 = s + e
    BY <2>2, <2>3, <2>7
  <2>9. /\ b \in (s - 1)..n /\ c \in (b + 1)..(n + 1)
        /\ \A i \in (b + 1)..(c - 1) : l[i] = C!Blank
    BY <1>1, <1>5, <2>2, <2>5, <2>7
  <2> HIDE DEF p
  <2>10. ValueAt(l, s, p, c)
    BY <1>2, <1>3, <2>8, <2>9 DEF ValueAt, n
  <2>11. \A v : C!SetLua(l, v) = Splice(l, s, p, C!LuaQuote(v))
    BY <1>7, <2>8 DEF Splice, n
  <2> QED
    BY <2>10, <2>11 DEF c
<1> QED
  BY <1>6, <1>9, <1>10, TrimIs

(* The text of a line up to one of its characters.                         *)
LEMMA UpTo ==
  ASSUME NEW text \in Seq(Chars), NEW d \in 0..Len(text)
  PROVE  /\ SubSeq(text, 1, d) \in Seq(Chars)
         /\ Len(SubSeq(text, 1, d)) = d
         /\ \A i \in 1..d : SubSeq(text, 1, d)[i] = text[i]
<1>1. 1 \in Nat /\ d \in Nat /\ 1 <= d + 1 /\ d <= Len(text) /\ d - 1 + 1 = d
      /\ \A i \in 1..d : (1 - 1) + i = i
  BY LenProperties
<1>2. /\ SubSeq(text, 1, d) \in Seq(Chars) /\ Len(SubSeq(text, 1, d)) = d - 1 + 1
      /\ \A i \in 1..(d - 1 + 1) : SubSeq(text, 1, d)[i] = text[(1 - 1) + i]
  BY <1>1, PartIs
<1> QED
  BY <1>1, <1>2

(* A quoted value put in the place of another is the expression of the new *)
(* line: the scanner finds no comment before or in it, and finds the one   *)
(* behind it.                                                              *)
LEMMA QuotedInLine ==
  ASSUME NEW l \in Seq(Chars), NEW s, NEW p, NEW c, ValueAt(l, s, p, c),
         NEW q, NEW v, Quoted(q, v)
  PROVE  C!LuaExpression(Splice(l, s, p, q)) = q
<1> DEFINE n == Len(l)
           k == Len(q)
           m == (s - 1) + k
           u == Splice(l, s, p, q)
           d == m + (c - p)
           t == SubSeq(u, 1, d - 1)
<1>1. /\ q \in Seq(Chars) /\ k \in Nat /\ k >= 2 /\ q[1] = C!Quote /\ q[k] = C!Quote
      /\ C!Scan(q)[k].state = "code"
      /\ \A i \in 2..k : C!Scan(q)[i - 1].state # "code"
  BY LenProperties DEF Quoted
<1>2. /\ n \in Nat /\ s \in 1..(n + 1) /\ p \in (s - 1)..n /\ c \in (p + 1)..(n + 1)
      /\ \A i \in 1..(s - 1) : l[i] = C!Blank
      /\ \A i \in (p + 1)..(c - 1) : l[i] = C!Blank
      /\ CommentAt(l, c)
  BY LenProperties DEF ValueAt, Leads
<1>3. /\ u \in Seq(Chars) /\ Len(u) = m + (n - p)
      /\ \A i \in 1..(s - 1) : u[i] = l[i]
      /\ \A i \in 1..k : u[(s - 1) + i] = q[i]
      /\ \A i \in 1..(n - p) : u[m + i] = l[p + i]
  BY <1>1, <1>2, SpliceIs
<1> HIDE DEF u, n, k
<1>4. /\ s \in Nat /\ s - 1 \in Nat /\ s <= n + 1 /\ k \in Nat /\ k >= 2 /\ n \in Nat
      /\ m \in Nat /\ p \in Nat /\ c \in Nat /\ c - p \in Nat /\ d \in Nat
      /\ s - 1 <= p /\ p <= n /\ p + 1 <= c /\ c <= n + 1
      /\ s < m /\ m + 1 <= d /\ Len(u) = m + (n - p) /\ d <= Len(u) + 1
  <2>1. n \in Nat /\ k \in Nat /\ k >= 2 /\ s \in 1..(n + 1)
    BY <1>1, <1>2
  <2>2. s \in Nat /\ s - 1 \in Nat /\ s >= 1 /\ s <= n + 1
    BY <2>1
  <2>3. p \in Nat /\ s - 1 <= p /\ p <= n
    BY <1>2, <2>2
  <2>4. c \in Nat /\ p + 1 <= c /\ c <= n + 1
    BY <1>2, <2>3
  <2>5. Len(u) = m + (n - p)
    BY <1>3
  <2>6. m \in Nat /\ s < m /\ d \in Nat /\ m + 1 <= d /\ c - p \in Nat /\ d <= m + (n - p) + 1
    BY <2>1, <2>2, <2>3, <2>4
  <2> QED
    BY <2>1, <2>2, <2>3, <2>4, <2>5, <2>6
<1>5. \A i \in 1..(s - 1) : u[i] = C!Blank
  BY <1>2, <1>3
<1>6. \A i \in 1..(c - p - 1) : u[m + i] = C!Blank
  <2>1. \A i \in 1..(c - p - 1) : i \in 1..(n - p) /\ p + i \in (p + 1)..(c - 1)
    BY <1>2, <1>4
  <2> QED
    BY <1>2, <1>3, <2>1
<1>7. C!Scan(u)[s - 1].state = "code"
  <2>1. C!Scan(u)[0].state = "code"
    BY <1>3, LenProperties, ScanIs DEF C!Start
  <2>2. 0 \in 0..Len(u) /\ 0 + (s - 1) <= Len(u) /\ 0 + (s - 1) = s - 1
        /\ \A i \in 1..(s - 1) : 0 + i = i
    BY <1>2, <1>3, <1>4
  <2> DEFINE r == s - 1
  <2>3. \A i \in 1..r : u[0 + i] = C!Blank
    BY <1>5, <2>2
  <2>4. r \in Nat /\ 0 + r <= Len(u)
    BY <1>4, <2>2
  <2> HIDE DEF r
  <2>5. C!Scan(u)[0 + r].state = "code" <=> C!Scan(u)[0].state = "code"
    BY <1>3, <2>2, <2>3, <2>4, CodeOverBlanks
  <2> QED
    BY <2>1, <2>2, <2>5 DEF r
<1>8. ASSUME NEW j \in 0..k PROVE C!Scan(u)[(s - 1) + j].state = C!Scan(q)[j].state
  <2> DEFINE r == s - 1
  <2>1. C!Scan(q)[0].state = "code"
    BY <1>1, ScanIs DEF C!Start, k
  <2>2. /\ r \in 0..Len(u) /\ 0 \in 0..Len(q) /\ j \in Nat /\ r + j <= Len(u) /\ 0 + j <= Len(q)
        /\ 0 + j = j /\ \A i \in 1..j : i \in 1..k /\ 0 + i = i
    <3>1. k = Len(q) /\ j \in Nat /\ j <= k
      BY <1>4 DEF k
    <3>2. r \in Nat /\ r + j <= Len(u)
      BY <1>4, <3>1
    <3>3. /\ 0 + j = j /\ 0 + j <= Len(q) /\ 0 \in 0..Len(q)
          /\ \A i \in 1..j : i \in 1..k /\ 0 + i = i
      BY <1>4, <3>1
    <3>4. r \in 0..Len(u)
      BY <1>4, <3>2
    <3> QED
      BY <3>1, <3>2, <3>3, <3>4
  <2>3. \A i \in 1..j : u[r + i] = q[0 + i]
    BY <1>3, <2>2
  <2>4. C!Scan(u)[r].state = C!Scan(q)[0].state
    BY <1>7, <2>1
  <2> HIDE DEF r
  <2>5. C!Scan(u)[r + j].state = C!Scan(q)[0 + j].state
    BY <1>1, <1>3, <2>2, <2>3, <2>4, StatesAgree
  <2> QED
    BY <2>2, <2>5 DEF r
<1>9. C!Scan(u)[m].state = "code"
  BY <1>1, <1>8
<1>10. C!Scan(u)[d - 1].state = "code"
  <2> DEFINE r == c - p - 1
  <2>1. m \in 0..Len(u) /\ r \in Nat /\ m + r <= Len(u) /\ m + r = d - 1
    BY <1>2, <1>3, <1>4
  <2>2. \A i \in 1..r : u[m + i] = C!Blank
    BY <1>6
  <2> HIDE DEF r, m, d
  <2>3. C!Scan(u)[m + r].state = "code" <=> C!Scan(u)[m].state = "code"
    BY <1>3, <2>1, <2>2, CodeOverBlanks
  <2> QED
    BY <1>9, <2>1, <2>3
<1>11. ASSUME NEW i \in 1..(d - 1) PROVE ~Opens(u, i)
  <2>1. CASE i <= s - 1
    BY <1>2, <1>4, <1>5, <2>1, CharsDiffer DEF Opens
  <2>2. CASE i = s
    <3>1. u[i] = C!Quote
      <4>1. (s - 1) + 1 = s /\ 1 \in 1..k
        BY <1>4
      <4> QED
        BY <1>1, <1>3, <2>2, <4>1
    <3> QED
      BY <3>1, CharsDiffer DEF Opens
  <2>3. CASE s < i /\ i <= m
    <3> DEFINE j == i - (s - 1)
    <3>1. j \in 2..k /\ j - 1 \in 0..k /\ (s - 1) + (j - 1) = i - 1
      BY <1>4, <2>3
    <3> HIDE DEF j
    <3>2. C!Scan(u)[i - 1].state = C!Scan(q)[j - 1].state
      BY <1>8, <3>1
    <3> QED
      BY <1>1, <3>1, <3>2 DEF Opens
  <2>4. CASE m < i
    <3>1. i - m \in 1..(c - p - 1) /\ m + (i - m) = i
      BY <1>4, <2>4
    <3>2. u[i] = C!Blank
      BY <1>6, <3>1
    <3> QED
      BY <3>2, CharsDiffer DEF Opens
  <2> QED
    BY <1>2, <1>4, <2>1, <2>2, <2>3, <2>4
<1>12. ASSUME d <= Len(u) PROVE Opens(u, d)
  <2>1. c <= n
    BY <1>2, <1>3, <1>4, <1>12
  <2>2. c + 1 <= n /\ l[c] = C!Dash /\ l[c + 1] = C!Dash
    BY <1>2, <2>1 DEF CommentAt, Opens, n
  <2>3. /\ c - p \in 1..(n - p) /\ p + (c - p) = c
        /\ (c - p) + 1 \in 1..(n - p) /\ p + ((c - p) + 1) = c + 1
        /\ m + ((c - p) + 1) = d + 1 /\ d + 1 <= Len(u)
    BY <1>4, <2>1, <2>2
  <2>4. u[d] = C!Dash /\ u[d + 1] = C!Dash
    BY <1>3, <2>2, <2>3
  <2> QED
    BY <1>10, <2>3, <2>4 DEF Opens
<1>13. CommentAt(u, d)
  BY <1>4, <1>11, <1>12 DEF CommentAt
<1>14. C!LuaComment(u) = d
  BY <1>3, <1>13, CommentIs
<1>15. C!LuaExpression(u) = C!Trim(t)
  BY <1>14 DEF C!LuaExpression
<1>16. /\ t \in Seq(Chars) /\ Len(t) = d - 1
       /\ \A i \in 1..(d - 1) : t[i] = u[i]
  <2> DEFINE r == d - 1
  <2>1. r \in 0..Len(u)
    BY <1>4
  <2> HIDE DEF r
  <2>2. /\ SubSeq(u, 1, r) \in Seq(Chars) /\ Len(SubSeq(u, 1, r)) = r
        /\ \A i \in 1..r : SubSeq(u, 1, r)[i] = u[i]
    BY <1>3, <2>1, UpTo
  <2> QED
    BY <2>2 DEF r
<1> HIDE DEF t
<1>17. \A i \in 1..k : (s - 1) + i \in 1..(d - 1) /\ t[(s - 1) + i] = q[i]
  <2>1. \A i \in 1..k : (s - 1) + i \in 1..(d - 1)
    BY <1>4
  <2> QED
    BY <1>3, <1>16, <2>1
<1>18. t[s] = C!Quote /\ t[m] = C!Quote
  <2>1. (s - 1) + 1 = s /\ 1 \in 1..k /\ k \in 1..k
    BY <1>1, <1>2
  <2> QED
    BY <1>1, <1>17, <2>1
<1>19. Spans(t, s, m)
  <2>1. s \in 1..Len(t) /\ m \in 1..Len(t) /\ s <= m
    BY <1>4, <1>16
  <2>2. \A i \in 1..(s - 1) : t[i] = C!Blank
    <3>1. \A i \in 1..(s - 1) : i \in 1..(d - 1)
      BY <1>4
    <3> QED
      BY <1>5, <1>16, <3>1
  <2>3. \A i \in (m + 1)..Len(t) : t[i] = C!Blank
    <3>1. \A i \in (m + 1)..Len(t) : i \in 1..(d - 1) /\ i - m \in 1..(c - p - 1) /\ m + (i - m) = i
      BY <1>4, <1>16
    <3> QED
      BY <1>6, <1>16, <3>1
  <2>4. t[s] # C!Blank /\ t[m] # C!Blank
    BY <1>18, CharsDiffer
  <2> QED
    BY <2>1, <2>2, <2>3, <2>4 DEF Spans
<1> DEFINE x == SubSeq(t, s, m)
<1>20. C!Trim(t) = x
  BY <1>16, <1>19, TrimIs
<1>21. /\ x \in Seq(Chars) /\ Len(x) = k
       /\ \A i \in 1..k : x[i] = t[(s - 1) + i]
  <2>1. s \in Nat /\ m \in Nat /\ 1 <= s /\ s <= m + 1 /\ m <= Len(t) /\ m - s + 1 = k
    BY <1>1, <1>2, <1>4, <1>16
  <2> HIDE DEF m
  <2>2. /\ x \in Seq(Chars) /\ Len(x) = m - s + 1
        /\ \A i \in 1..(m - s + 1) : x[i] = t[(s - 1) + i]
    BY <1>16, <2>1, PartIs
  <2> QED
    BY <2>1, <2>2
<1> HIDE DEF x
<1>22. x = q
  BY <1>1, <1>17, <1>21, SeqEqual DEF k
<1> QED
  BY <1>15, <1>20, <1>22 DEF u

(* setLua: the new line holds the value, and its comment is still there.   *)
LEMMA LuaSets ==
  ASSUME NEW l \in Seq(Chars), NEW v \in Seq(Chars)
  PROVE  /\ C!SetLua(l, v) \in Seq(Chars)
         /\ C!IsSuffix(SubSeq(l, C!LuaComment(l), Len(l)), C!SetLua(l, v))
         /\ C!Holds(C!SetLua(l, v), v)
<1> DEFINE q == C!LuaQuote(v)
           c == C!LuaComment(l)
<1>1. PICK s, p : ValueAt(l, s, p, c) /\ C!SetLua(l, v) = Splice(l, s, p, q)
  BY LuaPlaces
<1>2. Quoted(q, v)
  BY QuoteIsQuoted
<1>3. q \in Seq(Chars)
  BY <1>2 DEF Quoted
<1>4. s \in 1..(Len(l) + 1) /\ p \in (s - 1)..Len(l) /\ c \in (p + 1)..(Len(l) + 1)
  BY <1>1 DEF ValueAt, Leads
<1> HIDE DEF q, c
<1>5. Splice(l, s, p, q) \in Seq(Chars)
  BY <1>3, <1>4, SpliceIs
<1>6. C!IsSuffix(SubSeq(l, c, Len(l)), Splice(l, s, p, q))
  BY <1>3, <1>4, SpliceEnds
<1>7. C!LuaExpression(Splice(l, s, p, q)) = q
  BY <1>1, <1>2, QuotedInLine
<1>8. C!LuaString(q) = v
  BY <1>2, QuotedIsRead
<1> QED
  BY <1>1, <1>5, <1>6, <1>7, <1>8 DEF C!Holds, c

(* setServer: the new line has the value between what stood before it and  *)
(* what stood behind it, and the comment is still there.                   *)
LEMMA IniSets ==
  ASSUME NEW l \in Seq(Chars), Len(l) >= 1, l[1] = C!Blank, NEW v \in Seq(Chars)
  PROVE  /\ C!SetIni(l, v) \in Seq(Chars)
         /\ Len(C!SetIni(l, v)) >= 1 /\ C!SetIni(l, v)[1] = C!Blank
         /\ C!IsSuffix(SubSeq(l, C!CommentStart(l), Len(l)), C!SetIni(l, v))
<1> DEFINE n == Len(l)
           s == C!First(C!Visible(l), n + 1)
           T == {i \in DOMAIN l : C!Marker(l, i)}
           c == C!First(T, n + 1)
           U == {i \in s..n : i > 1 /\ C!Marker(l, i)}
           stop == C!First(U, n + 1)
           M == {s - 1} \cup {i \in s..(stop - 1) : l[i] # C!Blank}
           p == IF stop > n THEN n ELSE C!Max(M)
<1>1. n \in Nat /\ n >= 1 /\ DOMAIN l = 1..n
  BY LenProperties
<1>2. Leads(l, s)
  BY VisibleFrom
<1>3. C!SetIni(l, v) = SubSeq(l, 1, s - 1) \o v \o SubSeq(l, p + 1, n)
  BY DEF C!SetIni
<1>4. C!CommentStart(l) = c
  BY DEF C!CommentStart
<1>5. \A i : C!Marker(l, i) => l[i] # C!Blank
  BY CharsDiffer DEF C!Marker
<1> HIDE DEF s
<1>6. s \in Nat /\ s >= 2 /\ s <= n + 1 /\ \A i \in 1..(s - 1) : l[i] = C!Blank
  <2>1. s \in 1..(n + 1) /\ s # 1
    BY <1>1, <1>2 DEF Leads
  <2>2. s \in Nat /\ s >= 2 /\ s <= n + 1
    BY <1>1, <2>1
  <2> QED
    BY <1>2, <2>2 DEF Leads
<1>7. U = T
  <2>1. ASSUME NEW i \in T PROVE i \in U
    <3>1. i \in 1..n /\ C!Marker(l, i)
      BY <1>1
    <3>2. i \notin 1..(s - 1)
      BY <1>5, <1>6, <3>1
    <3> HIDE DEF n
    <3>3. i \in s..n /\ i > 1
      BY <1>1, <1>6, <3>1, <3>2
    <3> QED
      BY <3>1, <3>3
  <2>2. ASSUME NEW i \in U PROVE i \in T
    <3>1. i \in s..n /\ C!Marker(l, i)
      OBVIOUS
    <3> HIDE DEF n
    <3>2. i \in 1..n
      BY <1>1, <1>6, <3>1
    <3> QED
      BY <1>1, <3>1, <3>2
  <2> HIDE DEF T, U
  <2> QED
    BY <2>1, <2>2
<1>8. stop = c
  BY <1>7
<1>9. c = n + 1 \/ c \in s..n
  <2>1. CASE T = {}
    BY <2>1, FirstOfNone
  <2>2. CASE T # {}
    <3>1. T \subseteq 1..n
      BY <1>1
    <3>2. T \subseteq s..n
      BY <1>7
    <3> HIDE DEF T
    <3>3. C!Min(T) \in T
      BY <1>1, <2>2, <3>1, LeastPlace
    <3>4. c = C!Min(T)
      BY <2>2 DEF C!First
    <3> QED
      BY <3>2, <3>3, <3>4
  <2> QED
    BY <2>1, <2>2
<1> HIDE DEF c, stop, n
<1>10. p \in (s - 1)..n /\ c \in (p + 1)..(n + 1)
  <2>1. CASE c = n + 1
    <3>1. p = n
      BY <1>1, <1>8, <2>1
    <3> QED
      BY <1>1, <1>6, <2>1, <3>1
  <2>2. CASE c \in s..n
    <3>1. p = C!Max(M)
      BY <1>1, <1>6, <1>8, <2>2
    <3>2. /\ s - 1 \in M /\ \A i \in M : i = s - 1 \/ i \in s..(c - 1)
      BY <1>8
    <3>3. \A i \in M : i \in (s - 1)..(c - 1) /\ i \in 1..n
      BY <1>1, <1>6, <2>2, <3>2
    <3> HIDE DEF M, p
    <3>4. M \subseteq 1..n /\ M # {}
      BY <3>2, <3>3
    <3>5. p \in M
      BY <1>1, <3>1, <3>4, LeastPlace
    <3>6. p \in (s - 1)..(c - 1)
      BY <3>3, <3>5
    <3> QED
      BY <1>1, <1>6, <2>2, <3>6
  <2> QED
    BY <1>9, <2>1, <2>2
<1> HIDE DEF p
<1> DEFINE u == Splice(l, s, p, v)
           m == (s - 1) + Len(v)
<1>11. C!SetIni(l, v) = u
  BY <1>3 DEF Splice, n
<1>12. s \in 1..(Len(l) + 1) /\ p \in (s - 1)..Len(l) /\ c \in (p + 1)..(Len(l) + 1)
  BY <1>1, <1>6, <1>10 DEF n
<1>13. /\ u \in Seq(Chars) /\ Len(u) = m + (Len(l) - p)
       /\ \A i \in 1..(s - 1) : u[i] = l[i]
  BY <1>12, SpliceIs
<1>14. C!IsSuffix(SubSeq(l, c, Len(l)), u)
  BY <1>12, SpliceEnds
<1> HIDE DEF u
<1>15. 1 \in 1..(s - 1) /\ Len(u) >= 1
  <2>1. Len(v) \in Nat /\ Len(l) - p \in Nat
    BY <1>1, <1>6, <1>10, LenProperties DEF n
  <2> QED
    BY <1>6, <1>13, <2>1
<1>16. u[1] = C!Blank
  BY <1>6, <1>13, <1>15
<1> QED
  BY <1>4, <1>11, <1>13, <1>14, <1>15, <1>16

(* The texts a value is taken from.                                        *)
LEMMA TextsAre ==
  ASSUME NEW S, S \subseteq Chars, NEW v \in C!Texts(S)
  PROVE  v \in Seq(Chars)
<1>1. PICK n \in 0..MaxValue : v \in [1..n -> S]
  BY DEF C!Texts
<1>2. n \in Nat
  BY MCStoreAssumption
<1>3. v \in [1..n -> Chars]
  BY <1>1
<1> QED
  BY <1>2, <1>3, SeqDef

(* A trimmed text is a text.                                               *)
LEMMA TrimmedIs ==
  ASSUME NEW v \in Seq(Chars)
  PROVE  C!Trim(v) \in Seq(Chars)
<1>1. CASE C!Trim(v) = <<>>
  BY <1>1, EmptySeq
<1>2. CASE \E a, b \in 1..Len(v) : Spans(v, a, b) /\ C!Trim(v) = SubSeq(v, a, b)
  <2>1. PICK a \in 1..Len(v), b \in 1..Len(v) : Spans(v, a, b) /\ C!Trim(v) = SubSeq(v, a, b)
    BY <1>2
  <2>2. a \in Nat /\ b \in Nat /\ 1 <= a /\ a <= b + 1 /\ b <= Len(v)
    BY <2>1, LenProperties DEF Spans
  <2> QED
    BY <2>1, <2>2, PartIs
<1> QED
  BY <1>1, <1>2, TrimIs

(* A line of either file is a text; the one of a server setting begins     *)
(* with the blank behind its "=".                                          *)
IsLine(k, l) ==
  /\ k # "playerNames" => l \in Seq(Chars)
  /\ k \in C!IniKeys => Len(l) >= 1 /\ l[1] = C!Blank

(* What a behaviour about a setting keeps.                                 *)
ConfigInv ==
  /\ key \in C!IniKeys \cup {"config", "playerNames"}
  /\ IsLine(key, line)

(* The lines of a file nobody has set anything in are such lines.          *)
LEMMA FreshLines ==
  ASSUME NEW k \in C!IniKeys \cup {"config", "playerNames"}, NEW l \in C!Fresh(k)
  PROVE  IsLine(k, l)
<1>1. {"x", "7", C!Blank, C!Hash, C!Dash} \subseteq Chars
  BY DEF Chars
<1>2. CASE k = "hostname"
  <2>1. l = <<C!Blank, "x">>
    BY <1>2 DEF C!Fresh
  <2> QED
    BY <1>1, <2>1 DEF IsLine
<1>3. CASE k = "port"
  <2>1. l = <<C!Blank, "7", C!Blank, C!Hash, "x">>
    BY <1>3 DEF C!Fresh
  <2> QED
    BY <1>1, <2>1 DEF IsLine
<1>4. CASE k = "password"
  <2>1. l = <<C!Blank>> \/ l = <<C!Blank, "x", C!Blank, C!Hash, "x">>
    BY <1>4 DEF C!Fresh
  <2>2. CASE l = <<C!Blank>>
    BY <1>1, <2>2 DEF IsLine
  <2>3. CASE l = <<C!Blank, "x", C!Blank, C!Hash, "x">>
    BY <1>1, <2>3 DEF IsLine
  <2> QED
    BY <2>1, <2>2, <2>3
<1>5. CASE k = "config"
  <2>1. PICK tail \in {<<>>, <<C!Blank, C!Dash, C!Dash, "x">>} :
          l = <<C!Blank>> \o C!LuaQuote(<<"x">>) \o tail
    BY <1>5 DEF C!Fresh
  <2>2. tail \in Seq(Chars) /\ <<C!Blank>> \in Seq(Chars) /\ <<"x">> \in Seq(Chars)
    <3>1. <<>> \in Seq(Chars)
      BY EmptySeq
    <3>2. <<C!Blank, C!Dash, C!Dash, "x">> \in Seq(Chars)
      BY <1>1
    <3>3. tail \in Seq(Chars)
      BY <3>1, <3>2
    <3>4. <<C!Blank>> \in Seq(Chars) /\ <<"x">> \in Seq(Chars)
      BY <1>1
    <3> QED
      BY <3>3, <3>4
  <2>3. C!LuaQuote(<<"x">>) \in Seq(Chars)
    BY <2>2, QuoteIsQuoted DEF Quoted
  <2>4. l \in Seq(Chars)
    BY <2>1, <2>2, <2>3, ConcatProperties
  <2>5. k \notin C!IniKeys
    BY <1>5 DEF C!IniKeys
  <2> QED
    BY <2>4, <2>5 DEF IsLine
<1>6. CASE k = "playerNames"
  BY <1>6 DEF IsLine, C!IniKeys
<1> QED
  BY <1>2, <1>3, <1>4, <1>5, <1>6 DEF C!IniKeys

LEMMA ConfigInit ==
  ASSUME C!Init
  PROVE  ConfigInv
BY FreshLines DEF C!Init, ConfigInv

(* config set --file server: the line stays one and keeps its comment.     *)
LEMMA ServerKeeps ==
  ASSUME ConfigInv, C!SetServer
  PROVE  ConfigInv' /\ C!SettingSticks
<1> DEFINE S == IF key = "port" THEN DOMAIN C!Digits \cup {C!Blank}
                ELSE {"x", C!Blank, C!Hash}
<1>1. key \in C!IniKeys /\ key' = key
  BY DEF C!SetServer
<1>2. key # "playerNames" /\ key # "config"
  BY <1>1 DEF C!IniKeys
<1>3. PICK value \in C!Texts(S) : line' = C!SetIni(line, C!Formatted(value))
  BY DEF C!SetServer
<1>4. S \subseteq Chars
  <2>1. DOMAIN C!Digits = {"0", "7"}
    BY DEF C!Digits
  <2> QED
    BY <2>1, CharsDiffer DEF Chars
<1> HIDE DEF S
<1>5. value \in Seq(Chars)
  BY <1>4, TextsAre
<1>6. C!Formatted(value) \in Seq(Chars)
  BY <1>5, TrimmedIs DEF C!Formatted
<1>7. line \in Seq(Chars) /\ Len(line) >= 1 /\ line[1] = C!Blank
  BY <1>1, <1>2 DEF ConfigInv, IsLine
<1>8. /\ line' \in Seq(Chars) /\ Len(line') >= 1 /\ line'[1] = C!Blank
      /\ C!IsSuffix(SubSeq(line, C!CommentStart(line), Len(line)), line')
  BY <1>3, <1>6, <1>7, IniSets
<1>9. IsLine(key', line')
  BY <1>1, <1>8 DEF IsLine
<1>10. C!Comment = SubSeq(line, C!CommentStart(line), Len(line))
  BY <1>2 DEF C!Comment
<1> QED
  BY <1>1, <1>2, <1>8, <1>9, <1>10 DEF ConfigInv, C!SettingSticks, C!KeepsComment

(* config set --file config: the value is read back, too.                  *)
LEMMA ConfigKeeps ==
  ASSUME ConfigInv, C!SetConfig
  PROVE  ConfigInv' /\ C!SettingSticks
<1> DEFINE S == {"x", C!Blank, C!Dash, C!Quote, C!Slash}
<1>1. key = "config" /\ key' = key
  BY DEF C!SetConfig
<1>2. key # "playerNames" /\ key \notin C!IniKeys
  BY <1>1 DEF C!IniKeys
<1>3. PICK value \in C!Texts(S) : line' = C!SetLua(line, value) /\ told' = <<value>>
  BY DEF C!SetConfig
<1>4. S \subseteq Chars
  BY DEF Chars
<1> HIDE DEF S
<1>5. value \in Seq(Chars)
  BY <1>4, TextsAre
<1>6. line \in Seq(Chars)
  BY <1>2 DEF ConfigInv, IsLine
<1>7. /\ line' \in Seq(Chars)
      /\ C!IsSuffix(SubSeq(line, C!LuaComment(line), Len(line)), line')
      /\ C!Holds(line', value)
  BY <1>3, <1>5, <1>6, LuaSets
<1>8. ConfigInv'
  BY <1>1, <1>2, <1>7 DEF ConfigInv, IsLine
<1>9. C!Comment = SubSeq(line, C!LuaComment(line), Len(line))
  BY <1>1 DEF C!Comment
<1>10. told'[1] = value
  BY <1>3
<1> QED
  BY <1>7, <1>8, <1>9, <1>10 DEF C!SettingSticks, C!KeepsComment

(* Every step: an edit by hand and the ban list touch no setting.          *)
LEMMA ConfigStep ==
  ASSUME ConfigInv, C!Next
  PROVE  ConfigInv' /\ C!SettingSticks
<1>1. CASE C!Edit
  <2>1. line' \in C!Fresh(key) /\ told' = <<>> /\ key' = key
    BY <1>1 DEF C!Edit
  <2>2. IsLine(key', line')
    BY <2>1, FreshLines DEF ConfigInv
  <2> QED
    BY <2>1, <2>2 DEF ConfigInv, C!SettingSticks, C!KeepsComment
<1>2. CASE C!SetBanlist
  <2>1. key = "playerNames" /\ key' = key
    BY <1>2 DEF C!SetBanlist
  <2>2. IsLine(key', line')
    BY <2>1 DEF IsLine, C!IniKeys
  <2> QED
    BY <2>1, <2>2 DEF ConfigInv, C!SettingSticks, C!KeepsComment
<1> QED
  BY <1>1, <1>2, ServerKeeps, ConfigKeeps DEF C!Next

ConfigPart == part = "config" => ConfigInv

(* GameConfig: every line the settings are kept in is one the scanners     *)
(* read (setServer, setLua).                                               *)
THEOREM ConfigInvariant == StoreSpec => []ConfigPart
<1>1. StoreInit => ConfigPart
  BY ConfigInit DEF StoreInit, ConfigPart
<1>2. ConfigPart /\ [StoreNext]_storeVars => ConfigPart'
  <2> SUFFICES ASSUME ConfigPart, [StoreNext]_storeVars PROVE ConfigPart'
    OBVIOUS
  <2>1. CASE UNCHANGED storeVars
    BY <2>1 DEF storeVars, configVars, ConfigPart, ConfigInv
  <2>2. CASE StoreNext /\ part = "config"
    BY <2>2, ConfigStep DEF StoreNext, ConfigPart
  <2>3. CASE StoreNext /\ part # "config"
    BY <2>3 DEF StoreNext, ConfigPart
  <2> QED
    BY <2>1, <2>2, <2>3
<1> QED
  BY <1>1, <1>2, PTL DEF StoreSpec

(* GameConfig: what set reports is what the file says, and the comment of  *)
(* the line stays, whatever the value, the line and the sets before        *)
(* (setLua, setServer, luaQuote, parseLuaString).                          *)
THEOREM SettingsReadBack == StoreSpec => ReadsBack
<1>1. ASSUME ConfigPart, [StoreNext]_storeVars
      PROVE  [part = "config" => C!SettingSticks]_storeVars
  <2>1. CASE StoreNext /\ part = "config"
    BY <1>1, <2>1, ConfigStep DEF StoreNext, ConfigPart
  <2> QED
    BY <1>1, <2>1
<1> QED
  BY <1>1, ConfigInvariant, PTL DEF StoreSpec, ReadsBack
=============================================================================
