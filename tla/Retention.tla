----------------------------- MODULE Retention ------------------------------
(***************************************************************************)
(* The retention planner, internal/retention: which archives of backups/   *)
(* one run deletes.  Pure operators; BackupStore composes them with the    *)
(* operations that call them.                                              *)
(*                                                                         *)
(* An archive is the record its file name parses to, [kind, time, coll],   *)
(* and for a state archive also ref, the mods package its current.txt      *)
(* names.  Time is counted in ticks, the age windows and calendar periods  *)
(* in ticks too, and every archive takes one unit of disk: the planner     *)
(* only adds and compares sizes.                                           *)
(***************************************************************************)
EXTENDS Integers, SequencesExt, FiniteSetsExt

CONSTANTS
  DayLength, WeekLength, MonthLength,             \* calendar periods
  HotWindow, DailyWindow, MonthlyWindow,          \* age windows
  PressureWindow,                                 \* pressure spares younger ones
  KeepManual, KeepPredeploy, KeepMods, KeepInit,  \* fixed keep counts
  StateBudget,                                    \* units backups/state may take
  MinFree                                         \* free-space reserve, in units

ASSUME RetentionAssumption ==
  /\ {DayLength, WeekLength, MonthLength} \subseteq Nat \ {0}
  /\ {HotWindow, DailyWindow, MonthlyWindow, PressureWindow} \subseteq Nat
  /\ HotWindow < DailyWindow /\ DailyWindow < MonthlyWindow
  /\ {KeepManual, KeepPredeploy, KeepMods, KeepInit} \subseteq Nat \ {0}
  /\ StateBudget \in Nat /\ MinFree \in Nat

(* Ties are broken by the file name: "state-2.." < "state-manual-..".      *)
Rank == [auto |-> 0, manual |-> 1, predeploy |-> 2, mods |-> 0, init |-> 1]

StateKinds == {"auto", "manual", "predeploy"}
ModsKinds  == {"mods", "init"}

Older(a, b) ==
  \/ a.time < b.time
  \/ a.time = b.time /\ a.coll < b.coll
  \/ a.time = b.time /\ a.coll = b.coll /\ Rank[a.kind] < Rank[b.kind]

Newer(a, b) ==
  \/ a.time > b.time
  \/ a.time = b.time /\ a.coll > b.coll
  \/ a.time = b.time /\ a.coll = b.coll /\ Rank[a.kind] > Rank[b.kind]

(* Names are distinct, so every place in the order has one archive.        *)
InOrder(files, Before(_, _)) ==
  [i \in 1..Cardinality(files) |->
     CHOOSE f \in files : Cardinality({g \in files : Before(g, f)}) = i - 1]

NewestFirst(files) == InOrder(files, Newer)
OldestFirst(files) == InOrder(files, Older)

NewestOf(files) == {f \in files : \A g \in files : ~Newer(g, f)}

OfKind(files, kind) == {f \in files : f.kind = kind}

(* A name from the future has age zero.                                    *)
Age(f, now) == IF f.time < now THEN now - f.time ELSE 0

Band(f, now) ==
  CASE Age(f, now) < HotWindow                                     -> "hot"
    [] HotWindow <= Age(f, now) /\ Age(f, now) < DailyWindow       -> "daily"
    [] DailyWindow <= Age(f, now) /\ Age(f, now) < MonthlyWindow   -> "weekly"
    [] OTHER                                                       -> "monthly"

SameDay(f, g) == f.time \div DayLength = g.time \div DayLength

SamePeriod(band, f, g) ==
  CASE band = "weekly"  -> f.time \div WeekLength = g.time \div WeekLength
    [] band = "monthly" -> f.time \div MonthLength = g.time \div MonthLength
    [] OTHER            -> SameDay(f, g)
-----------------------------------------------------------------------------
(* classifyAutomatic: one pass over the automatic archives, newest first.  *)
Buckets == {"daily", "weekly", "monthly"}

NoBuckets == [daily |-> {}, weekly |-> {}, monthly |-> {},
              lastOfDay |-> {}, prune |-> {}]

(* Mutant: a daily archive is compared with the other daily ones only, not *)
(* with a newer archive of its day that is still hot.                      *)
VisitForgetsHotDay(buckets, f, now) ==
  LET band  == Band(f, now)
      c     == IF \E g \in buckets.lastOfDay : SameDay(f, g) THEN buckets
               ELSE [buckets EXCEPT !.lastOfDay = @ \cup {f}]
      taken == band \in Buckets /\ \E g \in c[band] : SamePeriod(band, f, g)
  IN IF band = "hot" THEN c
     ELSE IF taken THEN [c EXCEPT !.prune = @ \cup {f}]
     ELSE [c EXCEPT ![band] = @ \cup {f}]

Visit(buckets, f, now) ==
  LET band   == Band(f, now)
      c      == IF \E g \in buckets.lastOfDay : SameDay(f, g) THEN buckets
                ELSE [buckets EXCEPT !.lastOfDay = @ \cup {f}]
      taken  == band \in Buckets /\ \E g \in c[band] : SamePeriod(band, f, g)
      behind == band = "daily" /\ f \notin c.lastOfDay
  IN IF band = "hot" THEN c
     ELSE IF taken \/ behind THEN [c EXCEPT !.prune = @ \cup {f}]
     ELSE [c EXCEPT ![band] = @ \cup {f}]

Classify(states, now) ==
  LET autos == OfKind(states, "auto")
      walk[i \in 0..Cardinality(autos)] ==
        IF i = 0 THEN NoBuckets ELSE Visit(walk[i - 1], NewestFirst(autos)[i], now)
  IN  walk[Cardinality(autos)]

(* The archives of a kind beyond its keep newest ones.                     *)
Excess(files, kind, keep) ==
  {f \in OfKind(files, kind) :
      Cardinality({g \in OfKind(files, kind) : Newer(g, f)}) >= keep}
-----------------------------------------------------------------------------
(* A run of the planner: the state archives it scans; the mods packages it *)
(* scans (none in a state-only run); the package current.txt names; which  *)
(* metadata cannot be read; the archives its caller protects; the clock;   *)
(* the free space; and auto, the classified automatic archives.            *)
References(run) ==
  {m \in run.mods : \E s \in run.states \ run.damaged : s.ref = m}

(* Mutant: an unreadable state archive is only warned about.               *)
SkipsDamaged(run) == run.currentDamaged

ProtectsAllMods(run) ==
  run.states \cap run.damaged # {} \/ run.currentDamaged

Protected(run) ==
  NewestOf(run.states)
  \cup run.protect
  \cup run.auto.monthly
  \cup (IF ProtectsAllMods(run) THEN run.mods
        ELSE {m \in run.mods : m = run.current} \cup References(run))

Unwanted(run) ==
  run.auto.prune
  \cup Excess(run.states, "manual", KeepManual)
  \cup Excess(run.states, "predeploy", KeepPredeploy)
  \cup Excess(run.mods, "mods", KeepMods)
  \cup Excess(run.mods, "init", KeepInit)

NormalPrune(run) ==
  ((run.states \cup run.mods) \cap Unwanted(run)) \ Protected(run)

(* Automatic archives that disk pressure may take.                         *)
Eligible(run) ==
  {f \in OfKind(run.states, "auto") \ (NormalPrune(run) \cup Protected(run)) :
     Age(f, run.now) > PressureWindow}

(* Pressure takes first the ones that are not the last of their day, then  *)
(* daily ones, then weekly representatives, each oldest first.             *)
PressureOrder(run, eligible) ==
  LET last == eligible \cap run.auto.lastOfDay
  IN OldestFirst(eligible \ last)
     \o OldestFirst({f \in last : Band(f, run.now) = "daily"})
     \o OldestFirst(last \cap run.auto.weekly)

(* Is there still pressure once the normal prune and n more are deleted?   *)
PressureNeeded(run, n) ==
  LET normal == NormalPrune(run)
  IN \/ Cardinality(run.states \ normal) - n > StateBudget
     \/ run.free + Cardinality(normal) + n < MinFree

(* How many of the candidates a run takes: until it has enough, or all.    *)
PressureCount(run, candidates) ==
  LET enough == {n \in 0..Len(candidates) : ~PressureNeeded(run, n)}
  IN IF enough = {} THEN Len(candidates) ELSE Min(enough)

(* Mutant: pressure spares no protected archive.                           *)
PressurePruneUnprotected(run) ==
  IF PressureNeeded(run, 0)
  THEN OfKind(run.states, "auto") \ NormalPrune(run)
  ELSE {}

PressurePrune(run) ==
  LET candidates == PressureOrder(run, Eligible(run))
      n          == PressureCount(run, candidates)
  IN IF ~PressureNeeded(run, 0) THEN {}
     ELSE {f \in Eligible(run) : \E i \in 1..n : candidates[i] = f}

Prune(run) == NormalPrune(run) \cup PressurePrune(run)
=============================================================================
