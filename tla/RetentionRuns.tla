--------------------------- MODULE RetentionRuns ----------------------------
(* The planner over every small inventory of automatic archives, run again *)
(* and again while the clock advances.                                     *)
EXTENDS Retention

CONSTANTS Horizon, MaxFiles, Capacity

VARIABLES files, now

MCFiles == {[kind |-> "auto", time |-> t, coll |-> 0, ref |-> "none"] :
              t \in 0..Horizon}

Run(states) ==
  [states |-> states, mods |-> {}, current |-> "none", damaged |-> {},
   currentDamaged |-> FALSE, protect |-> {}, now |-> now,
   free |-> Capacity - Cardinality(states), auto |-> Classify(states, now)]

Init ==
  /\ files \in UNION {kSubset(k, MCFiles) : k \in 0..MaxFiles}
  /\ now = Horizon

Tick  == now < Horizon + MonthlyWindow /\ now' = now + 1 /\ UNCHANGED files
Apply == Prune(Run(files)) # {} /\ files' = files \ Prune(Run(files)) /\ UNCHANGED now

Next == Tick \/ Apply
Spec == Init /\ [][Next]_<<files, now>>
-----------------------------------------------------------------------------
(* docs/v2/03-contracts.md 6.8: every automatic archive of the hot window, *)
(* the newest of each day up to a year, of each ISO week up to three       *)
(* years, of each month after that.                                        *)
PolicyKeeps(f) ==
  CASE Band(f, now) = "hot"   -> TRUE
    [] Band(f, now) = "daily" -> ~\E g \in files : SameDay(f, g) /\ Newer(g, f)
    [] OTHER -> ~\E g \in files : /\ Band(g, now) = Band(f, now)
                                  /\ SamePeriod(Band(f, now), f, g)
                                  /\ Newer(g, f)

(* The one-pass walk of classifyAutomatic prunes exactly the archives the  *)
(* written policy does not keep, also when a period straddles two windows. *)
FollowsPolicy == Classify(files, now).prune = {f \in files : ~PolicyKeeps(f)}

(* "Forever": once a month has an archive older than the last window, it   *)
(* always has one again, under disk pressure too (TestRetentionPressure-   *)
(* KeepsMonthly), however often the planner runs.                          *)
KeepsMonths ==
  \A f \in files : Band(f, now) = "monthly" =>
    \E g \in files' : SamePeriod("monthly", f, g) /\ ~Newer(f, g)

MonthsForever == [][KeepsMonths]_<<files, now>>
=============================================================================
