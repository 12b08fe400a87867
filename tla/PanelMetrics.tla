----------------------------- MODULE PanelMetrics -----------------------------
(* The resource charts of the dashboard (panel/metrics.go): one goroutine      *)
(* reads the counters of the game's cgroup and of the machine every Interval,   *)
(* keeps one day of samples in memory, and a request merges them into the       *)
(* buckets and lines of a chart.                                              *)
(*                                                                           *)
(* One unit of time is the interval of the ticker (15 s); the day is Day units. *)
(* In a unit the machine has one unit of CPU time; Full is 100 %.              *)
EXTENDS Integers, FiniteSets, Sequences, FiniteSetsExt

CONSTANTS Day,      \* metricsHistory
          Step,     \* the bucket of the one-day window
          MaxGap,   \* metricsMaxGap
          MaxClock

VARIABLES clock,
          due,        \* a tick waits in the ticker's channel, which holds one
          running,    \* the unit's cgroup exists
          usage,      \* its usage_usec, from 0 for each new cgroup
          busy,       \* the CPU time of the machine that was not idle
          lastGame,   \* [at, used]: the last reading of cpu.stat
          lastSys,    \* [at, used]: the last reading of /proc/stat
          samples,    \* [ts, gameRAM, gameCPU, sysCPU]
          dropped     \* the time of the last sample that left the ring; -1: none

vars == <<clock, due, running, usage, busy, lastGame, lastSys, samples, dropped>>

Nil == -1
Full == 6
Never == [at |-> Nil, used |-> 0]
metricsMax == Day + 1

Least(a, b) == IF a < b THEN a ELSE b

clampPercent(value) == IF value > Full THEN Full ELSE value

\* No value for the first reading, a long gap, or a counter that went back.
Rate(last, used) ==
  IF \/ last.at = Nil \/ clock <= last.at
     \/ clock - last.at > MaxGap \/ used < last.used
  THEN Nil
  ELSE clampPercent((Full * (used - last.used)) \div (clock - last.at))

readSystemCPU == Rate(lastSys, busy)

read ==
  [ts      |-> clock,
   gameRAM |-> IF running THEN 1 ELSE Nil,
   gameCPU |-> IF running THEN Rate(lastGame, usage) ELSE Nil,
   sysCPU  |-> readSystemCPU]

\* Mutant of Trim: the ring holds one sample less.
TrimShort(s) == SubSeq(s, Len(s) - Least(Len(s), Day) + 1, Len(s))

Trim(s) == SubSeq(s, Len(s) - Least(Len(s), metricsMax) + 1, Len(s))

Init ==
  /\ clock = 0 /\ due = TRUE        \* start samples at once
  /\ running \in BOOLEAN /\ usage = 0 /\ busy = 0
  /\ lastGame = Never /\ lastSys = Never
  /\ samples = <<>> /\ dropped = Nil

sample ==
  LET all == Append(samples, read) IN
  /\ due /\ due' = FALSE
  /\ samples' = Trim(all)
  /\ dropped' = IF Len(all) > Len(Trim(all)) THEN all[1].ts ELSE dropped
  /\ lastGame' = IF running THEN [at |-> clock, used |-> usage] ELSE lastGame
  /\ lastSys' = [at |-> clock, used |-> busy]
  /\ UNCHANGED <<clock, running, usage, busy>>

\* A unit of time; a tick that finds the channel full is lost.
Tick ==
  /\ clock < MaxClock /\ clock' = clock + 1 /\ due' = TRUE
  /\ \E work \in 0..1, other \in 0..1 :
       /\ work + other <= 1
       /\ usage' = IF running THEN usage + work ELSE usage
       /\ busy' = busy + other + (IF running THEN work ELSE 0)
  /\ UNCHANGED <<running, lastGame, lastSys, samples, dropped>>

GameStops ==
  /\ running /\ running' = FALSE /\ usage' = 0
  /\ UNCHANGED <<clock, due, busy, lastGame, lastSys, samples, dropped>>

GameStarts ==
  /\ ~running /\ running' = TRUE /\ usage' = 0
  /\ UNCHANGED <<clock, due, busy, lastGame, lastSys, samples, dropped>>

Next == sample \/ Tick \/ GameStops \/ GameStarts

Spec == Init /\ [][Next]_vars

(***************************************************************************)
(* What a request makes of the samples.                                    *)
(***************************************************************************)
metricsWindowSpecFor ==
  {[name |-> "1h", duration |-> Day - 2, step |-> 1],
   [name |-> "24h", duration |-> Day, step |-> Step]}

Filtered(spec) ==
  {samples[i] : i \in {j \in DOMAIN samples : samples[j].ts >= clock - spec.duration}}

\* Nil is below every value, so the highest reading also skips the missing ones.
Merged(bucket) ==
  [ts      |-> Max({s.ts : s \in bucket}),
   gameRAM |-> Max({s.gameRAM : s \in bucket}),
   gameCPU |-> Max({s.gameCPU : s \in bucket}),
   sysCPU  |-> Max({s.sysCPU : s \in bucket})]

\* The times of the samples grow, so a bucket is a run of them, and the buckets
\* are in the order of their times.
aggregateSamples(filtered, step) ==
  {Merged({s \in filtered : s.ts \div step = key}) :
     key \in {s.ts \div step : s \in filtered}}

\* A line joins a point to the next one; a bucket without a value ends it.
chartLines(list, field) ==
  {l \in list \X list :
     /\ l[1].ts < l[2].ts
     /\ ~\E s \in list : l[1].ts < s.ts /\ s.ts < l[2].ts
     /\ l[1][field] # Nil /\ l[2][field] # Nil}

\* The two lines of the CPU chart.
buildDualCPUChart(list) ==
  [game |-> chartLines(list, "gameCPU"), system |-> chartLines(list, "sysCPU")]

\* The disk's chart and the labels are left out.
buildMetricsView(list) ==
  [ram |-> chartLines(list, "gameRAM"), cpu |-> buildDualCPUChart(list)]

snapshot(spec) ==
  LET list == aggregateSamples(Filtered(spec), spec.step)
  IN  [samples   |-> list,
       available |-> \E s \in list : s.gameRAM # Nil \/ s.gameCPU # Nil,
       view      |-> buildMetricsView(list)]

(***************************************************************************)
(* Properties.                                                             *)
(***************************************************************************)
TypeOK ==
  /\ clock \in 0..MaxClock /\ usage \in 0..MaxClock /\ busy \in 0..MaxClock
  /\ Len(samples) <= metricsMax /\ dropped \in Nil..MaxClock

(* No reading of the last day is lost, and none is hidden: its bucket shows a  *)
(* value at least as high, so that a peak survives the merge; and no line       *)
(* runs over a bucket in which the game was only seen stopped (metrics.go:36,   *)
(* sample, snapshot, aggregateSamples, chartLines).                           *)
PeaksDrawn ==
  /\ dropped # Nil => dropped < clock - Day
  /\ \A spec \in metricsWindowSpecFor :
       LET shown == snapshot(spec)
       IN  /\ \A s \in Filtered(spec) : \E b \in shown.samples :
                /\ b.ts \div spec.step = s.ts \div spec.step
                /\ b.gameRAM >= s.gameRAM
                /\ b.gameCPU >= s.gameCPU
                /\ b.sysCPU >= s.sysCPU
           /\ \A l \in shown.view.ram \cup shown.view.cpu.game, s \in Filtered(spec) :
                (l[1].ts < s.ts /\ s.ts < l[2].ts) =>
                   \E t \in Filtered(spec) :
                     /\ t.ts \div spec.step = s.ts \div spec.step
                     /\ t.gameRAM # Nil
           /\ shown.available = \E s \in Filtered(spec) : s.gameRAM # Nil

(* The game's CPU time is part of the machine's, and so its line never runs     *)
(* above the machine's: a game that was restarted between two readings, whose   *)
(* counter began again, never shows time it did not use (read, readSystemCPU). *)
GameWithinSystem ==
  \A i \in DOMAIN samples :
    (samples[i].gameCPU # Nil /\ samples[i].sysCPU # Nil)
      => samples[i].gameCPU <= samples[i].sysCPU
=============================================================================
