---------------------------- MODULE MCPanelAuth -----------------------------
(* What the panel process keeps in memory about its visitors and its       *)
(* machine: passwords and sessions (PanelAuth), the download limiter and   *)
(* the metrics.  They share no state, so a behaviour exercises one of them; *)
(* the variables of the others are Off.                                     *)
EXTENDS PanelAuth, TLC

CONSTANTS Clients, MaxPerKey, MaxClients, Period, MaxTime,
          Day, Step, MaxGap, MaxClock

ASSUME MCPanelAuthAssumption ==
  /\ MaxPerKey \in Nat \ {0} /\ MaxClients \in Nat \ {0}
  /\ Period \in Nat /\ MaxTime \in Nat
  /\ Day \in Nat /\ Step \in Nat \ {0} /\ MaxGap \in Nat /\ MaxClock \in Nat

VARIABLES
  part,
  now, entries, served, promised, broken,
  clock, due, running, usage, busy, lastGame, lastSys, samples, dropped

limiterVars == <<now, entries, served, promised, broken>>
metricsVars == <<clock, due, running, usage, busy, lastGame, lastSys, samples,
                 dropped>>
panelVars == <<part, vars, limiterVars, metricsVars>>

L == INSTANCE PanelLimiter WITH told <- promised
M == INSTANCE PanelMetrics

(* Browsers differ in nothing but what they do, and so do passwords.       *)
Alike == Permutations(Browsers) \cup Permutations(Chosen)

Off == "off"

LimiterOff ==
  now = Off /\ entries = Off /\ served = Off /\ promised = Off /\ broken = Off

MetricsOff ==
  /\ clock = Off /\ due = Off /\ running = Off /\ usage = Off /\ busy = Off
  /\ lastGame = Off /\ lastSys = Off /\ samples = Off /\ dropped = Off

PanelInit ==
  /\ Init
  /\ \/ part = "auth" /\ LimiterOff /\ MetricsOff
     \/ part = "limiter" /\ L!Init /\ MetricsOff
     \/ part = "metrics" /\ M!Init /\ LimiterOff

PanelNext ==
  /\ UNCHANGED part
  /\ \/ part = "auth" /\ Next /\ UNCHANGED <<limiterVars, metricsVars>>
     \/ part = "limiter" /\ L!Next /\ UNCHANGED <<vars, metricsVars>>
     \/ part = "metrics" /\ M!Next /\ UNCHANGED <<vars, limiterVars>>

PanelSpec == PanelInit /\ [][PanelNext]_panelVars

-----------------------------------------------------------------------------
(* PanelLimiter: the limit holds and Retry-After is kept (limiter.go).     *)
LimitIsFair == part = "limiter" => L!TypeOK /\ L!LimitIsFair

(* PanelMetrics: no reading of the day is lost or hidden, and the game's   *)
(* line stays below the machine's (metrics.go).                            *)
ChartIsTrue ==
  part = "metrics" => M!TypeOK /\ M!PeaksDrawn /\ M!GameWithinSystem
=============================================================================
