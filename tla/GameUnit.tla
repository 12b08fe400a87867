------------------------------ MODULE GameUnit ------------------------------
(***************************************************************************)
(* The systemd unit tes3mp.service as the ops commands drive it.           *)
(*                                                                         *)
(* Ops never waits for the unit itself: it runs "sudo -n rootctl <verb>"   *)
(* under a context deadline and looks only at how that command ended.      *)
(* systemd runs the job it was given even when the client was killed at    *)
(* the deadline, so a command that failed may still take effect later.     *)
(* The unit is Restart=on-failure with RestartSec=5s: a crashed server     *)
(* spends that time in "activating", which is-active does not call active. *)
(***************************************************************************)
EXTENDS Naturals

CONSTANTS
  LateJobs,         \* may a control command time out with its job still queued?
  MaxGameCrashes    \* bound: how often the server process dies on its own

ASSUME UnitAssumption ==
  /\ LateJobs \in BOOLEAN
  /\ MaxGameCrashes \in Nat

VARIABLES
  unit,             \* ActiveState of tes3mp.service
  job,              \* the job systemd still has to run for a killed client
  gameCrashes,      \* crashes of the server so far
  abandoned         \* history: commands killed with their job left behind

unitVars == <<unit, job, gameCrashes, abandoned>>

UnitStates == {"active", "activating", "inactive"}
Verbs      == {"start", "stop"}

UnitTypeOK ==
  /\ unit \in UnitStates
  /\ job \in Verbs \cup {"none"}
  /\ gameCrashes \in 0..MaxGameCrashes
  /\ abandoned \in SUBSET Verbs

UnitInit ==
  /\ unit \in {"active", "inactive"}
  /\ job = "none"
  /\ gameCrashes = 0
  /\ abandoned = {}

(* systemctl is-active prints "active" for that state alone; "activating", *)
(* "inactive" and the rest are a clean "no" (systemd.Client.IsActive).     *)
IsActive == unit = "active"

Reached(verb) == IF verb = "start" THEN "active" ELSE "inactive"

(* deployControl returned nil: systemctl finished the job, and the job     *)
(* replaced whatever systemd still had queued for the unit.                *)
ControlSucceeds(verb) ==
  /\ unit' = Reached(verb)
  /\ job' = "none"
  /\ UNCHANGED <<gameCrashes, abandoned>>

(* deployControl returned an error: either systemd refused the job, or the *)
(* deadline killed the client and the job stays behind.                    *)
ControlFails(verb) ==
  /\ \/ UNCHANGED <<job, abandoned>>
     \/ LateJobs /\ job' = verb /\ abandoned' = abandoned \cup {verb}
  /\ UNCHANGED <<unit, gameCrashes>>

-----------------------------------------------------------------------------
(* What systemd and the server do on their own.                            *)

JobRuns ==
  /\ job # "none"
  /\ unit' = Reached(job)
  /\ job' = "none"
  /\ UNCHANGED <<gameCrashes, abandoned>>

GameCrashes ==
  /\ unit = "active"
  /\ gameCrashes < MaxGameCrashes
  /\ unit' = "activating"
  /\ gameCrashes' = gameCrashes + 1
  /\ UNCHANGED <<job, abandoned>>

AutoRestart ==
  /\ unit = "activating"
  /\ unit' = "active"
  /\ UNCHANGED <<job, gameCrashes, abandoned>>

UnitStep == JobRuns \/ GameCrashes \/ AutoRestart
=============================================================================
