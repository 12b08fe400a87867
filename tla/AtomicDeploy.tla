---------------------------- MODULE AtomicDeploy ----------------------------
(***************************************************************************)
(* What "mods deploy" and "state deploy" promise their caller.             *)
(*                                                                         *)
(* A deploy replaces one set of live files by another.  The command either *)
(* succeeds and the new set is live, or reports an error and the old set   *)
(* is live.  When the process dies the live files may be torn between the  *)
(* two sets, but unless the new set is complete every old file is still    *)
(* somewhere on the disk (kept), so an operator can put it back.           *)
(***************************************************************************)
VARIABLES
  outcome,   \* what the caller has seen: pending, ok, error, or crashed
  live,      \* which set is live: before, after, or torn
  kept       \* is every file of the old set still on the disk?

vars == <<outcome, live, kept>>

Init ==
  /\ outcome = "pending"
  /\ live = "before"
  /\ kept = TRUE

Succeed ==
  /\ outcome = "pending"
  /\ outcome' = "ok"
  /\ live' = "after"
  /\ kept' \in BOOLEAN

Fail ==
  /\ outcome = "pending"
  /\ outcome' = "error"
  /\ UNCHANGED <<live, kept>>

Crash ==
  /\ outcome = "pending"
  /\ outcome' = "crashed"
  /\ live' \in {"before", "after", "torn"}
  /\ kept' \in BOOLEAN
  /\ live' # "after" => kept'

Next == Succeed \/ Fail \/ Crash

Spec == Init /\ [][Next]_vars
=============================================================================
