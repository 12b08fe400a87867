\* One failed operation anywhere, a crash at any step, late systemd jobs and a
\* server that dies on its own.  No symmetry: liveness is checked.
CONSTANTS
  p1 = p1  p2 = p2  w1 = w1  cfg = cfg
  Players <- MCPlayers
  World <- MCWorld
  Config <- MCConfig
  MaxFaults = 1
  LateJobs = TRUE
  MaxGameCrashes = 1
SPECIFICATION FairSpec
INVARIANTS
  Reversible
  ServerStopsAndReturns
PROPERTIES
  KeepsPromise
  Terminates
