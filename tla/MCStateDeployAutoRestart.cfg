\* The server crashed just before the check and systemd is about to restart it.
CONSTANTS
  p1 = p1  p2 = p2  w1 = w1  cfg = cfg
  Players <- MCOnePlayer
  World <- MCWorld
  Config <- MCConfig
  MaxFaults = 0
  LateJobs = FALSE
  MaxGameCrashes = 1
SPECIFICATION Spec
INVARIANTS
  ServerDownDuringSwitch
