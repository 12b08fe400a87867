\* Two failed operations anywhere, a crash at any step, late systemd jobs, a
\* server that dies on its own, and a doctor that starts at any moment.
CONSTANTS
  MaxFaults = 2
  LateJobs = TRUE
  MaxGameCrashes = 1
SPECIFICATION DoctorSpec
INVARIANTS
  PublishedLast
  ServerStopsAndReturns
  DoctorIsRight
PROPERTIES
  KeepsPromise
