\* Signing in: two browsers, two generated and two chosen passwords, one token
\* slot for both, one failed operation or kill.  Limiter: a table of two for
\* three addresses.  Metrics: a day of three ticks.  A stopped panel may stay
\* stopped.
CONSTANTS
  Browsers = {b1, b2}
  Chosen = {c1, c2}
  MaxTemps = 2
  MaxTokens = 1
  MaxAttempts = 1
  MaxFaults = 1
  None = None
  Clients = {x, y, z}
  MaxPerKey = 2
  MaxClients = 2
  Period = 3
  MaxTime = 5
  Day = 3
  Step = 2
  MaxGap = 3
  MaxClock = 5
SPECIFICATION PanelSpec
SYMMETRY Alike
INVARIANTS
  GateHolds
  PasswordIsUsable
  FailedResetRestores
  LimitIsFair
  ChartIsTrue
PROPERTIES
  ChangesAreSerial
CHECK_DEADLOCK FALSE
