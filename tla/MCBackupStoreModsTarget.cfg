\* An old package is imported under its own name and deployed on a nearly
\* full disk.
CONSTANTS
  DayLength = 1  WeekLength = 2  MonthLength = 3
  HotWindow = 1  DailyWindow = 2  MonthlyWindow = 3
  PressureWindow = 0
  KeepManual = 1  KeepPredeploy = 1  KeepMods = 1  KeepInit = 1
  StateBudget = 3  MinFree = 2  WarnFree = 5
  Capacity = 12  Others = {0, 6}
  Horizon = 2  MaxPerTick = 1  ImportAhead = 0  MaxImports = 2
  MaxStuck = 0  MaxDamage = 0
SPECIFICATION Spec
INVARIANT ModsTargetKept
