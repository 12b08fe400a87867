\* Keep counts of one and a disk that any command may find too full; texts of
\* up to three characters; archives of up to ten entries; three archives listed
\* one to a page.  In the runs of the planner a day is two ticks, and weeks and
\* months do not nest, so periods straddle the windows; more than StateBudget
\* archives are pressure.
CONSTANTS
  DayLength = 1  WeekLength = 2  MonthLength = 3
  HotWindow = 1  DailyWindow = 2  MonthlyWindow = 3
  PressureWindow = 0
  KeepManual = 1  KeepPredeploy = 1  KeepMods = 1  KeepInit = 1
  StateBudget = 3  MinFree = 2  WarnFree = 5
  Capacity = 12  Others = {0, 6}
  Horizon = 3  MaxPerTick = 1  ImportAhead = 0  MaxImports = 1
  MaxStuck = 1  MaxDamage = 1
  MaxValue = 3  MaxLine = 6
  MaxEntries = 10  MaxBlocks = 18  NoList = NoList
  MaxNow = 3  MaxArchives = 3  MaxChanges = 2  Limit = 1
  RunsDay = 2  RunsWeek = 4  RunsMonth = 5
  RunsHot = 3  RunsDaily = 6  RunsMonthly = 9  RunsPressure = 1
  RunsHorizon = 11  RunsFiles = 5
SPECIFICATION StoreSpec
INVARIANTS
  FollowsPolicy
  TargetsKept
  ArchiveReads
  BackupRestores
  PagesComplete
PROPERTIES
  MonthsForever
  ReferencedKept
  NewestKept
  ReadsBack
