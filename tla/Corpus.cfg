SPECIFICATION FairSpec
CONSTANTS
  MapSize = 2
  MaxCount <- MCMaxCount
  Seeds = 1
  MaxEntries = 3
  Lens = {2}
  ExecTimes = {1}
  CalCycles = 1
  CalCyclesLong = 2
  CalChances = 2
  FewPaths = 1
INVARIANTS RefCounts PendingExact FavoredCover
PROPERTIES PendingDrains
CHECK_DEADLOCK FALSE
