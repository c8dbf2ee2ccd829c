CONSTANTS
  Scenarios <- MCScenarios
  ARITH_MAX = 35
  EFF_MAP_SCALE2 = 1
  EFF_MIN_LEN = 4
  EFF_MAX_PERC = 90
  MIN_AUTO_EXTRA = 3
  MAX_AUTO_EXTRA = 4
  USE_AUTO_EXTRAS = 2
  MAX_AUTO_EXTRAS = 4
  MAX_DET_EXTRAS = 2
  Tuples = {b1, b2}
  KEEP_UNIQUE_CRASH = 2
  KEEP_UNIQUE_HANG = 1
SPECIFICATION Spec
INVARIANTS TypeOK TokensExact OverlaysExact TokensSurvive FaultsKeptExactly
PROPERTIES EvictsLeastUsed DetDoneComplete
\* afl-fuzz ends.
CHECK_DEADLOCK FALSE
