SPECIFICATION PFairSpec
CONSTANTS
  Pids <- MCPids
  TslCap = 1
  QemuSystem = FALSE
  UsesAsan = TRUE
  InstRatio = FALSE
  IsPersistent = TRUE
  MaxCnt = 2
  CntMod = 3
INVARIANTS RunsOnCommand StopFlagExact
PROPERTIES RunTerminates PersistentServerLeaves PersistentRefinesTestRunner
\* The system stops for good once afl-fuzz, the server and the children are gone.
CHECK_DEADLOCK FALSE
