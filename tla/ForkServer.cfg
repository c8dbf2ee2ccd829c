SPECIFICATION FairSpec
CONSTANTS
  Pids <- MCPids
  TslCap = 1
  QemuSystem = TRUE
  UsesAsan = FALSE
  InstRatio = TRUE
INVARIANTS TypeOK PipeInSync TraceIsolation StatusIsOwn
PROPERTIES NoFalseCrash RefinesTestRunner RunTerminates ServerLeaves
