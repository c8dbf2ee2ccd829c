SPECIFICATION FairSpec
CONSTANTS
  f1 = f1
  f2 = f2
  b1 = b1
  b2 = b2
  Fuzzers <- MCFuzzers
  Bits <- MCBits
  Inputs <- MCSingles
  MaxTrims = 0
  MaxRestarts = 0

PROPERTIES CasesArrive
CHECK_DEADLOCK FALSE
