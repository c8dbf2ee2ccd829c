SPECIFICATION Spec
CONSTANTS
  f1 = f1
  f2 = f2
  b1 = b1
  b2 = b2
  Fuzzers <- MCFuzzers
  Bits <- MCBits
  Inputs <- MCInputs
  MaxTrims = 1
  MaxRestarts = 1
SYMMETRY MCSymmetry
INVARIANTS NoNameClash NoEcho CrashLosesOneCase
CHECK_DEADLOCK FALSE
