CONSTANTS
  Files <- MCFiles
  TMIN_SET_STEPS = 2
  TMIN_SET_MIN_SIZE = 2
  TRIM_START_STEPS = 2
  MaxHangs = 1
SPECIFICATION Spec
INVARIANTS ResultReproduces DeletionMinimal
PROPERTIES Terminates
\* afl-tmin ends.
CHECK_DEADLOCK FALSE
