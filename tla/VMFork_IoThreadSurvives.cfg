SPECIFICATION Spec
CONSTANT MaxOps = 3
INVARIANTS IoThreadSurvives
CHECK_DEADLOCK FALSE
