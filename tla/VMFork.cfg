SPECIFICATION FairSpec
CONSTANT MaxOps = 3
INVARIANTS MutexHasOwner ForkQuiescent ServerLeavesNoTrace
PROPERTIES HandoverCompletes ChildResumes IoGetsMutex
CHECK_DEADLOCK FALSE
