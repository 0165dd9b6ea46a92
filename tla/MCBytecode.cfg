SPECIFICATION Spec
CONSTANT Programs <- EarlyReturnPrograms
INVARIANT SameOutcome
CHECK_DEADLOCK FALSE
