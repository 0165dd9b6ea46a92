SPECIFICATION Spec
CONSTANT Programs <- ConformingPrograms
INVARIANTS
    SameOutcome
    CodeIsSound
CHECK_DEADLOCK FALSE
