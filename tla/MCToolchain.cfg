SPECIFICATION Spec
CONSTANTS
    Sources <- MCSources
    Runnable <- MCRunnable
INVARIANTS
    ReadsAsWritten
    AcceptedRuns
PROPERTIES
    FmtKeepsContent
    FmtSettles
CHECK_DEADLOCK FALSE
