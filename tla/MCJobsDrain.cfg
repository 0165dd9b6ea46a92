SPECIFICATION FairSpec
CONSTANTS
    h1 = h1
    h2 = h2
    w1 = w1
    w2 = w2
    c1 = c1
    c2 = c2
    Handles = {h1}
    Workers = {w1, w2}
    HandleOf <- OneProcess
    Queues = {"emails"}
    QueueOf <- OneQueue
    Callers = {c1, c2}
    ControlOf <- StopsFirst
    Nobody = Nobody
    MaxJobs = 1
    MaxAttempts = 2
    TicksPerSecond = 2
    BackoffUnit = 1
    Delays = {1}
    MaxCrashes = 0
    MaxFaults = 1
    HandlersMayStop = TRUE
INVARIANT StopDrains
PROPERTIES JobsSettle StopReturns
