SPECIFICATION FairSpec
CONSTANTS
    h1 = h1
    h2 = h2
    w1 = w1
    w2 = w2
    c1 = c1
    c2 = c2
    Handles = {h1, h2}
    Workers = {w1, w2}
    HandleOf <- TwoProcesses
    Queues = {"emails"}
    QueueOf <- OneQueue
    Callers = {}
    ControlOf <- StopsFirst
    Nobody = Nobody
    MaxJobs = 1
    MaxAttempts = 2
    TicksPerSecond = 2
    BackoffUnit = 1
    Delays = {1}
    MaxCrashes = 1
    MaxFaults = 0
    HandlersMayStop = FALSE
PROPERTY StartedJobsSettle
