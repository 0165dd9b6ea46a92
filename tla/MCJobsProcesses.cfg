SPECIFICATION Spec
CONSTANTS
    h1 = h1
    h2 = h2
    w1 = w1
    w2 = w2
    c1 = c1
    c2 = c2
    Handles = {h1, h2}
    Workers = {w1, w2}
    HandleOf <- TwoProcesses
    Queues = {"emails"}
    QueueOf <- OneQueue
    Callers = {}
    ControlOf <- StopsFirst
    Nobody = Nobody
    MaxJobs = 2
    MaxAttempts = 2
    TicksPerSecond = 2
    BackoffUnit = 2
    Delays = {0}
    MaxCrashes = 1
    MaxFaults = 0
    HandlersMayStop = FALSE
INVARIANTS TypeOK SingleRunner HolderOwnsRow FailsOnLastAttempt OrphansNeedAFault
PROPERTIES EarlyByLessThanASecond KeepsPromise
