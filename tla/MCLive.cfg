SPECIFICATION Spec
CONSTANTS
    c1 = c1
    c2 = c2
    ticker = ticker
    timeout = timeout
    r1 = r1
    admin = admin
    Conns <- TheConns
    Timers <- TheTimers
    Kind <- TheKind
    Job <- TheJob
    Failing = {ticker}
    Stoppers <- TheStoppers
    Requests = {r1}
    Casts <- TheCasts
INVARIANTS
    FramesWhole
    Delivered
PROPERTY Ends
CHECK_DEADLOCK FALSE
