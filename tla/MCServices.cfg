SPECIFICATION ServicesSpec
CONSTANTS
    main = main
    p1 = p1
    p2 = p2
    data = data
    lock = lock
    Null = Null
    Programs <- AllPrograms
    Documented <- Patterns
    Procs = {main, p1, p2}
    Main = main
    Chans = {data, lock}
    c1 = c1
    Clients = {c1}
    Budgets <- TheBudgets
    Parts = 2
    Bounds <- TheBounds
    Labels <- TheLabels
    Amounts = {1, 2, 3}
    MetricNames = {"m"}
    MaxTime = 4
    MaxCalls = 4
    MaxRecords = 3
    CallCasts <- TheCalls
    DefaultLimit = 16
    Payloads <- ThePayloads
    Secrets = {"old", "new"}
    Lives <- TheLives
    DefaultLife = 3
    Slot = 2
    Drift = 1
    Tolerance = 2
    MaxClock = 5
    MaxIssued = 2
    Hours = 2
    Minutes = 2
    Rules <- TheRules
    Starts <- TheStarts
    Durations = {0, 3}
    SearchDays = 1460
    MaxFirings = 3
    Behaviours = {"serves", "ends", "hangs"}
    MaxSaves = 2
    Suites <- TheSuites
    Filters <- TheFilters
INVARIANTS
    PatternsHold
    BooksMatchHistory
    CallsAnswer
    CredentialsHold
    CronOnTime
    TestsAreSound
    CollectionsAgree
    RendersAsRead
    FaultsReported
PROPERTIES
    DocumentedEnd
    WatchFollows
CHECK_DEADLOCK FALSE
