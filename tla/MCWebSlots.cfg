SPECIFICATION Spec
CONSTANTS
    r1 = r1
    r2 = r2
    Programs <- SparePrograms
    Middlewares = {"a", "b", "c"}
    Requests = {r1, r2}
    Methods = {"GET", "POST"}
    Paths <- UserPaths
    Urls <- LookupPaths
INVARIANT GlobalThenRoute
CHECK_DEADLOCK FALSE
