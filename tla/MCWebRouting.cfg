SPECIFICATION FairSpec
CONSTANTS
    r1 = r1
    r2 = r2
    Programs <- RoutingPrograms
    Middlewares = {"a", "b", "c"}
    Requests = {r1, r2}
    Methods = {"GET", "POST", "OPTIONS"}
    Paths <- UserPaths
    Urls <- LookupPaths
INVARIANTS
    GuardedBody
    GroupsDoNotLeak
    ServesThePreferred
    ParamsWhenNamesAgree
PROPERTY RequestsAnswered
CHECK_DEADLOCK FALSE
