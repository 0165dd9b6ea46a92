SPECIFICATION Spec
CONSTANTS
    p1 = p1
    p2 = p2
    t1 = t1
    t2 = t2
    t3 = t3
    k1 = k1
    k2 = k2
    v1 = v1
    v2 = v2
    s1 = s1
    s2 = s2
    create = create
    alter = alter
    edited = edited
    broken = broken
    a = a
    b = b
    twin = twin
    c1 = c1
    c2 = c2
    Null = Null
    Idle = Idle
    Error = Error
    Nobody = Nobody
    Threads = {t1, t2, t3}
    Procs = {p1, p2}
    ProcOf <- TheProcOf
    Keys = {k1, k2}
    Values = {v1, v2}
    StoreCasts <- TheStores
    MaxCalls = 2
    Servers = {s1, s2}
    Releases <- TheReleases
    Repeatable = {alter}
    Broken = {broken}
    MaxStarts = 3
    Paths <- ThePaths
    LocalPath <- TheLocalPath
    MaxCommits = 2
    MaxCommands = 3
INVARIANTS
    Legible
    Migrated
    LockHolds
PROPERTIES
    StoreIsAtomic
    HelpersKeepTables
SYMMETRY Symmetry
CHECK_DEADLOCK FALSE
