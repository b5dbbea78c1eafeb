SPECIFICATION CallsSpec
CONSTANTS
    t1 = t1
    t2 = t2
    openat = openat
    read = read
    futex = futex
    s1 = s1
    None = None
    Tids = {t1, t2}
    CompatTids = {t2}
    Nrs = {openat}
    Wanted = {openat}
    RetProbed = {openat}
    Scoped = {openat}
    CaptureAll = FALSE
    Snapshots = TRUE
    Stacks = {s1}
    ProbeMayMiss = FALSE
    AllocMayFail = FALSE
    RingCap = 2
    QCap = 2
    PendingCap = 2
    MaxCalls = 3
INVARIANTS
    TypesOK
    PairingExact
    ReportedOnce
    StackIdResolves
    CachedPathsTrue
    ReturnIsOwn
    ReturnExpected
    CapturedWithinOpened
    ChainIntact
    SpansExact
CHECK_DEADLOCK FALSE
