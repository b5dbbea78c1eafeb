SPECIFICATION Spec
CONSTANTS
    t1 = t1
    t2 = t2
    openat = openat
    read = read
    futex = futex
    s1 = s1
    None = None
    Tids = {t1}
    CompatTids = {}
    Nrs = {openat, futex}
    Wanted = {futex}
    RetProbed = {openat}
    Scoped = {}
    CaptureAll = TRUE
    Snapshots = FALSE
    Stacks = {s1}
    ProbeMayMiss = FALSE
    AllocMayFail = FALSE
    RingCap = 4
    QCap = 4
    PendingCap = 2
    MaxCalls = 2
INVARIANTS
    ReturnsPaired
CHECK_DEADLOCK FALSE
