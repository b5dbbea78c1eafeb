SPECIFICATION AnalyzersSpec
CONSTANTS
    a = a
    b = b
    p = p
    q = q
    Procs = {p, q}
    Threads = {a, b}
    x = x
    y = y
    Items = {x, y}
    THRESHOLD = 2
    RING_LEN = 3
    WINDOW = 1
    DISTINCT_MIN = 2
    MapCap = 1
    RingCap = 1
    StatMax = 1
    MaxTouches = 5
    MaxRaced = 3
    MaxTime = 2
    None = None
SYMMETRY Symmetry
INVARIANTS
    TypesOK
    
    
    SessionsReported
    CallsReportedOnce
    
    NoCandidateLost
CHECK_DEADLOCK FALSE
