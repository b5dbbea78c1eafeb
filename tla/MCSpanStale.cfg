SPECIFICATION Spec
CONSTANTS
    Engines = {"correlate"}
    Entry = {"f"}
    SaveOnly = {}
    Returns = {}
    Others = {}
    MAX_SPAN_DEPTH = 2
    Hazards = {}
    TopSp = 2
    MaxNest = 1
    MaxCalls = 2
INVARIANTS
    SyscallInOpenSpan
CHECK_DEADLOCK FALSE
