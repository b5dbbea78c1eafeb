SPECIFICATION DrainsSpec
CONSTANTS
    Threads = {1}
    NKeys = 2
    Grace = 1
    ScratchCap = 1
    PendingCap = 2
    MaxMaps = 2
    MaxTime = 3
    None = None
INVARIANTS
    AlertedOnce
PROPERTIES
    CandidatesDecided
    HeldEntriesReported
CHECK_DEADLOCK FALSE
