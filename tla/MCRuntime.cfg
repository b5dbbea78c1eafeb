SPECIFICATION RuntimeSpec
CONSTANTS
    Cap = 14
    OutCap = 2
    Recs <- MCRecs
    MaxCalls = 5
INVARIANTS
    TypesOK
    Framed
    EveryEventAccounted
    DrainExact
    NothingLeftArmed
    TornDownIdle
    MergedComplete
    ModEndsClean
PROPERTIES
    DrainCompletes
    ImplementsFifo
    AbortInDrainWarns
    StopEndsRun
CHECK_DEADLOCK FALSE
