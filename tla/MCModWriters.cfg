SPECIFICATION Spec
CONSTANTS
    Names = {"x", "y", "f", "s"}
    Pollers = {"f", "s"}
    Requests <- TwoWriters
    RingCap = 1
    MaxNames = 2
    MaxEvents = 2
INVARIANTS
    RecordsWhole
CHECK_DEADLOCK FALSE
