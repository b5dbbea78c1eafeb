SPECIFICATION Spec
CONSTANTS
    Keys = {"x", "y"}
    Hash <- MCHash
    Cap0 = 4
    MaxCap = 4
    QueueCap = 1
    MaxOpens = 4
    MaxUses = 5
INVARIANTS
    ClosedIsForgotten
CHECK_DEADLOCK FALSE
