SPECIFICATION Spec
CONSTANTS
    Engines <- OneEngine
    Queued = {"syscalls", "funcs"}
    Signals = {"SIGINT", "SIGTERM"}
    MayFail = {}
    QCap = 1
    MaxEvents = 1
INVARIANTS
    NoSilentDiscard
CHECK_DEADLOCK FALSE
