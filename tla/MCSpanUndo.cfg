SPECIFICATION Spec
CONSTANTS
    Engines = {"funcs"}
    Entry = {"f"}
    SaveOnly = {}
    Returns = {"f"}
    Others = {}
    MAX_SPAN_DEPTH = 1
    Hazards = {"drop"}
    TopSp = 2
    MaxNest = 2
    MaxCalls = 2
PROPERTIES
    UndoOwnPush
CHECK_DEADLOCK FALSE
