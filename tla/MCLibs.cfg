SPECIFICATION LibsSpec
CONSTANTS
    p1 = p1
    p2 = p2
    p3 = p3
    libsel = libsel
    libother = libother
    libscope = libscope
    None = None
    Pids = {p1, p2, p3}
    Main = p1
    Modes <- AllModes
    PidCap = 2
    Addrs = {1, 2, 3}
    Libs = {libsel, libscope, libother}
    Selected = {libsel, libscope}
    ScopeLibs = {libscope}
    ZygoteMaps <- OneInherited
    RingCap = 2
    RangeCap = 2
    MapCap = 1
    MaxOps = 3
SYMMETRY Symmetry
INVARIANTS
    TypesOK
    RangesDistinct
    ArmedWasSelected
    FilterComplete
    PidGateExact
    
    
    
CHECK_DEADLOCK FALSE
