SPECIFICATION Spec
CONSTANTS
    p1 = p1
    p2 = p2
    p3 = p3
    libsel = libsel
    libother = libother
    libscope = libscope
    None = None
    Pids = {p1, p2, p3}
    Main = p1
    Modes <- AttachModes
    PidCap = 2
    Addrs = {1, 2, 3}
    Libs = {libscope, libother}
    Selected = {libscope}
    ScopeLibs = {libscope}
    ZygoteMaps <- OneInherited
    RingCap = 2
    RangeCap = 2
    MapCap = 2
    MaxOps = 4
SYMMETRY Symmetry
INVARIANTS
    MissesCounted
CHECK_DEADLOCK FALSE
