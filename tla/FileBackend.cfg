SPECIFICATION Spec
CONSTANTS
    k1 = k1
    k2 = k2
    a1 = a1
    a2 = a2
    p1 = p1
    p2 = p2
    None = None
    Keys <- MCKeys
    Actors <- MCActors
    Procs <- MCProcs
    Placements <- MCPlacements
    MaxEntries = 2
    MaxSize = 2
    Sizes = {1}
    Ttls = {1}
    TempAge = 0
    MaxTime = 2
    MaxWrites = 2
    Faults = {"corrupt", "crash", "interrupt", "short", "unlink"}
SYMMETRY Symmetry
INVARIANTS
    TypeOK
    RoomIsMade
PROPERTIES
    ReaderDropsOnlyDead
    ExpiredStaysDead
    ImplementsLossyCache
CHECK_DEADLOCK FALSE
