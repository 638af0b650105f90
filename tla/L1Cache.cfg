SPECIFICATION Spec
CONSTANTS
    k1 = k1
    k2 = k2
    k3 = k3
    Absent = Absent
    Keys <- MCKeys
    MaxMemory = 4
    Sizes = {1, 2, 3, 5}
    Ttls = {1, 2, 3}
    TtlBuffer = 1
    MaxTime = 2
    MaxWrites = 2
SYMMETRY Symmetry
INVARIANTS
    BytesAccounted
PROPERTIES
    RecentSurvive
    ImplementsLossyCache
CHECK_DEADLOCK FALSE
