SPECIFICATION FairSpec
CONSTANTS
    p1 = p1
    p2 = p2
    c1 = c1
    c2 = c2
    c3 = c3
    None = None
    Procs <- MCProcs
    Calls <- MCCalls2
    ProcOf <- MCProcOf2
    Ttl = 2
    TtlBuffer = 1
    MaxTime = 0
    MaxVersion = 1
    Faults = {"open", "read", "write", "delete", "lock", "lock_plain", "wait", "lease", "release", "func", "crash", "stale"}
INVARIANTS
    RunsOncePerCall
    InvalidationSticks
    L1Tracked
PROPERTIES
    EveryCallEnds
