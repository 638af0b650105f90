SPECIFICATION Spec
CONSTANTS
    p1 = p1
    p2 = p2
    c1 = c1
    c2 = c2
    c3 = c3
    None = None
    Procs <- MCProcs
    Calls <- MCCalls
    ProcOf <- MCProcOf
    Ttl = 2
    TtlBuffer = 1
    MaxTime = 2
    MaxVersion = 1
    Faults = {}
SYMMETRY Symmetry
PROPERTIES HerdComputesOnce
