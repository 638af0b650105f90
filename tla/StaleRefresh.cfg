CONSTANTS
    None = None
    p1 = p1
    p2 = p2
    k1 = k1
    j1 = j1
    j2 = j2
    j3 = j3
    Procs = {p1, p2}
    Keys = {k1}
    Jobs = {j1, j2, j3}
    ProcOf <- MCProcOf
    Requests <- MCRequests
    Limits = {1, 2}
    Cap = 4
    MaxCancels = 1
SPECIFICATION FairSpec
INVARIANTS
    RefreshesAccounted
    AtMostOnePerKey
    LeaseExclusive
PROPERTIES
    NeverUnrevalidatable

