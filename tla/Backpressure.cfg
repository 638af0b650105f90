SPECIFICATION FairControllerSpec
CONSTANTS
    r1 = r1
    r2 = r2
    r3 = r3
    r4 = r4
    Requests <- MCRequests
    MaxConcurrent = 2
    QueueSize = 2
INVARIANTS
    CapacityAccounted
PROPERTIES
    EveryRequestEnds
    AdmitsAgain
CHECK_DEADLOCK FALSE
