SPECIFICATION FairSpec
CONSTANTS
    u1 = u1
    u2 = u2
    u3 = u3
    Users <- MCUsers
    FailureThreshold = 2
    SuccessThreshold = 2
    Timeout = 1
    HalfOpenRequests = 2
    Setups <- SetupType
INVARIANTS
    TrialsLimited
PROPERTIES
    ClosesOnlyOnSuccesses
    RecoversUnderTrials
