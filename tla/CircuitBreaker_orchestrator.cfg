SPECIFICATION FairSpec
CONSTANTS
    u1 = u1
    u2 = u2
    u3 = u3
    Users <- MCUsers2
    FailureThreshold = 2
    SuccessThreshold = 1
    Timeout = 1
    HalfOpenRequests = 1
    Setups <- AsyncDecorator
PROPERTIES
    RecoversWhenHealthy
