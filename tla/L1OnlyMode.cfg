SPECIFICATION FairModeSpec
CONSTANTS
    k1 = k1
    k2 = k2
    a1 = a1
    a2 = a2
    None = None
    Keys <- MCKeys
    Actors <- MCActors
    MaxEntries = None
    MaxBytes = 1
    Sizes = {1}
    Ttl = 2
    Thresholds = {0}
    MaxTime = 2
    MaxGeneration = 2
    MaxSlots = 1
    Kinds = {"sync", "async"}
    Faults = {"early_cancel", "exit", "fork"}
INVARIANTS
    RefreshesAccounted
    LiveKeysTracked
PROPERTIES
    RefreshesEnd
CHECK_DEADLOCK FALSE
