\* Both bounds at once; a size that fits twice, one that fits once, one that never fits.
SPECIFICATION Spec
CONSTANTS
    k1 = k1
    k2 = k2
    k3 = k3
    a1 = a1
    a2 = a2
    None = None
    Keys <- MCKeys
    Actors <- MCActors
    MaxEntries = 2
    MaxBytes = 3
    Sizes = {1, 2, 4}
    Ttl = 2
    Thresholds = {0, 1}
    MaxTime = 3
    MaxGeneration = 2
SYMMETRY Symmetry
INVARIANTS
    BytesAccounted
    MarkerMatchesLiveEntry
    NoResurrection
    SingleRefreshPerEntry
PROPERTIES
    EvictionKeepsRecent
    ImplementsLossyCache
CHECK_DEADLOCK FALSE
