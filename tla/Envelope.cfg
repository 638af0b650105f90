SPECIFICATION Spec
CONSTANTS
    p1 = p1
    p2 = p2
    k1 = k1
    k2 = k2
    None = None
    Procs <- MCProcs
    Requests <- MCRequests
    Envs <- MCEnvs
    Fleets <- MCFleets
    MaxDamage = 1
INVARIANTS
    EntriesAsAsked
    ServesOnlyWhatWasStored
    FleetReadable
PROPERTIES
    EvidenceRetained
    DamageHeals
CHECK_DEADLOCK FALSE
