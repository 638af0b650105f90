SPECIFICATION CollectorSpec
CONSTANTS
    None = None
    Threads = {t1, t2}
    MaxMetrics = 3
    MaxQueueSize = 1
    BatchSize = 2
    PoolSize = 1
    MaxSwitches = 2
    MaxRefusals = 1
INVARIANTS
    MetricsAccounted
    NoDictShared
PROPERTIES
    EventuallyCounted
CHECK_DEADLOCK FALSE
