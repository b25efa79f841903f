SPECIFICATION DisplayFairSpec
CONSTANTS
    Callers = {p1, p2}
    Indices <- MCIndices
    MaxMonitorCount = 1
    MaxRetries = 1
    MaxFrames = 1
    MaxMonitors = 2
    MaxChains = 2
    MaxFaults = 1
CHECK_DEADLOCK FALSE
INVARIANTS
    MonitorsTracked
    ThreadsOwned
PROPERTIES
    CallbacksReturn
