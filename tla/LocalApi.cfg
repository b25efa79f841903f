SPECIFICATION FairSpec
CONSTANTS
    Addrs = {a1}
    PoolSize = 2
    Poll = 2
    Timeouts <- MCTimeouts
    Gap = 2
    MaxConns = 1
    MaxJobs = 3
    MaxTime = 3
    Loads <- MCLoads
CHECK_DEADLOCK FALSE
INVARIANTS
    AnswersSound
    EventsKeepUp
PROPERTIES
    RequestsEnd
