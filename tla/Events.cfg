\* Two handlers change two rows or revoke sessions while Redis commands fail,
\* connections break or resume while they are live, queues overflow, the stream
\* is trimmed or expires and the process dies.
CONSTANTS
    Clients = {c1}
    Away = {a1}
    Publishers = {p1, p2}
    Keys = {k1}
    AllFamilies = AllFamilies
    NoKey = NoKey
    StreamMax = 1
    WorkCap = 1
    OutCap = 1
    Faults = {"incr", "xadd", "lpush", "xrange", "expire", "drop", "resume", "crash"}
    MaxCommits = 2
    MaxFaults = 2
SPECIFICATION FairSpec
CHECK_DEADLOCK FALSE
INVARIANTS
    TypeOK
    FanoutOrdered
    RevocationScoped
    CheckpointCovers
PROPERTIES
    ReplayComplete
    MirrorsConverge
