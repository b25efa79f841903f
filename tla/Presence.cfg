\* Two connections of one host, a server process and its successor, one failure
\* of any kind.
CONSTANTS
    HostConns = {h1, h2}
    Instances = {i1, i2}
    Beat = Beat
    NoConn = NoConn
    KeyspaceEvents = TRUE
    Faults = {"break", "twin", "redis", "db", "stall", "unsub", "mute", "hang", "crash"}
    MaxRunning = 1
    MaxFaults = 1
SPECIFICATION PresenceFairSpec
CHECK_DEADLOCK FALSE
INVARIANTS
    AnnouncedOnce
PROPERTIES
    SubscribersTold
    HostEndsOnline
