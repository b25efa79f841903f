\* Two hosts, two clients that may share an id, full queues.
CONSTANTS
    Hosts = {h1, h2}
    Clients = {c1, c2}
    Ids = {x, y}
    None = None
    OutCap = 1
    MaxFrames = 1
SPECIFICATION FairSpec
CHECK_DEADLOCK FALSE
INVARIANTS
    RoutesFollowLatest
    FramesKeepTheirClient
PROPERTIES
    ClientsReleased
