SPECIFICATION ClientFairSpec
CONSTANTS
    Devices = {d1, d2}
    None = None
    MaxConns = 2
    MaxInFlight = 2
    MaxLists = 1
    MaxVerifying = 1
CHECK_DEADLOCK FALSE
INVARIANTS
    TablesAgree
    ViewConverges
PROPERTIES
    ConnectSettles
