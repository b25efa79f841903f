SPECIFICATION CloudFairSpec
CONSTANTS
    Devices = {own}
    Own = own
    MaxRev = 3
    MaxCode = 2
    MaxCalls = 2
    MaxLosses = 1
CHECK_DEADLOCK FALSE
INVARIANTS
    ListConverges
    CloudHasCode
PROPERTIES
    SyncRecovers
