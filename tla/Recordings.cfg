\* Two captures, the second of which may start at any point of the first.
SPECIFICATION FairSpec
CONSTANTS
    MaxCaptures = 2
    MaxAttempts = 2
    MaxFaults = 2
CHECK_DEADLOCK FALSE
INVARIANTS
    StoreSound
PROPERTIES
    CapturesEnd
    StoreSettles
