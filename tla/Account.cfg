SPECIFICATION FairSpec
CONSTANTS
    MaxLogins = 2
    MaxGen = 2
    MaxFaults = 2
CHECK_DEADLOCK FALSE
INVARIANTS
    SpentOnlyAfterLoss
PROPERTIES
    SessionEndsForCause
    ComesOnline
