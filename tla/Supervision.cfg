\* A Windows machine with the host service, three failures or settings changes, one viewer.
CONSTANTS
    MaxRestarts = 2
    Viewers = {v1}
    HasService = TRUE
    MaxFaults = 3
SPECIFICATION FairSpec
CHECK_DEADLOCK FALSE
INVARIANTS
    ProgramsInStep
PROPERTIES
    SupervisorKept
    ClientGetsHello
