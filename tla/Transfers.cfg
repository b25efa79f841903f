SPECIFICATION FairSpec
CONSTANTS
    Conns = {c1}
    Files = {f1, f2}
    FileName <- MCFileName
    MaxPending = 2
    MaxTasks = 2
    MaxFaults = 1
CHECK_DEADLOCK FALSE
INVARIANTS
    TasksSound
    OneUploadAtATime
PROPERTIES
    QueueDrains
