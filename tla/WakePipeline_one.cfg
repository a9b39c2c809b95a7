SPECIFICATION FairSpec
CONSTANTS
    Machine = {m1}
    Client = {c1}
    Worker = {w1}
    Kinds <- AllKinds
    MaxRequests = 2
    MaxTimeout = 1
    MaxFaults = 2
    MaxEdits = 1
INVARIANTS
    TypeOK
    AttemptIsQueued
    RunningIsAttended
    PartialWorkInvisible
    DoneIsRecorded
PROPERTIES
    LifecycleKept
    QueuedIsClaimed
