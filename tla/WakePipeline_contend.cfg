SPECIFICATION FairSpec
CONSTANTS
    Machine = {m1}
    Client = {c1}
    Worker = {w1, w2}
    Kinds <- ShortAndLong
    MaxRequests = 2
    MaxTimeout = 2
    MaxFaults = 0
    MaxEdits = 1
INVARIANTS
    PollsOwnOrNewer
PROPERTIES
    FullWindow
    RunningIsFinished
