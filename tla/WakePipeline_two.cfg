SPECIFICATION Spec
CONSTANTS
    Machine = {m1}
    Client = {c1, c2}
    Worker = {w1, w2}
    Kinds <- AllKinds
    MaxRequests = 2
    MaxTimeout = 1
    MaxFaults = 1
    MaxEdits = 1
SYMMETRY Symmetry
INVARIANTS
    JobHeldOnce
    OnePacketPerJob
    ReferencesHold
PROPERTIES
    LedgerKept
