SPECIFICATION FairSpec
CONSTANTS
    Request = {r1, r2}
    Machine = {m1, m2, m3}
    Mac = {x, y}
    Text = {a, b}
    Inet = {b}
    Keys <- TwoKeys
    MaxRequests = 2
    MaxFaults = 1
CHECK_DEADLOCK FALSE
INVARIANTS
    TypeOK
    UniqueMacs
    CirclesAreSwaps
PROPERTIES
    EditsDoNotUndo
    AnswerIsStored
    RequestsEnd
