SPECIFICATION Spec
CONSTANTS
    Request = {r1, r2}
    Name = {n1, n2}
    Scripts = FALSE
    MaxRequests = 11
    MaxFaults = 1
SYMMETRY Symmetry
CHECK_DEADLOCK FALSE
INVARIANTS
    TypeOK
    CompletedHasAdmin
PROPERTIES
    FirstAccountComesWithStep
