SPECIFICATION FairSpec
CONSTANTS
    Request = {r1, r2}
    Name = {n1}
    Scripts = TRUE
    MaxRequests = 5
    MaxFaults = 1
CHECK_DEADLOCK FALSE
PROPERTIES
    RequestsEnd
