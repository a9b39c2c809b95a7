SPECIFICATION FairSpec
CONSTANTS
    Request = {r1, r2}
    Session = {s1}
    Token = {t1}
    Lifetime = 1
    MaxAge = 1
    AnswerFirst = TRUE
    MaxTime = 1
    MaxRequests = 4
    MaxFaults = 1
CHECK_DEADLOCK FALSE
PROPERTIES
    RequestsEnd
