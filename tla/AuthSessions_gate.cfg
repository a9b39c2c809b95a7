SPECIFICATION Spec
CONSTANTS
    Request = {r1, r2}
    Session = {s1, s2}
    Token = {t1}
    Lifetime = 1
    MaxAge = 0
    AnswerFirst = TRUE
    MaxTime = 2
    MaxRequests = 5
    MaxFaults = 1
CHECK_DEADLOCK FALSE
SYMMETRY Symmetry
INVARIANTS
    TypeOK
    LetInByTheLiving
    CsrfOpensItsSession
    ReferencesHold
PROPERTIES
    NeverRevived
