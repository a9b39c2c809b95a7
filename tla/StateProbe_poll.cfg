SPECIFICATION Spec
CONSTANTS
    PingTimeout = 2
    TcpTimeout = 2
    PollInterval = 5
    PollTimeout = 20
    MaxLate = 22
    PingLife = 12
    MaxSteady = 10
INVARIANTS
    TypeOK
    VerdictInTime
    SteadyIsFound
    FewPingsLeft
