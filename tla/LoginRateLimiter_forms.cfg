SPECIFICATION Spec
CONSTANTS
    Address = {a1, a2}
    Window = 3
    MaxAttempts = 2
    MaxTime = 6
    MaxLogins = 5
SYMMETRY Symmetry
INVARIANT
    LoginsAreLimited
