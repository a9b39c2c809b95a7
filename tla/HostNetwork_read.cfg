SPECIFICATION Spec
CONSTANTS
    Interface = {"lo", "eth0", "wlan0"}
    Lo = "lo"
    Class <- Classes
    Radio = {"wlan0"}
    Address = {{0, 3}, {1, 3}, {0, 2}}
    PrefixLen = {2, 3, 4}
    HalfWidth = 2
    MaxAddresses = 2
    MaxChanges = 1
CHECK_DEADLOCK FALSE
INVARIANTS
    TypeOK
    ReportedWasTrue
    AddressesAreRight
