SPECIFICATION Spec
CONSTANTS
    Processes = {p1, p2}
    Host <- TwoHosts
    Inodes = {1, 2, 3, 4}
    MaxCrashes = 0
    MaxPuts = 2
    None = None
INVARIANTS
    ToldObjectStays
CHECK_DEADLOCK FALSE
