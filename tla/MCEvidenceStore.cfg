SPECIFICATION Spec
CONSTANTS
    Processes = {p1, p2}
    Host <- TwoHosts
    Inodes = {1, 2, 3, 4}
    MaxCrashes = 1
    MaxPuts = 2
    None = None
SYMMETRY Alike
PROPERTIES
    ImplementsObject
CHECK_DEADLOCK FALSE
