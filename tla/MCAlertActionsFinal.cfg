SPECIFICATION Spec
CONSTANTS
    AlertIds = {p1}
    Operators = {o1, o2}
    MaxActions = 3
    NoAlert = NoAlert
CHECK_DEADLOCK FALSE
PROPERTIES
    DecisionsAreFinal
