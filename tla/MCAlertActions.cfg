SPECIFICATION Spec
CONSTANTS
    AlertIds = {p1}
    Operators = {o1, o2}
    MaxActions = 3
    NoAlert = NoAlert
SYMMETRY OperatorSymmetry
CHECK_DEADLOCK FALSE
INVARIANTS
    HistoryIsComplete
    ChangesWereLegalOnce
    AuditTellsActions
