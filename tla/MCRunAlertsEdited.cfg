SPECIFICATION Spec
CONSTANTS
    Runs = {r1}
    p1 = p1
    p2 = p2
    Alerts = {p1, p2}
    Findings <- EditedFindings
    Loop = loop
    Requests = {q1}
    Lease = 1
    MaxEvaluations = 3
    MaxDeliveries = 2
    HttpAttempts = 2
    MaxPass = 1
    MaxFaults = 1
    NoRun = NoRun
INVARIANTS
    AlertsAnnounced
