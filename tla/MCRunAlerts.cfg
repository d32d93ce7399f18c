SPECIFICATION FairSpec
CONSTANTS
    Runs = {r1}
    p1 = p1
    p2 = p2
    Alerts = {p1, p2}
    Findings <- SteadyFindings
    Loop = loop
    Requests = {q1}
    Lease = 1
    MaxEvaluations = 3
    MaxDeliveries = 2
    HttpAttempts = 3
    MaxPass = 1
    MaxFaults = 1
    NoRun = NoRun
INVARIANTS
    TypeOK
    AtMostOneMessage
    StateIsTrue
    AlertsFollowBatch
    OneSender
    UntouchedBeforeApproval
    AlertsAnnounced
PROPERTIES
    SettledStands
    ImplementsOutbox
    ReportedIsPublished
    ApprovedIsSettled
