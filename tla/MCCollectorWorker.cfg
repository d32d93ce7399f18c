SPECIFICATION Spec
CONSTANTS
    Models = {m1}
    Slots = {1}
    Agents = {a1}
    l1 = l1
    Listings = {l1}
    Reports <- MCReports
    Lease = 1
    MaxRequests = 2
    NoRun = NoRun
    NoAgent = NoAgent
    NoJob = NoJob
    NoReport = NoReport
    s1 = s1
    s2 = s2
    Shots = {s1, s2}
    Evidence <- MCEvidence
    MaxFaults = 4
    Nothing = Nothing
INVARIANTS
    TypeOK
    SentReportIsBacked
PROPERTIES
    CapturesOutliveWork
    RunsComeToAnEnd
CHECK_DEADLOCK FALSE
