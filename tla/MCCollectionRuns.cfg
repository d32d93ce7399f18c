SPECIFICATION Spec
CONSTANTS
    Models = {m1}
    Slots = {1, 2, 3}
    Agents = {a1, a2}
    l1 = l1
    l2 = l2
    Listings = {l1, l2}
    Reports <- MCReports
    Lease = 1
    MaxRequests = 2
    NoRun = NoRun
    NoAgent = NoAgent
    NoJob = NoJob
    NoReport = NoReport
    Quarantined = Quarantined
    NoOutcome = NoOutcome
SYMMETRY AgentSymmetry
CONSTRAINT ThreeSlotsOneReport
INVARIANTS
    TypeOK
    AtMostOneUnfinished
    CoalescedIntoRealRun
    JobMatchesAgent
    OutcomeExplained
    ReportCoversClaim
    AckedIsStored
PROPERTIES
    ClaimFrozen
    ClosedRunsFrozen
    ImplementsLedger
