SPECIFICATION Spec
CONSTANTS
    Listings = {"l"}
    Rules <- MCRules
    Reports <- MCReports
    KnownItems = {11}
    MaxEvaluations = 2
    MaxEdits = 1
INVARIANTS
    ConfirmedPricesArePayable
    AlertsCompareLikeWithLike
    ReportTellsOneEvaluation
    CandidateShowsItsBestSku
    CountsTellRows
