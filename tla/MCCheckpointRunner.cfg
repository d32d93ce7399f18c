SPECIFICATION Spec
CONSTANTS
    own = own
    other = other
    s1 = s1
    s2 = s2
    Items <- ItemsDef
    OwnListings <- OwnListingsDef
    Skus <- SkusDef
    Shown <- ShownDef
    Results <- ResultsDef
    Limit = 2
    MaxFaults = 2
    NoItem = NoItem
    NoSku = NoSku
    NoCheckpoint = NoCheckpoint
    NoPage = NoPage
INVARIANTS
    TypeOK
    SavedCheckpointsHoldTogether
    ReturnedReportIsBacked
    SucceededMeansEverything
PROPERTIES
    ImplementsCaptureLog
    RunEnds
CHECK_DEADLOCK FALSE
