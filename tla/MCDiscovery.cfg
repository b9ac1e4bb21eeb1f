SPECIFICATION Spec
CONSTANTS
    Run = {r1, r2}
    NoValue = NoValue
    Absent = Absent
    Unknown = Unknown
    Offer <- MCOffer
    Source = {"careers", "remoteok", "retired", "linkedin"}
    KnownSource = {"careers", "remoteok"}
    ExternalId = {"1", "3", "9"}
    ContentHash = {"engineer", "lost"}
    Url = {"/a", "/c"}
    Company = {"acme"}
    Metadata = {"seed"}
    Registered <- MCRegistered
    Request <- MCRequest
    Enabled <- MCEnabled
    Fetch <- MCFetch
    MaxCandidates = 1
    Similarity <- MCSimilarity
    Weight <- MCWeight
    MinTitle = 50
    LinkThreshold = 65
    MergeThreshold = 85
CHECK_DEADLOCK FALSE
INVARIANTS
    RowTruthful
    CountsTruthful
    DeliveredIsListed
PROPERTIES
    ClosedRowsStay
    RowsClose
