SPECIFICATION Spec
CONSTANTS
    Run = {r1, r2}
    Unreliable = {r1, r2}
    NoValue = NoValue
    Absent = Absent
    Unknown = Unknown
    Offer <- MCOffer
    Source = {"careers", "remoteok", "retired"}
    KnownSource = {"careers", "remoteok"}
    ExternalId = {"1", "2", "3", "9"}
    ContentHash = {"engineer", "engineer2", "other", "near", "lost"}
    Url = {"/a", "/b", "/c", "/d"}
    Company = {"acme"}
    Metadata = {"seed", "series_a"}
    Batches <- MCBatches
    MaxCandidates = 2
    Similarity <- MCSimilarity
    Weight <- MCWeight
    MinTitle = 50
    LinkThreshold = 65
    MergeThreshold = 85
CHECK_DEADLOCK FALSE
PROPERTY MetadataKept
