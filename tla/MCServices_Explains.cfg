SPECIFICATION ServicesSpec
CONSTANTS
    Unknown = Unknown
    Similarity <- MCSimilarity
    Weight <- MCWeight
    Posting <- MCPosting
    MinTitle = 50
    LinkThreshold = 65
    MergeThreshold = 85
    MaxCandidates = 2
    Caller = {c1, c2, c3}
    PerMinute = 2
    Drift = 1
    Client = {d1, d2}
    Limit = 1
    Ticks = 2
    Within <- MCWithin
    Likeness <- MCLikeness
    SkillKey <- MCSkillKey
    Tokens <- MCTokens
    Catalog <- MCCatalog
    Skill <- MCSkill
    CandidateLimit = 2
    MaxRoleKeys = 2
    MaxPerSource = 4
    Attempts = 2
    Hours = 2
    Relevant = 60
    CompanyLimit = 1
    Family <- MCFamily
    Sources <- MCSources
    Casefold <- MCCasefold
    Split <- MCSplit
    SplitSkill <- MCSplitSkill
    Alias <- MCAlias
    CompanySuffix <- MCSuffix
    Tracking <- MCTracking
    Text <- MCText
    EmploymentTypes <- MCTypes
    Upper <- MCUpper
    Verdicts <- MCVerdicts
    BaseDelay = 2
    Parts = {"feed"}
    FeedInput <- MCFeedInput
    BrowseInput <- MCBrowseInput
    ScoreInput <- MCScoreInput
    FetchInput <- MCFetchInput
    FilterInput <- MCFilterInput
    GapInput <- MCGapInput
    ReportInput <- MCReportInput
    KeysInput <- MCKeysInput
    AskInput <- MCAskInput
CHECK_DEADLOCK FALSE
INVARIANT
    ExplanationsTruthful
