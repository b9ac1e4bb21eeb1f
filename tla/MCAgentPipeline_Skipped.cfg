SPECIFICATION Spec
CONSTANTS
    LastDate = 1
    Manual = {m1}
    MaxTries = 2
    MaxJobs = 1
CHECK_DEADLOCK FALSE
INVARIANTS
    SkippedIsSearched
