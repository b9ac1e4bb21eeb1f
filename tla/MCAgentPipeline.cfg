SPECIFICATION Spec
CONSTANTS
    LastDate = 2
    Manual = {m1}
    MaxTries = 2
    MaxJobs = 2
CHECK_DEADLOCK FALSE
INVARIANTS
    OneSearchPerDate
    ChainOrder
PROPERTIES
    JobsEnd
