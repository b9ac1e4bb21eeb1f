SPECIFICATION MatchSpec
CONSTANTS
    j1 = j1
    j2 = j2
    j3 = j3
    Newest <- TwoJobs
    Linked = {j1}
    Named = {}
    Variant = {j2}
    Unreadable = {}
    Requests = {r1}
    Agent = agent
    Limit = 2
    Priorities = {"HIGH"}
CHECK_DEADLOCK FALSE
INVARIANTS
    ChangeReachesMatches
