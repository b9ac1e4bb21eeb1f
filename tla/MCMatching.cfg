SPECIFICATION MatchSpec
CONSTANTS
    j1 = j1
    j2 = j2
    j3 = j3
    Newest <- ThreeJobs
    Linked = {j2}
    Named = {j3}
    Variant = {}
    Unreadable = {j1}
    Requests = {r1}
    Agent = agent
    Limit = 2
    Priorities = {"HIGH"}
CHECK_DEADLOCK FALSE
INVARIANTS
    OutdatedOnlyByRace
PROPERTIES
    FeedbackKept
    AllScored
