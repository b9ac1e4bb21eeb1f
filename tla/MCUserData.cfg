SPECIFICATION UserSpec
CONSTANTS
    Job = {j1}
    Requests = {r1, r2, r3}
    Status = {"SAVED", "APPLIED", "INTERVIEW"}
    First = r0
    Text = {a, b}
    Section = {letter, note}
    Calls = {c1, c2, c3, c4}
SYMMETRY Symmetry
CHECK_DEADLOCK FALSE
INVARIANTS
    TaughtMatchesFacts
    VerdictSurvives
    AppliedIsDatedAndTaught
    FilesMatchVersions
    FreshGapIsCurrent
    CurrentIsFromSelected
    LiveIsListed
    ReplayEndsAll
    RotatedOnce
