SPECIFICATION Spec
CONSTANTS
    Run = {r1, r2}
    User = {"ann", "bob"}
    Channel = {"EMAIL"}
    InApp = "IN_APP"
    Worklist <- MCWorklist
    MaxTries = 2
    LastDate = 1
CHECK_DEADLOCK FALSE
INVARIANTS
    NeverDoubleSend
