SPECIFICATION FairSpec
CONSTANTS
    Attempts = {a1, a2, b}
    Ticketed = {a1, a2, b}
    Outputs = {{a1, a2}, {b}}
    Waits = {w1, w2}
    Permits = 1
    OuterStops = FALSE
    Origins = {{a1, a2}, {b}}
    Cancels = FALSE
    WorkResults = {"ok"}
    None = None
INVARIANTS
    NoWaitCycle
    HurriedClosed
PROPERTIES
    EveryWaitAnswered
    EveryAttemptCompletes
CHECK_DEADLOCK FALSE
