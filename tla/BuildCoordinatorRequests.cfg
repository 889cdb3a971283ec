SPECIFICATION Spec
CONSTANTS
    Attempts = {a, b}
    Ticketed = {a, b}
    Outputs = {{a}, {b}}
    Waits = {w1, w2, w3}
    Permits = 1
    OuterStops = TRUE
    Origins = {{a}, {b}, None}
    Cancels = TRUE
    WorkResults = {"ok", "failed"}
    None = None
SYMMETRY Interchangeable
INVARIANTS
    NoPermitWhileBlocked
    PermitRestored
    PermitMatchesLease
    LinksAgree
    AnsweredByTarget
    DoomedFails
PROPERTY AnsweredOnPermit
CHECK_DEADLOCK FALSE
