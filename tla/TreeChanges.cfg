SPECIFICATION Spec
CONSTANTS
    src = src
    lib = lib
    app = app
    Sources = {src}
    Outs = {lib, app}
    Inputs <- Diamond
    Attempts <- Names
    Readers = {r1}
    FirstManifest <- BothRules
    Copies <- NoCopies
    MaxVersion = 1
    MaxEdits = 0
    MaxChanges = 1
    MayOverflow = TRUE
    MayFail = TRUE
    MayMaterializeAll = FALSE
    HasCache = FALSE
    Restarts = "never"
    CacheFails = {}
    None = None
INVARIANTS
    CleanIsCurrent
    OpenIsCurrent
CHECK_DEADLOCK FALSE
