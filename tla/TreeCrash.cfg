SPECIFICATION Spec
CONSTANTS
    src = src
    lib = lib
    app = app
    Sources = {src}
    Outs = {lib, app}
    Inputs <- Chain
    Attempts <- Names
    Readers = {r1}
    FirstManifest <- BothRules
    Copies <- NoCopies
    MaxVersion = 1
    MaxEdits = 0
    MaxChanges = 1
    MayOverflow = FALSE
    MayFail = FALSE
    MayMaterializeAll = FALSE
    HasCache = TRUE
    Restarts = "any"
    CacheFails = {}
    None = None
INVARIANT RestartForgetsStale
CHECK_DEADLOCK FALSE
