SPECIFICATION RulesSpec
CONSTANTS
    src = src
    lib = lib
    app = app
    Sources = {src}
    Outs = {lib, app}
    Inputs <- Chain
    Attempts <- Names
    Readers = {r1}
    FirstManifest <- BothRules
    Copies <- AppCopies
    MaxVersion = 1
    MaxEdits = 1
    MaxChanges = 1
    MayOverflow = FALSE
    MayFail = FALSE
    MayMaterializeAll = FALSE
    HasCache = TRUE
    Restarts = "quiet"
    CacheFails = {"keep", "drop"}
    None = None
INVARIANTS
    QuietIsExact
    OpenedAtRest
    RecordsHold
CHECK_DEADLOCK FALSE
