SPECIFICATION FairSpec
CONSTANTS
    src = src
    lib = lib
    app = app
    Sources = {src}
    Outs = {lib}
    Inputs <- Alone
    Attempts <- Names
    Readers = {r1}
    FirstManifest <- LibRule
    Copies <- NoCopies
    MaxVersion = 1
    MaxEdits = 2
    MaxChanges = 2
    MayOverflow = FALSE
    MayFail = FALSE
    MayMaterializeAll = TRUE
    HasCache = FALSE
    Restarts = "never"
    CacheFails = {}
    None = None
INVARIANT BuildsAccountedFor
PROPERTIES
    EveryOpenReturns
    OpenedIsRebuilt
CHECK_DEADLOCK FALSE
