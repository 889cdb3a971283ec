SPECIFICATION FairSpec
CONSTANTS
    Paths = {p}
    Takers = {1}
    MaxVersion = 1
    InfoOf <- AllSame
    None = None
    MaxReports = 2
    Interruptible = {1}
PROPERTIES EveryOpenAnswered EveryChangeAnnounced DestructorReturns
CHECK_DEADLOCK FALSE
