SPECIFICATION Spec
CONSTANTS
    Paths = {p}
    Takers = {1, 2}
    MaxVersion = 1
    InfoOf <- AllDifferent
    None = None
    MaxReports = 2
    Interruptible = {}
INVARIANT OpensNewVersion
CHECK_DEADLOCK FALSE
