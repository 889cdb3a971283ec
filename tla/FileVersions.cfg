SPECIFICATION Spec
CONSTANTS
    Paths = {p}
    Takers = {1, 2}
    MaxVersion = 1
    InfoOf <- AllSame
    None = None
    MaxReports = 2
    Interruptible = {2}
INVARIANTS OneVersion TakenIsCurrent HeldIsComing NotWrittenWhileOpen
CHECK_DEADLOCK FALSE
