SPECIFICATION FairSpec
CONSTANTS
    Work = {w1, w2, w3}
    Ticketed = {w1, w2}
    Concurrency = 1
    HandoffStops = TRUE
INVARIANTS
    SlotsConserved
    NoIdleSlot
    InOnePlace
    TicketsFollowWaiters
PROPERTIES
    ImplementsSlotPool
    ReacquireAnswered
    ScheduledEnds
CHECK_DEADLOCK FALSE
