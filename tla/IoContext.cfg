SPECIFICATION FairSpec
CONSTANTS
  Tasks = {}
  Waits = {w}
  Watches = {v}
  Pollers = {"epoll", "port"}
  MaxReady = 2
  None = None
INVARIANTS
  NothingFreedIsUsed
  NoLostWakeup
PROPERTIES
  StopsComplete
  ReadyIsHandled
CHECK_DEADLOCK FALSE
