\* One controller; tasks neither expire nor are removed.
CONSTANTS
  Workers = {w1, w2}
  Controllers = {c1}
  Tasks = {t1, t2, t3}
  Expiring = {}
  Inner = {}
  Timeouts = {0}
  PendingTaskCountMax = 2
  StartMayFail = FALSE
  Stealing = FALSE
  Nobody = Nobody
SPECIFICATION FairSpec
INVARIANTS
  WorkersServeQueue
  PendingBound
  NoStrandedAdder
PROPERTIES
  JoinDrains
  PendingServed
  OperationsReturn
CHECK_DEADLOCK FALSE
