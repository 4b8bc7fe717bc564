\* One controller stops a pool of two workers.
CONSTANTS
  Workers = {w1, w2}
  Controllers = {c1}
  Tasks = {t1}
  Expiring = {}
  Inner = {}
  Timeouts = {0}
  PendingTaskCountMax = 1
  StartMayFail = FALSE
  Stealing = FALSE
  Nobody = Nobody
SPECIFICATION Spec
INVARIANT StopWaitsForWorkers
CHECK_DEADLOCK FALSE
