\* A running task adds a task to a full queue.
CONSTANTS
  Workers = {w1, w2}
  Controllers = {c1}
  Tasks = {t1, t2, t3}
  Expiring = {}
  Inner = {t3}
  Timeouts = {0}
  PendingTaskCountMax = 1
  StartMayFail = FALSE
  Stealing = FALSE
  Nobody = Nobody
SPECIFICATION Spec
INVARIANT AddNeverBlocksWorker
CHECK_DEADLOCK FALSE
