\* As ThreadManagerService, but one task has an expiration.
CONSTANTS
  Workers = {w1, w2}
  Controllers = {c1}
  Tasks = {t1, t2, t3}
  Expiring = {t2}
  Inner = {}
  Timeouts = {0}
  PendingTaskCountMax = 1
  StartMayFail = FALSE
  Stealing = FALSE
  Nobody = Nobody
SPECIFICATION Spec
INVARIANT NoStrandedAdder
CHECK_DEADLOCK FALSE
