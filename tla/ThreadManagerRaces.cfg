\* Two controllers race with each other and with tasks that expire, are stolen
\* and give up.
CONSTANTS
  Workers = {w1, w2}
  Controllers = {c1, c2}
  Tasks = {t1, t2}
  Expiring = {t1}
  Inner = {}
  Timeouts <- MCTimeouts
  PendingTaskCountMax = 1
  StartMayFail = TRUE
  Stealing = TRUE
  Nobody = Nobody
SPECIFICATION Spec
INVARIANTS
  TypeOK
  CountsMatch
  NoIdleSurplus
  EachTaskOnce
SYMMETRY Symmetry
CHECK_DEADLOCK FALSE
