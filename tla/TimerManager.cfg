SPECIFICATION FairSpec
CONSTANTS
  Tasks = {t1, t2}
  Starters = {a1}
  Stoppers = {s1, s2}
  TicksPerMs = 2
  Delays <- MCDelays
  Expirations <- MCExpirations
  Lag = 1
  MaxTime = 2
INVARIANTS
  TypeOK
  CountMatches
  NoOversleep
  NotifyReachesDispatcher
  DetachedAfterLastUse
  NeverEarly
PROPERTIES
  DueTasksRun
  CallsReturn
CHECK_DEADLOCK FALSE
