CONSTANTS
  Cpus = {c1, c2}
  Timeouts = {t1, t2}
  None = None
  MaxWait = 2
  MaxSpan = 3
  Durations = {0, 1}
  LastExpiry = 3
  LastTick = 5
SPECIFICATION FairSpec
INVARIANTS TypeOK TickConsistency NotOverdue AlarmCovers
PROPERTIES NeverEarly ImplementsDispatch EventuallyFires
CHECK_DEADLOCK FALSE
