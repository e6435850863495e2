CONSTANTS
  Cpus = {c1, c2}
  Timeouts = {w1, w2}
  None = None
  t1 = t1
  t2 = t2
  Queues = {q1, q2}
  Threads = {t1, t2}
  Isr = isr
  Delays = {"now"}
  Ops <- MCOpsPlain
SPECIFICATION FairSpec
INVARIANTS FlagsMatch AwakeForStop
PROPERTIES CancelSyncIdle FlushWaits SyncReturns
CHECK_DEADLOCK FALSE
