CONSTANTS
  Cpus = {c1, c2}
  Timeouts = {w1}
  None = None
  t1 = t1
  t2 = t2
  Queues = {q1}
  Threads = {t1, t2}
  Isr = isr
  Delays = {"later"}
  Ops <- MCOpsRetry
SPECIFICATION Spec
INVARIANTS CancelingRuns
CHECK_DEADLOCK FALSE
