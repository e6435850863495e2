CONSTANTS
  Cpus = {c1, c2}
  Timeouts = {w1}
  None = None
  t1 = t1
  t2 = t2
  Queues = {q1, q2}
  Threads = {t1, t2}
  Isr = isr
  Delays = {"now", "later", "forever"}
  Ops <- MCOpsDelay
SPECIFICATION Spec
SYMMETRY DelaySymmetry
INVARIANTS DelayedArmed NoStrandedCanceller
CHECK_DEADLOCK FALSE
