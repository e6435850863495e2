CONSTANTS
  Cpus = {c1, c2}
  Threads = {t1, t2, t3}
  Timeouts = {t1, t2, t3}
  None = None
  sem = sem
  Objects = {sem}
  Lifecycle = {"sleep", "suspend", "abort", "join"}
  Waits = {"timed"}
  Limit = 1
  InitialCount = 0
SYMMETRY SemSymmetry
SPECIFICATION Spec
INVARIANTS SuspendKeepsTimeout
CHECK_DEADLOCK FALSE
