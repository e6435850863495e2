CONSTANTS
  lo = lo
  mid = mid
  top = top
  Threads = {lo, mid, top}
  Mutexes = {m1, m2, m3}
  None = None
  BasePrio <- MCBasePrio
  Ceiling = 2
  MaxHops = 16
  Waits = {"forever"}
  DeadlockDetect = TRUE
  MaxCount = 2
SYMMETRY MutexSymmetry
SPECIFICATION CondvarSpec
INVARIANTS NoLostSignal ExactInheritance DeadlockCaught
PROPERTIES ReturnsLocked
CHECK_DEADLOCK FALSE
