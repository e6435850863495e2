CONSTANTS
  lo = lo
  mid = mid
  hi = hi
  Threads = {lo, mid, hi}
  Mutexes = {m1, m2, m3}
  None = None
  BasePrio <- MCBasePrio
  Ceiling = 0
  MaxHops = 16
  Waits = {"forever", "timed"}
  DeadlockDetect = TRUE
  MaxCount = 2
SYMMETRY MutexSymmetry
SPECIFICATION Spec
INVARIANTS TypeOK OwnershipConsistent NoInversion NoLeakedBoost
CHECK_DEADLOCK FALSE
