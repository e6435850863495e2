CONSTANTS
  Cpus = {c1, c2}
  Timeouts = {timer}
  Timer = timer
  Threads = {th1}
  None = None
  Periods = {"oneshot", "periodic"}
  MaxStatus = 2
  MaxStarts = 3
SPECIFICATION FairSpec
INVARIANTS TypeOK CleanupWaits SyncSawEvent
PROPERTIES StaleNeverFires WaiterServed
CHECK_DEADLOCK FALSE
