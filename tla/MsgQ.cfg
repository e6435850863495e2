CONSTANTS
  Cpus = {c1, c2}
  Threads = {t1, t2, t3}
  Timeouts = {t1, t2, t3}
  None = None
  msgq = msgq
  Objects = {msgq}
  Lifecycle = {"abort"}
  Waits = {"timed"}
  max_msgs = 2
  Messages = {a, b}
SYMMETRY MsgQSymmetry
VIEW MsgQView
SPECIFICATION Spec
INVARIANTS WaitersMatch RingConsistent PeekFindsMessage
PROPERTIES ImplementsQueue
CHECK_DEADLOCK FALSE
