\* Two threads, two sessions, three retryable writes, and a clock on which sessions grow too old.
CONSTANTS
  t1 = t1  t2 = t2
  Threads = {t1, t2}
  Live = 1
  MaxTime = 2
  MaxSessions = 2
  MaxCommands = 3
  None = None
SPECIFICATION Spec
SYMMETRY Symmetry
CHECK_DEADLOCK FALSE
INVARIANTS Exclusive OneNumberEach QuietInPool
