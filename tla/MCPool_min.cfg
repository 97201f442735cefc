\* minPoolSize = maxPoolSize = 1.
CONSTANTS
  t1 = t1  t2 = t2
  Threads = {t1, t2}
  Maintainer = Maintainer
  MaxPoolSize = 1
  MinPoolSize = 1
  MaxOps = 2
  MaxRounds = 1
  MaxResets = 1
  None = None
SPECIFICATION Spec
SYMMETRY Symmetry
CHECK_DEADLOCK FALSE
INVARIANT WithinMaxPoolSize
