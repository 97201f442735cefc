\* Two threads and the maintainer on a pool of one connection: threads wait for
\* each other and for the maintainer.
CONSTANTS
  t1 = t1  t2 = t2
  Threads = {t1, t2}
  Maintainer = Maintainer
  MaxPoolSize = 1
  MinPoolSize = 1
  MaxOps = 2
  MaxRounds = 1
  MaxResets = 1
  None = None
SPECIFICATION FairSpec
CHECK_DEADLOCK FALSE
INVARIANTS OneOwner IdleIsCurrent Restored AtMostOneMore
PROPERTY Served
