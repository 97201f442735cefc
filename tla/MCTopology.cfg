\* Two operations, two changes of the server and two faults of the network.
CONSTANTS
  t1 = t1  t2 = t2
  Threads = {t1, t2}
  MaxChanges = 2
  MaxFaults = 2
  None = None
SPECIFICATION FairSpec
INVARIANT NotPrimaryIsKept
PROPERTIES DeathCountsOnce Converges
