\* Two user slots with a task each and two tests of any host: the slots are
\* reused by the second test while documents of the first are still in flight.
\* The system stops when the bounds are reached.
CONSTANTS
  two = two  loose = loose  zero = zero  query = query  broken = broken
  east = east  west = west
  Users = {u1, u2}
  Hosts = {two, loose, zero, query, broken}
  Clusters = {east, west}
  Srv <- MCSrv
  BulkSize <- MCBulkSize
  Malformed = {broken}
  Loads = {two, loose, zero, broken}
  Ordered = {two, zero, broken}
  MaxTasks = 1
  MaxTests = 2
  None = None
SPECIFICATION Spec
CHECK_DEADLOCK FALSE
INVARIANTS SuccessIsStored CountedOnce RightCollection AuditOnSameCluster
PROPERTY KeepsLedger
