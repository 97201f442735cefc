\* A failure while the cluster is unreachable: does the user sleep?
CONSTANTS
  two = two  loose = loose  zero = zero  query = query  broken = broken
  east = east  west = west
  Users = {u1, u2}
  Hosts = {two, loose, zero, query, broken}
  Clusters = {east, west}
  Srv <- MCSrv
  BulkSize <- MCBulkSize
  Malformed = {broken}
  Loads = {two, loose, zero, broken}
  Ordered = {two, zero, broken}
  MaxTasks = 1
  MaxTests = 1
  None = None
SPECIFICATION Spec
CHECK_DEADLOCK FALSE
PROPERTY SleepAfterFailure
