\* Two users of one process, with a task each, and one restart while they run;
\* any number of failed downloads and installations, two lists to be served.
CONSTANTS
  one = one  east = east  w = w
  locust = locust  mimesis = mimesis
  Users = {u1, u2}
  Hosts = {one}
  Clusters = {east}
  Srv <- MCSrv
  BulkSize <- MCBulkSize
  Malformed = {}
  Loads = {one}
  Ordered = {}
  MaxTasks = 1
  MaxTests = 1
  Workers = {w}
  Of <- MCOf
  MaxRestarts = 1
  Image <- ImageList
  Lists <- ServedLists
  Imports = {locust, mimesis}
  None = None
SPECIFICATION WFairSpec
CHECK_DEADLOCK FALSE
INVARIANTS UniqueInProcess 
PROPERTY Recovers
