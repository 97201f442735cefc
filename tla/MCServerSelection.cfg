\* Three servers that differ in what they had written when they last answered,
\* in when that was, in their tags and in their distance.
CONSTANTS
  x = x
  Servers = {a, b, c}
  Ages = {0, 3}
  HelloTimes = {5, 6}
  RoundTripTimes = {0, 2}
  TagSets = {{}, {x}}
  TagSetLists <- Fallbacks
  Stalenesses <- Limits
  LocalThreshold = 1
  HeartbeatFrequency = 2
  IdleWritePeriod = 1
  SmallestMaxStaleness = 1
SPECIFICATION SSpec
SYMMETRY Symmetry
CHECK_DEADLOCK FALSE
INVARIANTS StalenessBound TagsInOrder
