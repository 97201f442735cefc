\* Two thread objects, any number of calls of open, close and wake.
CONSTANTS
  k1 = k1  k2 = k2
  Thread = {k1, k2}
SPECIFICATION FairSpec
INVARIANTS OneThread WakeNotLost RttFollows
PROPERTY WakeServed
