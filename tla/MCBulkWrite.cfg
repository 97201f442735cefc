\* Calls of three commands, the last one shorter, with any documents refused:
\* ordered as in locustfile-faker.py, and unordered as in
\* locustfile-faker-custom.py and locustfile-mimesis.py.
CONSTANTS
  NumDocs = 5
  MaxBatch = 2
  RetryWrites = TRUE
  None = None
SPECIFICATION FairSpec
CHECK_DEADLOCK FALSE
INVARIANTS AtMostOnce ExactReport TimeoutMeansNothingSent
PROPERTIES OneRetry Implements Ends
