\* A provider that retries within the lease, which nothing in the code rules out.
SPECIFICATION FairSpec
CONSTANTS
  e1 = e1
  e2 = e2
  Events <- MCEvents
  RetryGap <- MCRetryGap
  Workers = {w1, w2}
  NoEvent = NoEvent
  Lease = 2
  HandlerLimit = 2
  MaxFaults = 2
CHECK_DEADLOCK FALSE
PROPERTIES
  FailedStaysOwed
