\* HandlerLimit = Lease is the deployed setting (maxDuration 300 s, LEASE_MS 5 min);
\* two events and workers, a provider that repeats its event while it is being handled
\* and one that waits out the lease.
SPECIFICATION FairSpec
CONSTANTS
  e1 = e1
  e2 = e2
  Events <- MCEvents
  RetryGap <- MCRetryGap
  Workers = {w1, w2}
  NoEvent = NoEvent
  Lease = 2
  HandlerLimit = 2
  MaxFaults = 3
CHECK_DEADLOCK FALSE
INVARIANTS
  TypeOK
  OneHandlerPerEvent
  AckedIsHandled
PROPERTIES
  HandsOutExclusively
  EventuallyProcessed
