\* No fault and no intervention: two concurrent checkouts suffice.
SPECIFICATION FairSpec
CONSTANTS
  Attempts = {k1, k2}
  ByHand = {}
  NoAttempt = NoAttempt
  MaxBookings = 1
  Workers = {w1}
  MaxFaults = 0
  MaxInterventions = 0
CHECK_DEADLOCK FALSE
PROPERTIES
  EveryChargeAnswered
