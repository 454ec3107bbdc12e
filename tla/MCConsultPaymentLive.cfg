\* A checkout beside a session opened by hand, two bookings to choose from, two faults.
SPECIFICATION FairSpec
CONSTANTS
  Attempts = {k1, k2}
  ByHand = {k2}
  NoAttempt = NoAttempt
  MaxBookings = 2
  Workers = {w1}
  MaxFaults = 2
  MaxInterventions = 0
CHECK_DEADLOCK FALSE
PROPERTIES
  ConfirmsCharges
  ChargeGetsAnswered
  ChargeGetsBooked
  SweepResolves
