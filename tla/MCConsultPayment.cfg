\* Two concurrent checkouts, two workers, one fault and one intervention.
SPECIFICATION Spec
CONSTANTS
  Attempts = {k1, k2}
  ByHand = {}
  NoAttempt = NoAttempt
  MaxBookings = 1
  Workers = {w1, w2}
  MaxFaults = 1
  MaxInterventions = 1
SYMMETRY Symmetry
CHECK_DEADLOCK FALSE
INVARIANTS
  TypeOK
  ConfirmedWasPaid
  PaidWasCharged
  OnePaid
  PaidSlotNotPending
  EverySessionHasRow
  AnsweredChargeOnRecord
PROPERTIES
  OnlyStaleWritesUndo
