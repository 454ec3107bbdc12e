\* One webhook beside one decision of the agent.
SPECIFICATION FairSpec
CONSTANTS
  Attempts = {k1, k2}
  ByHand = {}
  NoAttempt = NoAttempt
  MaxBookings = 1
  Workers = {w1}
  MaxFaults = 0
  MaxInterventions = 1
CHECK_DEADLOCK FALSE
PROPERTIES
  StageMovesForward
