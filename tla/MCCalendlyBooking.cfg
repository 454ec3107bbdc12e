\* Two slots of one prospect, of which one may be given up; one browser report, one
\* fault and one intervention; payments on or off, embeds with and without the URI.
SPECIFICATION FairSpec
CONSTANTS
  Deployments <- MCDeployments
  s1 = s1
  s2 = s2
  Slots <- MCSlots
  NoSlot = NoSlot
  GivenUp = {s1}
  Reports = {k1}
  MaxFaults = 1
  MaxInterventions = 1
CHECK_DEADLOCK FALSE
INVARIANTS
  TypeOK
  HandledIsBooked
  OnlyStripeConfirms
  SettledStays
PROPERTIES
  EventuallyAnswered
  FreeSlotConfirmed
