\* A browser that reports its slot without the invitee URI.
SPECIFICATION Spec
CONSTANTS
  Deployments <- OldEmbed
  s1 = s1
  s2 = s2
  Slots <- MCSlots
  NoSlot = NoSlot
  GivenUp = {s1}
  Reports = {k1}
  MaxFaults = 0
  MaxInterventions = 1
CHECK_DEADLOCK FALSE
INVARIANTS
  OneRowPerSlot
