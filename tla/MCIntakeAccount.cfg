SPECIFICATION Spec
CONSTANTS
  None = None
  Unknown = Unknown
  r1 = r1
  r2 = r2
  r3 = r3
  r4 = r4
  i1 = i1
  i2 = i2
  i3 = i3
  t1 = t1
  Requests = {r1, r2, r3, r4}
  Readers = {r1, r2, r3, r4}
  Instances = {i1, i2, i3}
  Cold = {i3}
  Tokens = {t1}
  ClockRef = ClockRef
  MaxFaults = 0
  Workloads <- ScoredThenReviewed
  EmployerRows <- MCEmployerRows
  Commercial <- MCCommercial
  FactValues <- MCFactValues
  PolicyRows <- SeededPolicy
  Catalogue <- MCCatalogue
PROPERTY AccountStays
CHECK_DEADLOCK FALSE
