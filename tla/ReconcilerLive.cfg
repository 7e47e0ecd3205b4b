SPECIFICATION FairSpec
CONSTANTS
  p1 = p1
  p2 = p2
  Absent = Absent
  Steps = 2
  Specs <- MCPlainOrHeadless
  Services <- MCAnyService
  Endpoints <- MCUnownedEndpoints
  Disturbances = {"edit", "relabel", "seize", "drift", "remove", "flip", "fault", "crash"}
  Budget = 1
CHECK_DEADLOCK FALSE
PROPERTIES
  Converges
  ProbedPeriodically
