SPECIFICATION FairSpec
CONSTANTS
  p1 = p1
  p2 = p2
  Absent = Absent
  Steps = 2
  Specs <- MCNoPositive
  Services <- MCNothing
  Endpoints <- MCNothing
  Disturbances = {"flip"}
  Budget = 1
CHECK_DEADLOCK FALSE
PROPERTIES
  ProbedPeriodically
