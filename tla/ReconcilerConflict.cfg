SPECIFICATION Spec
CONSTANTS
  p1 = p1
  p2 = p2
  Absent = Absent
  Steps = 2
  Specs <- MCBothPorts
  Services <- MCUnownedService
  Endpoints <- MCUnownedEndpoints
  Disturbances = {"flip", "drift"}
  Budget = 2
CHECK_DEADLOCK FALSE
PROPERTIES
  UnhealthyIsEarned
