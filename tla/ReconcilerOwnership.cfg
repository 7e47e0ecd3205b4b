SPECIFICATION Spec
CONSTANTS
  p1 = p1
  p2 = p2
  Absent = Absent
  Steps = 2
  Specs <- MCPlain
  Services <- MCUnownedService
  Endpoints <- MCUnownedEndpoints
  Disturbances = {"seize", "drift", "remove", "flip", "fault"}
  Budget = 2
CHECK_DEADLOCK FALSE
PROPERTIES
  OwnershipRespected
  HealthyIsEarned
  RoundAdvances
