SPECIFICATION FairSpec
CONSTANTS
  p1 = p1
  p2 = p2
  Absent = Absent
  Steps = 2
  Specs <- MCAnyPeriod
  Services <- MCNothing
  Endpoints <- MCNothing
  Disturbances = {"create", "delete", "edit", "fault", "crash"}
  Budget = 2
CHECK_DEADLOCK FALSE
INVARIANTS
  TypeOK
  FinalizerHeld
  NeverForgotten
PROPERTIES
  DeletionCompletes
  LifetimeKept
  OwnershipRespected
