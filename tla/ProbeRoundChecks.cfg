SPECIFICATION Spec
CONSTANTS
  t1 = t1
  t2 = t2
  t3 = t3
  NoTarget = NoTarget
  Targets <- MCTargets
  Points <- MCOnePoint
CHECK_DEADLOCK FALSE
INVARIANT
  ChecksAddUp
