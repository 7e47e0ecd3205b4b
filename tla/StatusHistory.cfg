SPECIFICATION Spec
CONSTANTS
  Failures = {"refused", "timeout"}
  MaxTime = 2
CHECK_DEADLOCK FALSE
INVARIANTS
  TypeOK
  StatusFollowsRound
