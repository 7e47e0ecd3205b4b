SPECIFICATION FairSpec
CONSTANTS
  t1 = t1
  t2 = t2
  t3 = t3
  NoTarget = NoTarget
  Targets <- MCTargets
  Points <- MCPoints
CHECK_DEADLOCK FALSE
INVARIANTS
  TypeOK
  AnswerComplete
  CheckCountBounded
  NeverStuck
PROPERTIES
  KeepsPromise
  RoundReturns
