SPECIFICATION FairSpec
CONSTANTS
  p1 = p1
  p2 = p2
  k1 = k1
  k2 = k2
  k3 = k3
  Nobody = Nobody
  Processes <- MCProcesses
  Keys <- MCKeys
  Stuck <- MCStuck
  LeaderElect = TRUE
  MaxConcurrent = 2
  Budget = 4
INVARIANTS
  TypeOK
  OneAtATime
  NoKeyForgotten
PROPERTIES
  NeverBackwards
  EndpointsFollow
  KeysServed
\* With a stuck key in every worker the system does stop; KeysServed says when
\* it must not.
CHECK_DEADLOCK FALSE
