SPECIFICATION FairSpec
CONSTANTS
  Ports <- MCPorts
  MaxRetry = 2
  Answers <- MCAnswers
  Window = 3
INVARIANTS
  TypeOK
  HealthyVerdictEarned
  UnhealthyVerdictEarned
  VerdictNotWithheld
PROPERTIES
  CallsAreSpent
  SettledNamedBackendReported
