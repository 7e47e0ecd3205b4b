SPECIFICATION FairSpec
CONSTANTS
  Ports <- MCReadmeGrpcPorts
  MaxRetry = 1
  Answers <- MCAnswers
  Window = 3
PROPERTY
  SettledBackendReported
