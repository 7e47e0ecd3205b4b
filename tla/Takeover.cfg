SPECIFICATION FairSpec
CONSTANTS
  h1 = h1
  h2 = h2
  web = web
  dns = dns
  dnsTcp = dnsTcp
  metrics = metrics
  Names <- MCNames
  IPs <- MCIPs
  Services <- MCServices
  AddressSets <- MCAddressSets
  CommandLines <- MCCommandLines
  Backends <- MCBackends
  TooLong <- MCTooLong
  Budget = 2
  Absent = Absent
CHECK_DEADLOCK FALSE
INVARIANTS
  TypeOK
  Seamless
PROPERTIES
  AdoptionCompletes
