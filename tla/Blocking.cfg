CONSTANTS
  NRequests = 3
  Mixes <- MCMixes
  Workers = 2
  IdSpace = 2
  IcmpTimeout = 2
  TcpTimeout = 1
  HttpTimeout = 1
  MaxForeign = 1
  MaxDelay = 8
SPECIFICATION FairSpec
INVARIANTS
  TypeOK
  OwnReply
  FirstReportDelay
  TcpTruthful
PROPERTIES
  GivenUpAtLimit
  ReportsGoOn
