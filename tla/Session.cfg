CONSTANTS
  p1 = p1
  p2 = p2
  e1 = e1
  Main = Main
  Requests <- MCRequests
  Kind <- MCKind
  MaxConns <- MCMaxConns
SPECIFICATION FairSpec
INVARIANTS
  TypeOK
  AnsweredOnceWhereAsked
  TaskInv
  OneConnectionUp
PROPERTIES
  ReportNotStarved
  PingEnds
  ListenersEnd
