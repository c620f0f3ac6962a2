SPECIFICATION FairSpec
CONSTANTS
  MaxConns = 3
  MaxMessages = 1
  MaxFds = 2
  Backlog = 1
CHECK_DEADLOCK FALSE
INVARIANT TypeOK
INVARIANT OwnConnection
INVARIANT NoOrphan
INVARIANT LatestServed
PROPERTY HangUpEnds
PROPERTY MessagesRead
PROPERTY ArrivalServed
PROPERTY RefinesService
