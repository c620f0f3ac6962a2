SPECIFICATION FairSpec
CONSTANTS
  t1 = t1
  t2 = t2
  Threads <- TwoThreads
  MaxSessions = 2
  MaxFds = 3
  MaxConnects = 1
CHECK_DEADLOCK FALSE
INVARIANT TypeOK
INVARIANT DescriptorsOwn
INVARIANT AsyncNeverLeaks
INVARIANT SyncLeakAccount
PROPERTY CallsReturn
PROPERTY RefinesOwners
