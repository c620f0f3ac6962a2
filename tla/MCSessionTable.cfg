SPECIFICATION FairSpec
CONSTANTS
  t1 = t1
  t2 = t2
  NoThread = NoThread
  Threads <- TwoThreads
  MaxSessions = 2
  IdSpace = 2
INVARIANT TypeOK
INVARIANT ExclusiveHandles
PROPERTY RefinesPool
PROPERTY MutexReleased
PROPERTY RefinesOwners
