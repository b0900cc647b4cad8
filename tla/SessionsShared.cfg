SPECIFICATION FairSpec
CONSTANTS
  r1 = r1  r2 = r2  r3 = r3
  Nobody = Nobody
  Requests <- ThreeRequests
  PoolSize = 2
  Tokens = 2
  Workers = 1
  MaxRepos = 3
CHECK_DEADLOCK FALSE
INVARIANTS TypeOK NothingKept TasksKeepConnection
PROPERTIES EveryRequestAnswered
