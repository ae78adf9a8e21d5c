CONSTANTS
  PoolThreads = 2
  MaxRequests = 4
  MaxFailures = 1
SPECIFICATION FairSpec
INVARIANTS TypeOK OneWorkerDecodes QuietShowsLast
PROPERTIES WorkerEmptiesQueue
CHECK_DEADLOCK FALSE
