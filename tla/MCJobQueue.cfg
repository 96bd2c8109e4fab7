CONSTANTS
  t1 = t1
  w1 = w1
  w2 = w2
  None = None
  Targets <- MCTargets
  Workers <- MCWorkers
  Requests <- MCRequests
  Results <- MostResults
  Uploads = {1}
  MaxJobs = 3
  MaxRetries = 2
  Kills = TRUE
SPECIFICATION Spec
CONSTRAINT ThirdOnlyQueues
INVARIANTS
  TypeOK
  HistoryNotAhead
  RetryBudget
  OneFollowup
PROPERTIES
  EvictionRecorded
  ImplementsLifecycle
CHECK_DEADLOCK FALSE
