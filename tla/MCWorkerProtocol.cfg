CONSTANTS
  t1 = t1
  w1 = w1
  w2 = w2
  None = None
  Targets = {t1}
  Workers = {w1, w2}
  Requests <- AllAsked
  Results <- Result
  Uploads <- JobIds
  MaxJobs = 1
  MaxRetries = 2
  Kills = FALSE
  Sends = 1
  MaxVariants = 1
  MaxPushes = 2
  MaxRestarts = 1
SPECIFICATION FairSpec
INVARIANTS
  DownloadOnlyNeverFlashed
  PushHasFirmware
PROPERTIES
  ImplementsQueue
  JobFinishes
  PushSettles
CHECK_DEADLOCK FALSE
