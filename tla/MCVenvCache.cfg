SPECIFICATION VenvFairSpec
CHECK_DEADLOCK FALSE
CONSTANTS
  s1 = s1
  s2 = s2
  v1 = v1
  v2 = v2
  Threads <- TwoSlots
  Server = Server
  Heartbeat = Heartbeat
  Versions <- TwoVersions
  None = None
  MaxVersions = 1
  ServerVersions = 5
  MaxTasks = 3
INVARIANTS OneInstaller PinsCountJobs
PROPERTY EnsureReturns
