CONSTANTS
  j1 = j1
  j2 = j2
  Jobs = {j1, j2}
  Downloads = {j2}
  Worker = Worker
  None = None
  MaxLines = 2
  MaxSockets = 2
  MaxChains = 2
  MaxOpens = 2
SPECIFICATION FairSpec
PROPERTIES HandOverEarned LogComplete ClosedIsQuiet
CHECK_DEADLOCK FALSE
