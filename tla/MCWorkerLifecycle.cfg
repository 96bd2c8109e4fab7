SPECIFICATION FairSpec
CONSTANTS
  s1 = s1
  s2 = s2
  Slots <- MCSlots
  MaxAttempts = 3
  UpdateFailures = 3
  SetupFailures = 1
  Forgets = 1
  Releases = 1
  Cleans = 1
  Restarts = 1
INVARIANTS QuietSwap
PROPERTIES FlagsServed WorkResumes
