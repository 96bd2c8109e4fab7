CONSTANTS
  t1 = t1
  t2 = t2
  w1 = w1
  w2 = w2
  None = None
  NoFilter = NoFilter
  Targets = {t1, t2}
  Workers = {w1, w2}
  Requests <- WithPin
  Results <- Success
  Uploads = {}
  MaxJobs = 2
  MaxRetries = 2
  Kills = FALSE
  RuleIds = {1}
  Tags <- MCTags
  DeviceTags <- MCDeviceTags
  TagChoices <- MCTagChoices
  RuleChoices <- MCRules
  Wishes <- MCWishes
  MaxScore = 2
  MaxSlots = 2
  MaxChanges = 1
SPECIFICATION DFairSpec
PROPERTIES
  JobStarts
CHECK_DEADLOCK FALSE
