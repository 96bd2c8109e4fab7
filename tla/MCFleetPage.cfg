CONSTANTS
  garage = garage
  fast = fast
  r1 = r1
  r2 = r2
  Tags = {garage, fast}
  DeviceTags = {garage}
  WorkerTags = {fast}
  RuleIds = {r1, r2}
  NoFilter = NoFilter
  Targets = {t1, t2}
  Workers = {w1}
  Versions = {v1, v2}
  None = None
  RulePool <- MCRulePool
  Filters <- MCFilters
  MaxJobs = 4
  MaxSlots = 1
  Budgets <- MCBudgets
SPECIFICATION Spec
INVARIANTS FinishedStays
PROPERTIES QueueCleared NoSilentOverride VersionKept SaidDone
CHECK_DEADLOCK FALSE
SYMMETRY Symmetry
