CONSTANTS
  Targets = {1, 2}
  Verdicts = {"success", "failed"}
  Null = Null
  PageSize = 2
  Presets = {2}
  MaxRows = 7
  Ranges <- MCRanges
  Recorded <- MCRecorded
  Budgets <- MCBudgets
SPECIFICATION HistoryFairSpec
INVARIANTS RowsAnswerView
PROPERTIES HistoryLoads
CHECK_DEADLOCK FALSE
