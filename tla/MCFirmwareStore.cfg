CONSTANTS
  j1 = j1
  j2 = j2
  Jobs = {j1, j2}
  Variants = {"factory", "ota"}
  Size <- MCSize
  MaxAge = 1
  Budget = 2
  Page = 2
  Clamp = 1
  MaxTime = 3
SPECIFICATION StoreSpec
PROPERTIES
  BudgetHolds
  EvictsOldestAsNeeded
SYMMETRY Symmetry
CHECK_DEADLOCK FALSE
