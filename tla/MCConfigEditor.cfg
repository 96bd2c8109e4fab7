CONSTANTS
  n1 = n1
  n2 = n2
  stub = stub
  text = text
  Names = {n1, n2}
  Texts = {stub, text}
  Stub = stub
  None = None
  MaxCommits = 3
  Budgets <- MCBudgets
SPECIFICATION Spec
INVARIANTS CleanMeansSaved NoOrphanStub OlderOnLeft
PROPERTIES CommitsWhatWasSaved
CHECK_DEADLOCK FALSE
SYMMETRY Symmetry
