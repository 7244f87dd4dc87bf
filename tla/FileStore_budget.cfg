SPECIFICATION PlainSpec

CONSTANTS
  f1 = f1
  f2 = f2
  f3 = f3
  v1 = v1
  Files = {f1, f2, f3}
  Visits = {v1}
  Sizes = {1}
  Limits = {3}
  MaxTotal = 3
  Budget = 3
  Faults = {}
  None = None

SYMMETRY Symmetry

INVARIANT
  BudgetCovers
