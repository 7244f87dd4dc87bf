SPECIFICATION FairSpec

CONSTANTS
  f1 = f1
  v1 = v1
  v2 = v2
  Files = {f1}
  Visits = {v1, v2}
  Sizes = {1, 2}
  Limits = {1}
  MaxTotal = 2
  Budget = 1
  Faults = {"cancel", "evict", "hiccup"}
  None = None

PROPERTIES
  NothingStays
